-------------------------- MODULE RateLimiter_proofs --------------------------
(***************************************************************************)
(* Proofs about RateLimiter, for every limit, every length of the periods  *)
(* and any set of initiators.                                              *)
(***************************************************************************)
EXTENDS RateLimiter, SequenceTheorems, TLAPS

Cookie == Devices \X Int \X Devices

HeldCookie == Cookie \cup {NoCookie}

Limiter == [count : 0..LIMIT, last_reset : Int, start_time : Int]

Cookies == [write_cookie : HeldCookie, last_mac1 : Nat, received : Nat]

Handshake == [state : Nat, previous : Nat, sent : Nat \cup {Never}]

Message ==
    [type : {"cookie"}, mac1 : Nat, cookie : Cookie]
    \cup [type : {"init"}, mac1 : Nat, mac2 : HeldCookie]
    \cup [type : {"response"}, mac1 : Nat, mac2 : HeldCookie, answers : Nat]

TypeOK ==
    /\ clock \in 0..MaxClock
    /\ limiter \in [Devices -> Limiter]
    /\ cookies \in [Devices -> Cookies]
    /\ handshake \in [Devices -> Handshake]
    /\ accepted \in [Devices -> Nat]
    /\ net \in [Devices -> Seq(Message)]
    /\ session \in [Devices -> BOOLEAN]
    /\ macs \in 0..MaxMacs
    /\ lost \in 0..MaxLost
    /\ started \in [Devices -> Nat \cup {Never}]
    /\ unproven \in [Devices -> Nat]

\* What keeps AdmittedBounded: a message let in without a cookie was counted, and
\* past LIMIT, where the count stands still, none is let in.
UnprovenCounted == \A e \in Devices : unproven[e] <= limiter[e].count

IInv == TypeOK /\ UnprovenCounted

-----------------------------------------------------------------------------
(* Types.                                                                  *)

\* The other device is a device.
LEMMA PeerType == \A e \in Devices : Peer(e) \in Devices /\ Peer(e) # e
BY RateLimiterAssumption DEF Peer, Devices

\* A device's limiter is in range whatever is done to it.
LEMMA LimiterType ==
    ASSUME TypeOK, NEW e \in Devices
    PROVE  /\ limiter[e].count \in 0..LIMIT
           /\ limiter[e].last_reset \in Int
           /\ limiter[e].start_time \in Int
           /\ LIMIT \in Nat \ {0} /\ COOKIE_REFRESH \in Nat \ {0}
           /\ clock \in Nat
<1>1. limiter[e] \in Limiter /\ clock \in Nat
  BY DEF TypeOK
<1>2. LIMIT \in Nat \ {0} /\ COOKIE_REFRESH \in Nat \ {0}
  BY RateLimiterAssumption
<1> QED
  BY <1>1, <1>2 DEF Limiter

\* current_cookie makes a cookie.
LEMMA CurrentCookieType ==
    ASSUME TypeOK, NEW e \in Devices, NEW d \in Devices
    PROVE  CurrentCookie(e, d) \in Cookie
<1>1. (clock - limiter[e].start_time) \div COOKIE_REFRESH \in Int
  BY LimiterType
<1> QED
  BY <1>1 DEF CurrentCookie, Cookie

\* The parts of what an end holds.
LEMMA CookiesType ==
    ASSUME TypeOK, NEW e \in Devices
    PROVE  /\ cookies[e].write_cookie \in HeldCookie
           /\ cookies[e].last_mac1 \in Nat
           /\ cookies[e].received \in Nat
           /\ handshake[e].state \in Nat
           /\ handshake[e].previous \in Nat
           /\ handshake[e].sent \in Nat \cup {Never}
BY DEF TypeOK, Cookies, Handshake

\* A message under way has the fields of its type.
LEMMA MessageType ==
    ASSUME TypeOK, NEW e \in Devices, NEW i \in 1..Len(net[e])
    PROVE  /\ net[e][i] \in Message
           /\ net[e][i].mac1 \in Nat
           /\ net[e][i].type = "cookie" => net[e][i].cookie \in Cookie
           /\ net[e][i].type = "response" => net[e][i].answers \in Nat
<1>1. net[e][i] \in Message
  BY DEF TypeOK
<1> QED
  BY <1>1 DEF Message

\* Without one of its messages a queue is a queue.
LEMMA RemoveAtType ==
    ASSUME NEW T, NEW s \in Seq(T), NEW i \in 1..Len(s)
    PROVE  RemoveAt(s, i) \in Seq(T)
<1>1. SubSeq(s, 1, i - 1) \in Seq(T)
  BY SubSeqProperties
<1>2. SubSeq(s, i + 1, Len(s)) \in Seq(T)
  BY SubSeqProperties
<1> QED
  BY <1>1, <1>2, ConcatProperties DEF RemoveAt

\* A message taken from one queue, and one appended to the other.
LEMMA NetTaken ==
    ASSUME TypeOK, NEW e \in Devices, NEW i \in 1..Len(net[e]),
           net' = [net EXCEPT ![e] = RemoveAt(@, i)]
    PROVE  net' \in [Devices -> Seq(Message)]
<1>1. RemoveAt(net[e], i) \in Seq(Message)
  BY RemoveAtType DEF TypeOK
<1> QED
  BY <1>1 DEF TypeOK

\* The same when the other end is answered.
LEMMA NetAnswered ==
    ASSUME TypeOK, NEW e \in Devices, NEW i \in 1..Len(net[e]), NEW m \in Message,
           net' = [net EXCEPT ![e] = RemoveAt(@, i), ![Peer(e)] = Append(@, m)]
    PROVE  net' \in [Devices -> Seq(Message)]
<1>1. RemoveAt(net[e], i) \in Seq(Message)
  BY RemoveAtType DEF TypeOK
<1>2. Peer(e) \in Devices /\ Peer(e) # e
  BY PeerType
<1>3. Append(net[Peer(e)], m) \in Seq(Message)
  BY <1>2 DEF TypeOK
<1> QED
  BY <1>1, <1>2, <1>3 DEF TypeOK

-----------------------------------------------------------------------------
(* The steps.                                                              *)

\* Counting a message keeps the limiters in range.
LEMMA CountedType ==
    ASSUME TypeOK, NEW e \in Devices, Counted(e)
    PROVE  /\ limiter' \in [Devices -> Limiter]
           /\ limiter'[e].count = (IF limiter[e].count = LIMIT THEN LIMIT
                                   ELSE limiter[e].count + 1)
           /\ \A d \in Devices : d # e => limiter'[d] = limiter[d]
<1> DEFINE n == IF limiter[e].count = LIMIT THEN LIMIT ELSE limiter[e].count + 1
           l == [limiter[e] EXCEPT !.count = n]
<1>1. n \in 0..LIMIT
  BY LimiterType
<1>2. limiter' = [limiter EXCEPT ![e] = l]
  BY DEF Counted
<1> HIDE DEF n
<1>3. limiter[e] \in Limiter /\ limiter \in [Devices -> Limiter]
  BY DEF TypeOK
<1>4. l \in Limiter /\ l.count = n
  BY <1>1, <1>3 DEF Limiter
<1> HIDE DEF l
<1> QED
  BY <1>2, <1>3, <1>4 DEF n

\* A message that is counted, and let in without a cookie only below the limit,
\* keeps the count of those without a cookie below the count of all.
LEMMA CountedBound ==
    ASSUME IInv, NEW e \in Devices, Counted(e), NEW proven \in BOOLEAN,
           proven \/ ~IsUnderLoad(e),
           unproven' = [unproven EXCEPT ![e] = IF proven THEN @ ELSE @ + 1]
    PROVE  unproven' \in [Devices -> Nat] /\ UnprovenCounted'
<1>1. unproven \in [Devices -> Nat] /\ unproven[e] <= limiter[e].count
  BY DEF IInv, TypeOK, UnprovenCounted
<1>2. limiter[e].count \in 0..LIMIT /\ LIMIT \in Nat
  BY LimiterType DEF IInv
<1>3. unproven' \in [Devices -> Nat]
  BY <1>1
<1>4. unproven'[e] <= limiter'[e].count
  BY <1>1, <1>2, CountedType DEF IInv, IsUnderLoad
<1>5. \A d \in Devices : d # e => unproven'[d] <= limiter'[d].count
  BY <1>1, CountedType DEF IInv, UnprovenCounted
<1> QED
  BY <1>3, <1>4, <1>5 DEF UnprovenCounted

\* verify_packet lets a message in.
LEMMA LetInBound ==
    ASSUME IInv, NEW e \in Devices, NEW m, LetIn(e, m)
    PROVE  /\ limiter' \in [Devices -> Limiter]
           /\ unproven' \in [Devices -> Nat]
           /\ UnprovenCounted'
<1> DEFINE p == Proven(e, m)
<1>1. /\ p \in BOOLEAN /\ Counted(e) /\ (p \/ ~IsUnderLoad(e))
      /\ unproven' = [unproven EXCEPT ![e] = IF p THEN @ ELSE @ + 1]
  BY DEF LetIn, Proven
<1> HIDE DEF p
<1> QED
  BY <1>1, CountedBound, CountedType DEF IInv

\* Steps that neither count nor reset.
LEMMA UnprovenKept ==
    ASSUME UnprovenCounted, UNCHANGED <<limiter, unproven>>
    PROVE  UnprovenCounted'
BY DEF UnprovenCounted

\* reset_count starts both counts anew.
LEMMA ResetInv ==
    ASSUME IInv, NEW e \in Devices, ResetCount(e)
    PROVE  IInv'
<1> DEFINE l == [limiter[e] EXCEPT !.count = 0, !.last_reset = clock]
<1>1. limiter \in [Devices -> Limiter] /\ unproven \in [Devices -> Nat] /\ limiter[e] \in Limiter
  BY DEF IInv, TypeOK
<1>2. limiter' = [limiter EXCEPT ![e] = l] /\ unproven' = [unproven EXCEPT ![e] = 0]
  BY DEF ResetCount
<1>3. clock \in Nat /\ LIMIT \in Nat
  BY LimiterType DEF IInv
<1>4. l \in Limiter /\ l.count = 0
  <2> DEFINE k == limiter[e]
  <2>1. 0 \in 0..LIMIT /\ k \in Limiter
    BY <1>1, <1>3
  <2> HIDE DEF k
  <2>2. ASSUME NEW t \in Int
        PROVE  [k EXCEPT !.count = 0, !.last_reset = t] \in Limiter
    BY <2>1 DEF Limiter
  <2>3. ASSUME NEW t \in Int
        PROVE  [k EXCEPT !.count = 0, !.last_reset = t].count = 0
    BY <2>1 DEF Limiter
  <2>4. clock \in Int /\ l = [k EXCEPT !.count = 0, !.last_reset = clock]
    BY <1>3 DEF k
  <2> HIDE DEF l
  <2> QED
    BY <2>2, <2>3, <2>4
<1> HIDE DEF l
<1>5. limiter' \in [Devices -> Limiter] /\ unproven' \in [Devices -> Nat]
  BY <1>1, <1>2, <1>4
<1>6. UnprovenCounted'
  BY <1>1, <1>2, <1>4 DEF IInv, UnprovenCounted
<1>7. TypeOK'
  BY <1>5 DEF IInv, TypeOK, ResetCount
<1> QED
  BY <1>6, <1>7 DEF IInv

\* A message of somebody else is let in below the limit only.
LEMMA LoadInv ==
    ASSUME IInv, NEW e \in Devices, Load(e)
    PROVE  IInv'
<1> DEFINE p == IsUnderLoad(e)
<1>1. Counted(e) /\ unproven' = [unproven EXCEPT ![e] = IF p THEN @ ELSE @ + 1]
  BY DEF Load
<1>2. p \in BOOLEAN /\ (p \/ ~IsUnderLoad(e))
  BY DEF IsUnderLoad
<1> HIDE DEF p
<1>3. unproven' \in [Devices -> Nat] /\ UnprovenCounted'
  BY <1>1, <1>2, CountedBound
<1>4. limiter' \in [Devices -> Limiter]
  BY <1>1, CountedType DEF IInv
<1>5. TypeOK'
  BY <1>3, <1>4 DEF IInv, TypeOK, Load
<1> QED
  BY <1>3, <1>5 DEF IInv

\* An initiation appended to the other end's queue, with the cookie held.
LEMMA SendInv ==
    ASSUME IInv, NEW e \in Devices, SendInit(e)
    PROVE  IInv'
<1> DEFINE held == Unexpired(cookies[e])
           h == [state |-> macs + 1, previous |-> handshake[e].state, sent |-> clock]
           c == MacsAppended(e, held)
           m == [type |-> "init", mac1 |-> macs + 1, mac2 |-> held.write_cookie]
<1>1. /\ handshake' = [handshake EXCEPT ![e] = h]
      /\ cookies' = [cookies EXCEPT ![e] = c]
      /\ net' = [net EXCEPT ![Peer(e)] = Append(@, m)]
      /\ started' = [started EXCEPT ![e] = IF @ = Never THEN clock ELSE @]
      /\ macs < MaxMacs /\ macs' = macs + 1
      /\ UNCHANGED <<clock, limiter, accepted, session, lost, unproven>>
  BY DEF SendInit
<1>2. macs \in Nat /\ macs' \in 0..MaxMacs /\ clock \in Nat
  BY <1>1, RateLimiterAssumption DEF IInv, TypeOK
<1>3. cookies[e] \in Cookies
  BY DEF IInv, TypeOK
<1>4. held \in Cookies
  BY <1>3 DEF Unexpired, Cookies, HeldCookie
<1> HIDE DEF held
<1>5. c \in Cookies /\ held.write_cookie \in HeldCookie
  BY <1>2, <1>4 DEF MacsAppended, Cookies
<1>6. h \in Handshake
  BY <1>2, CookiesType DEF IInv, Handshake
<1>7. m \in Message
  BY <1>2, <1>5 DEF Message
<1> HIDE DEF h, c, m
<1>8. Peer(e) \in Devices
  BY PeerType
<1>9. Append(net[Peer(e)], m) \in Seq(Message)
  BY <1>7, <1>8 DEF IInv, TypeOK
<1>10. /\ handshake' \in [Devices -> Handshake]
       /\ cookies' \in [Devices -> Cookies]
       /\ net' \in [Devices -> Seq(Message)]
       /\ started' \in [Devices -> Nat \cup {Never}]
  BY <1>1, <1>2, <1>5, <1>6, <1>9 DEF IInv, TypeOK
<1>11. TypeOK'
  BY <1>1, <1>2, <1>10 DEF IInv, TypeOK
<1> QED
  BY <1>1, <1>11, UnprovenKept DEF IInv

\* A message that is answered with a cookie is counted, and not let in.
LEMMA ReplyInv ==
    ASSUME IInv, NEW e \in Devices, NEW i \in 1..Len(net[e]), ReplyCookie(e, i)
    PROVE  IInv'
<1> DEFINE m == CookieReply(e, net[e][i])
<1>1. net' = [net EXCEPT ![e] = RemoveAt(@, i), ![Peer(e)] = Append(@, m)]
  BY DEF ReplyCookie
<1>2. m \in Message
  BY PeerType, MessageType, CurrentCookieType DEF IInv, CookieReply, Message
<1> HIDE DEF m
<1>3. net' \in [Devices -> Seq(Message)]
  BY <1>1, <1>2, NetAnswered DEF IInv
<1>4. limiter' \in [Devices -> Limiter]
  BY CountedType DEF IInv, ReplyCookie
<1>5. TypeOK'
  BY <1>3, <1>4 DEF IInv, TypeOK, ReplyCookie
<1>6. UnprovenCounted'
  <2>1. unproven' = [unproven EXCEPT ![e] = IF TRUE THEN @ ELSE @ + 1]
    BY DEF IInv, TypeOK, ReplyCookie
  <2> QED
    BY <2>1, CountedBound DEF ReplyCookie
<1> QED
  BY <1>5, <1>6 DEF IInv

\* handle_handshake_init: a newer initiation is answered, any other dropped.
LEMMA ReceiveInitInv ==
    ASSUME IInv, NEW e \in Devices, NEW i \in 1..Len(net[e]), ReceiveInit(e, i)
    PROVE  IInv'
<1> DEFINE m == net[e][i]
           r == ResponseMsg(e, m)
           h == [state |-> 0, previous |-> handshake[e].state, sent |-> Never]
           c == MacsAppended(e, cookies[e])
<1>1. /\ limiter' \in [Devices -> Limiter]
      /\ unproven' \in [Devices -> Nat]
      /\ UnprovenCounted'
  BY LetInBound DEF ReceiveInit
<1>2. m.mac1 \in Nat /\ macs \in Nat
  <2>1. macs \in Nat
    BY RateLimiterAssumption DEF IInv, TypeOK
  <2> QED
    BY <2>1, MessageType DEF IInv
<1>3. CASE m.mac1 > accepted[e]
  <2>1. /\ macs < MaxMacs /\ macs' = macs + 1
        /\ accepted' = [accepted EXCEPT ![e] = m.mac1]
        /\ handshake' = [handshake EXCEPT ![e] = h]
        /\ cookies' = [cookies EXCEPT ![e] = c]
        /\ net' = [net EXCEPT ![e] = RemoveAt(@, i), ![Peer(e)] = Append(@, r)]
    BY <1>3 DEF ReceiveInit
  <2>2. r \in Message
    BY <1>2, CookiesType DEF IInv, ResponseMsg, Message
  <2>3. h \in Handshake
    BY CookiesType DEF IInv, Handshake
  <2>4. c \in Cookies
    <3>1. cookies[e] \in Cookies
      BY DEF IInv, TypeOK
    <3> QED
      BY <1>2, <3>1 DEF MacsAppended, Cookies
  <2> HIDE DEF m, r, h, c
  <2>5. net' \in [Devices -> Seq(Message)]
    BY <2>1, <2>2, NetAnswered DEF IInv
  <2>6. /\ handshake' \in [Devices -> Handshake]
        /\ cookies' \in [Devices -> Cookies]
        /\ accepted' \in [Devices -> Nat]
    BY <1>2, <2>1, <2>3, <2>4 DEF IInv, TypeOK
  <2>7. macs' \in 0..MaxMacs
    BY <1>2, <2>1, RateLimiterAssumption
  <2> QED
    BY <1>1, <2>5, <2>6, <2>7 DEF IInv, TypeOK, ReceiveInit
<1>4. CASE ~(m.mac1 > accepted[e])
  <2>1. net' = [net EXCEPT ![e] = RemoveAt(@, i)]
    BY <1>4 DEF ReceiveInit
  <2>2. net' \in [Devices -> Seq(Message)]
    BY <2>1, NetTaken DEF IInv
  <2>3. UNCHANGED <<macs, accepted, handshake, cookies>>
    BY <1>4 DEF ReceiveInit
  <2> QED
    BY <1>1, <2>2, <2>3 DEF IInv, TypeOK, ReceiveInit
<1> QED
  BY <1>3, <1>4

\* handle_handshake_response.
LEMMA ReceiveResponseInv ==
    ASSUME IInv, NEW e \in Devices, NEW i \in 1..Len(net[e]), ReceiveResponse(e, i)
    PROVE  IInv'
<1> DEFINE m == net[e][i]
           h == IF m.answers = handshake[e].state
                THEN [handshake[e] EXCEPT !.state = 0, !.sent = Never]
                ELSE [handshake[e] EXCEPT !.previous = 0]
<1>1. /\ limiter' \in [Devices -> Limiter]
      /\ unproven' \in [Devices -> Nat]
      /\ UnprovenCounted'
  BY LetInBound DEF ReceiveResponse
<1>2. net' \in [Devices -> Seq(Message)]
  BY NetTaken DEF IInv, ReceiveResponse
<1>3. \/ /\ session' = [session EXCEPT ![e] = TRUE]
         /\ handshake' = [handshake EXCEPT ![e] = h]
      \/ UNCHANGED <<session, handshake>>
  BY DEF ReceiveResponse
<1>4. h \in Handshake
  <2>1. handshake[e] \in Handshake
    BY DEF IInv, TypeOK
  <2> QED
    BY <2>1 DEF Handshake
<1> HIDE DEF m, h
<1>5. session' \in [Devices -> BOOLEAN] /\ handshake' \in [Devices -> Handshake]
  BY <1>3, <1>4 DEF IInv, TypeOK
<1> QED
  BY <1>1, <1>2, <1>5 DEF IInv, TypeOK, ReceiveResponse

\* receive_cookie_reply: a cookie that opens is kept with its time.
LEMMA ReceiveCookieInv ==
    ASSUME IInv, NEW e \in Devices, NEW i \in 1..Len(net[e]), ReceiveCookie(e, i)
    PROVE  IInv'
<1> DEFINE m == net[e][i]
           c == [cookies[e] EXCEPT !.write_cookie = m.cookie, !.received = clock]
<1>1. net' \in [Devices -> Seq(Message)]
  BY NetTaken DEF IInv, ReceiveCookie
<1>2. cookies' = cookies \/ cookies' = [cookies EXCEPT ![e] = c]
  BY DEF ReceiveCookie
<1>3. c \in Cookies
  <2>1. cookies[e] \in Cookies /\ clock \in Nat
    BY DEF IInv, TypeOK
  <2>2. m.cookie \in Cookie
    BY MessageType DEF IInv, ReceiveCookie
  <2> QED
    BY <2>1, <2>2 DEF Cookies, HeldCookie
<1> HIDE DEF c
<1>4. cookies' \in [Devices -> Cookies]
  BY <1>2, <1>3 DEF IInv, TypeOK
<1>5. TypeOK'
  BY <1>1, <1>4 DEF IInv, TypeOK, ReceiveCookie
<1> QED
  BY <1>5, UnprovenKept DEF IInv, ReceiveCookie

\* A message lost.
LEMMA LoseInv ==
    ASSUME IInv, NEW e \in Devices, NEW i \in 1..Len(net[e]), Lose(e, i)
    PROVE  IInv'
<1>1. net' \in [Devices -> Seq(Message)]
  BY NetTaken DEF IInv, Lose
<1>2. lost' \in 0..MaxLost
  <2>1. lost \in 0..MaxLost /\ MaxLost \in Nat
    BY RateLimiterAssumption DEF IInv, TypeOK
  <2>2. lost < MaxLost /\ lost' = lost + 1
    BY DEF Lose
  <2> QED
    BY <2>1, <2>2
<1>3. TypeOK'
  BY <1>1, <1>2 DEF IInv, TypeOK, Lose
<1> QED
  BY <1>3, UnprovenKept DEF IInv, Lose

\* Time that passes touches no limiter.
LEMMA PassInv ==
    ASSUME IInv, Pass
    PROVE  IInv'
<1>1. clock' \in 0..MaxClock
  BY RateLimiterAssumption DEF IInv, TypeOK, Pass
<1>2. TypeOK'
  BY <1>1 DEF IInv, TypeOK, Pass
<1> QED
  BY <1>2, UnprovenKept DEF IInv, Pass

-----------------------------------------------------------------------------
(* The theorems.                                                           *)

\* The invariant holds in the initial state.
LEMMA InitInv == Init => IInv
<1> SUFFICES ASSUME Init PROVE IInv
  OBVIOUS
<1>1. LIMIT \in Nat /\ 0 \in 0..LIMIT /\ COOKIE_REFRESH \in Nat
  BY RateLimiterAssumption
<1>2. limiter \in [Devices -> Limiter] /\ \A e \in Devices : limiter[e].count = 0
  BY <1>1 DEF Init, Limiter
<1>3. TypeOK
  <2>1. /\ cookies \in [Devices -> Cookies]
        /\ handshake \in [Devices -> Handshake]
        /\ net \in [Devices -> Seq(Message)]
    BY DEF Init, Cookies, Handshake, HeldCookie
  <2>2. clock \in 0..MaxClock /\ macs \in 0..MaxMacs /\ lost \in 0..MaxLost
    BY RateLimiterAssumption DEF Init
  <2> QED
    BY <1>2, <2>1, <2>2 DEF Init, TypeOK
<1>4. UnprovenCounted
  BY <1>2 DEF Init, UnprovenCounted
<1> QED
  BY <1>3, <1>4 DEF IInv

\* The invariant is inductive.
LEMMA NextInv == IInv /\ [Next]_vars => IInv'
<1> SUFFICES ASSUME IInv, [Next]_vars PROVE IInv'
  OBVIOUS
<1>1. CASE Pass
  BY <1>1, PassInv
<1>2. ASSUME NEW e \in Devices, ResetCount(e) \/ Load(e) \/ SendInit(e)
      PROVE  IInv'
  BY <1>2, ResetInv, LoadInv, SendInv
<1>3. ASSUME NEW e \in Devices, NEW i \in 1..Len(net[e]), Receive(e, i) \/ Lose(e, i)
      PROVE  IInv'
  BY <1>3, ReplyInv, ReceiveInitInv, ReceiveResponseInv, ReceiveCookieInv, LoseInv DEF Receive
<1>4. CASE UNCHANGED vars
  BY <1>4 DEF vars, IInv, TypeOK, UnprovenCounted
<1> QED
  BY <1>1, <1>2, <1>3, <1>4 DEF Next

\* IInv holds throughout.
LEMMA Invariance == Spec => []IInv
BY InitInv, NextInv, PTL DEF Spec

\* The limiters, the cookies and the messages keep their types; what an end holds
\* as a cookie is one that current_cookie made.
THEOREM TypeCorrect == Spec => []TypeOK
BY Invariance, PTL DEF IInv

\* However many messages of however many senders arrive between two resets,
\* verify_packet lets not more than LIMIT of them in without a cookie.
THEOREM LoadBounded == Spec => []AdmittedBounded
<1>1. ASSUME IInv, NEW e \in Devices
      PROVE  unproven[e] <= LIMIT
  <2>1. unproven[e] \in Nat /\ unproven[e] <= limiter[e].count
    BY <1>1 DEF IInv, TypeOK, UnprovenCounted
  <2>2. limiter[e].count \in 0..LIMIT /\ LIMIT \in Nat
    BY <1>1, LimiterType DEF IInv
  <2> QED
    BY <2>1, <2>2
<1>2. IInv => AdmittedBounded
  BY <1>1 DEF AdmittedBounded
<1> QED
  BY <1>2, Invariance, PTL

-----------------------------------------------------------------------------
(* How many rounds an initiator needs: CompletesInTime.  One of the ends   *)
(* begins the handshakes, and the attempt ends before a cookie is old.     *)

OneBegins(e) == Initiators = {e}

\* In the code REKEY_ATTEMPT_TIME, 90 s, ends the rounds, and a cookie lasts for 120 s.
CookiesLast ==
    /\ (4 + MaxLost) * REKEY_TIMEOUT < COOKIE_EXPIRATION_TIME
    /\ (4 + MaxLost) * REKEY_TIMEOUT <= COOKIE_REFRESH

\* The period a limiter is in.
Period(d) == (clock - limiter[d].start_time) \div COOKIE_REFRESH

\* What an end holds as a cookie is one of the other end's of the first two periods.
Holds(d) ==
    \/ cookies[d].write_cookie = NoCookie
    \/ \E p \in 0..1 : /\ p <= Period(Peer(d))
                       /\ cookies[d].write_cookie = <<Peer(d), p, d>>

\* The rounds that the cookies an end holds have cost, at most, ...
Paid(d) ==
    IF cookies[d].write_cookie = NoCookie THEN 0 ELSE cookies[d].write_cookie[2] + 1

\* ... and the rounds that are accounted for.
Rounds(e) == Paid(e) + Paid(Peer(e)) + lost

\* The message of the round: the initiation, the response to it, or a cookie for
\* the one or the other that its end does not hold yet.
InitOf(e, m) ==
    /\ m.type = "init"
    /\ m.mac1 = handshake[e].state /\ m.mac1 = cookies[e].last_mac1
    /\ m.mac1 > accepted[Peer(e)]
    /\ m.mac2 = cookies[e].write_cookie

ResponseTo(e, m) ==
    /\ m.type = "response"
    /\ m.answers = handshake[e].state
    /\ m.mac1 = cookies[Peer(e)].last_mac1
    /\ m.mac2 = cookies[Peer(e)].write_cookie

CookieFor(d, m) ==
    /\ m.type = "cookie"
    /\ m.mac1 = cookies[d].last_mac1
    /\ m.cookie = <<Peer(d), Period(Peer(d)), d>>
    /\ cookies[d].write_cookie # m.cookie

OfRound(e, d, m) ==
    \/ d = Peer(e) /\ InitOf(e, m)
    \/ d = e /\ ResponseTo(e, m)
    \/ CookieFor(d, m)

Silent == \A d \in Devices : net[d] = <<>>

\* A round is under way, or it is over and what ended it is accounted for.
UnderWay(e) ==
    /\ \E d \in Devices : /\ net[Peer(d)] = <<>>
                          /\ \E m \in Message : net[d] = <<m>> /\ OfRound(e, d, m)
    /\ clock = handshake[e].sent
    /\ handshake[e].sent <= Rounds(e) * REKEY_TIMEOUT

Over(e) ==
    /\ Silent
    /\ handshake[e].sent + REKEY_TIMEOUT <= Rounds(e) * REKEY_TIMEOUT

Trying(e) ==
    /\ started[e] = 0
    /\ handshake[e].sent \in Nat
    /\ handshake[e].sent <= clock /\ clock <= handshake[e].sent + REKEY_TIMEOUT
    /\ handshake[e].state <= macs
    /\ accepted[Peer(e)] <= macs
    /\ \A d \in Devices : Holds(d)
    /\ UnderWay(e) \/ Over(e)

Untried(e) ==
    /\ clock = 0 /\ Silent
    /\ accepted[Peer(e)] <= macs
    /\ \A d \in Devices : cookies[d].write_cookie = NoCookie

StartTimes == \A d \in Devices : limiter[d].start_time \in (1 - COOKIE_REFRESH)..0

RetryInv(e) ==
    /\ StartTimes
    /\ started[Peer(e)] = Never
    /\ started[e] = Never => Untried(e)
    /\ started[e] # Never /\ ~session[e] => Trying(e)

\* Numbers.
LEMMA FirstPeriods ==
    ASSUME NEW c \in Nat \ {0}, NEW n \in 0..(2 * c - 1)
    PROVE  n \div c = IF n < c THEN 0 ELSE 1
OBVIOUS

LEMMA Products ==
    ASSUME NEW n \in Nat, NEW m \in Nat, NEW r \in Nat
    PROVE  /\ n * r \in Nat
           /\ n <= m => n * r <= m * r
           /\ n < m => n * r + r <= m * r
<1>1. n * r \in Nat
  OBVIOUS
<1>2. n <= m => n * r <= m * r
  OBVIOUS
<1>3. ASSUME n < m PROVE n * r + r <= m * r
  <2>1. (n + 1) * r <= m * r
    BY <1>3
  <2>2. (n + 1) * r = n * r + r
    OBVIOUS
  <2> QED
    BY <2>1, <2>2
<1> QED
  BY <1>1, <1>2, <1>3

\* The two ends.
LEMMA TwoDevices ==
    ASSUME NEW e \in Devices
    PROVE  /\ Peer(e) \in Devices /\ Peer(e) # e /\ Peer(Peer(e)) = e
           /\ \A d \in Devices : d = e \/ d = Peer(e)
BY RateLimiterAssumption DEF Peer, Devices

\* A queue of one message is empty without it.
LEMMA TakeOnly ==
    ASSUME NEW m, NEW s, s = <<m>>, NEW i \in 1..Len(s)
    PROVE  i = 1 /\ s[i] = m /\ RemoveAt(s, i) = <<>>
<1>1. i = 1 /\ s[i] = m
  OBVIOUS
<1>2. SubSeq(s, 1, 0) = <<>> /\ SubSeq(s, 2, 1) = <<>>
  OBVIOUS
<1>3. RemoveAt(s, 1) = SubSeq(s, 1, 0) \o SubSeq(s, 2, 1)
  BY DEF RemoveAt
<1> QED
  BY <1>1, <1>2, <1>3

\* While there are two periods at most, they are the numbers 0 and 1.
LEMMA PeriodIs ==
    ASSUME IInv, StartTimes, clock <= COOKIE_REFRESH, NEW d \in Devices
    PROVE  Period(d) = IF clock - limiter[d].start_time < COOKIE_REFRESH THEN 0 ELSE 1
<1> DEFINE n == clock - limiter[d].start_time
<1>1. COOKIE_REFRESH \in Nat \ {0} /\ clock \in Nat
  BY LimiterType DEF IInv
<1>2. limiter[d].start_time \in (1 - COOKIE_REFRESH)..0
  BY DEF StartTimes
<1>3. n \in 0..(2 * COOKIE_REFRESH - 1)
  BY <1>1, <1>2
<1> HIDE DEF n
<1>4. n \div COOKIE_REFRESH = IF n < COOKIE_REFRESH THEN 0 ELSE 1
  BY <1>1, <1>3, FirstPeriods
<1> QED
  BY <1>4 DEF Period, n

\* An end has paid two rounds for its cookies at most.
LEMMA PaidIs ==
    ASSUME NEW d, Holds(d)
    PROVE  Paid(d) \in 0..2
BY DEF Holds, Paid, NoCookie

\* While an end tries, its rounds are few and its time is short.
LEMMA InTime ==
    ASSUME IInv, NEW e \in Devices, Trying(e), CookiesLast
    PROVE  /\ Rounds(e) \in Nat
           /\ clock <= Rounds(e) * REKEY_TIMEOUT
           /\ clock <= (4 + lost) * REKEY_TIMEOUT
           /\ clock < COOKIE_EXPIRATION_TIME /\ clock <= COOKIE_REFRESH
           /\ Over(e) => handshake[e].sent + REKEY_TIMEOUT <= COOKIE_REFRESH
<1> DEFINE R == REKEY_TIMEOUT
           n == Rounds(e)
           t == IF Over(e) THEN handshake[e].sent + R ELSE clock
<1>1. /\ R \in Nat \ {0} /\ COOKIE_REFRESH \in Nat /\ COOKIE_EXPIRATION_TIME \in Nat
      /\ MaxLost \in Nat /\ lost \in 0..MaxLost /\ clock \in Nat
      /\ handshake[e].sent \in Nat
  BY RateLimiterAssumption DEF IInv, TypeOK, Trying
<1>2. n \in 0..(4 + lost)
  <2>1. Paid(e) \in 0..2 /\ Paid(Peer(e)) \in 0..2
    BY PaidIs, TwoDevices DEF Trying
  <2> QED
    BY <1>1, <2>1 DEF Rounds
<1>3. clock <= t /\ t <= n * R /\ t \in Nat
  BY <1>1 DEF Trying, Over, UnderWay
<1>4. /\ (4 + MaxLost) * R < COOKIE_EXPIRATION_TIME
      /\ (4 + MaxLost) * R <= COOKIE_REFRESH
  BY DEF CookiesLast
<1>5. Over(e) => t = handshake[e].sent + R
  OBVIOUS
<1> HIDE DEF R, n, t
<1>6. n * R \in Nat /\ n * R <= (4 + lost) * R /\ (4 + lost) * R \in Nat
  BY <1>1, <1>2, Products
<1>7. (4 + lost) * R <= (4 + MaxLost) * R /\ (4 + MaxLost) * R \in Nat
  BY <1>1, Products
<1>8. /\ n \in Nat /\ clock <= n * R /\ clock <= (4 + lost) * R
      /\ clock < COOKIE_EXPIRATION_TIME /\ clock <= COOKIE_REFRESH
      /\ t <= COOKIE_REFRESH
  BY <1>1, <1>2, <1>3, <1>4, <1>6, <1>7
<1> QED
  BY <1>5, <1>8 DEF R, n

\* No step changes when a limiter was made.
SameTimes == \A d \in Devices : limiter'[d].start_time = limiter[d].start_time

LEMMA CountedTimes ==
    ASSUME IInv, NEW e \in Devices, Counted(e)
    PROVE  SameTimes
<1> DEFINE n == IF limiter[e].count = LIMIT THEN LIMIT ELSE limiter[e].count + 1
<1>1. limiter' = [limiter EXCEPT ![e] = [limiter[e] EXCEPT !.count = n]]
  BY DEF Counted
<1> HIDE DEF n
<1>2. limiter \in [Devices -> Limiter] /\ limiter[e] \in Limiter
  BY DEF IInv, TypeOK
<1> QED
  BY <1>1, <1>2 DEF SameTimes, Limiter

LEMMA ResetTimes ==
    ASSUME IInv, NEW e \in Devices, ResetCount(e)
    PROVE  SameTimes
<1>1. limiter' = [limiter EXCEPT ![e] =
                    [limiter[e] EXCEPT !.count = 0, !.last_reset = clock]]
  BY DEF ResetCount
<1>2. limiter \in [Devices -> Limiter] /\ limiter[e] \in Limiter
  BY DEF IInv, TypeOK
<1> QED
  BY <1>1, <1>2 DEF SameTimes, Limiter

\* While the clock stands still, so do the periods.
LEMMA PeriodKept ==
    ASSUME SameTimes, clock' = clock, NEW d \in Devices
    PROVE  Period(d)' = Period(d)
BY DEF SameTimes, Period

\* An end holds what it held.
LEMMA HoldsKept ==
    ASSUME SameTimes, clock' = clock, NEW d \in Devices, Holds(d),
           cookies'[d].write_cookie = cookies[d].write_cookie
    PROVE  Holds(d)' /\ Paid(d)' = Paid(d)
<1>1. Peer(d) \in Devices
  BY TwoDevices
<1>2. Period(Peer(d))' = Period(Peer(d))
  BY <1>1, PeriodKept
<1> QED
  BY <1>2 DEF Holds, Paid

\* A message that there is is the one of the round.
LEMMA RoundMessage ==
    ASSUME NEW e \in Devices, Trying(e), NEW d \in Devices, NEW i \in 1..Len(net[d])
    PROVE  /\ UnderWay(e) /\ net[Peer(d)] = <<>>
           /\ RemoveAt(net[d], i) = <<>>
           /\ net[d][i] \in Message
           /\ OfRound(e, d, net[d][i])
<1>1. UnderWay(e)
  BY DEF Trying, Over, Silent
<1>2. PICK x \in Devices : /\ net[Peer(x)] = <<>>
                           /\ \E m \in Message : net[x] = <<m>> /\ OfRound(e, x, m)
  BY <1>1 DEF UnderWay
<1>3. x = d
  BY <1>2, TwoDevices
<1>4. PICK m \in Message : net[d] = <<m>> /\ OfRound(e, d, m)
  BY <1>2, <1>3
<1>5. net[d][i] = m /\ RemoveAt(net[d], i) = <<>>
  BY <1>4, TakeOnly
<1> QED
  BY <1>1, <1>2, <1>3, <1>4, <1>5

\* A round that ends without a session is accounted for.
LEMMA RoundEnds ==
    ASSUME IInv, NEW e \in Devices, Trying(e), UnderWay(e), CookiesLast,
           UNCHANGED <<clock, handshake, accepted, macs, started>>,
           Silent', \A d \in Devices : Holds(d)',
           Rounds(e)' \in Nat, Rounds(e) < Rounds(e)'
    PROVE  Trying(e)'
<1> DEFINE R == REKEY_TIMEOUT
           n == Rounds(e)
           k == Rounds(e)'
<1>1. R \in Nat /\ n \in Nat /\ k \in Nat /\ n < k
  BY InTime, RateLimiterAssumption
<1>2. handshake[e].sent <= n * R /\ handshake[e].sent \in Nat
  BY DEF UnderWay, Trying
<1> HIDE DEF n, k, R
<1>3. n * R + R <= k * R /\ n * R \in Nat /\ k * R \in Nat
  BY <1>1, Products
<1>4. handshake[e].sent + R <= k * R
  BY <1>1, <1>2, <1>3
<1>5. Over(e)'
  BY <1>4 DEF Over, k, R
<1> QED
  BY <1>5 DEF Trying

\* A round goes on with its next message.
LEMMA RoundGoesOn ==
    ASSUME NEW e \in Devices, Trying(e), UnderWay(e), SameTimes,
           UNCHANGED <<clock, started, lost>>,
           handshake'[e] = handshake[e],
           \A d \in Devices : cookies'[d].write_cookie = cookies[d].write_cookie,
           handshake[e].state <= macs', accepted'[Peer(e)] <= macs',
           NEW d \in Devices, NEW m \in Message,
           net'[d] = <<m>>, net'[Peer(d)] = <<>>, OfRound(e, d, m)'
    PROVE  Trying(e)'
<1>1. \A x \in Devices : Holds(x)' /\ Paid(x)' = Paid(x)
  BY HoldsKept DEF Trying
<1>2. Rounds(e)' = Rounds(e)
  BY <1>1, TwoDevices DEF Rounds
<1>3. /\ clock' = handshake'[e].sent
      /\ handshake'[e].sent <= Rounds(e)' * REKEY_TIMEOUT
  BY <1>2 DEF UnderWay
<1>4. \E x \in Devices : /\ net'[Peer(x)] = <<>>
                         /\ \E y \in Message : net'[x] = <<y>> /\ OfRound(e, x, y)'
  OBVIOUS
<1>5. UnderWay(e)'
  BY <1>3, <1>4 DEF UnderWay
<1> QED
  BY <1>1, <1>5 DEF Trying

\* A limiter answers the initiation or the response of the round with a cookie that
\* its sender does not hold.
LEMMA RoundReply ==
    ASSUME IInv, IInv', NEW e \in Devices, Trying(e),
           NEW d \in Devices, NEW i \in 1..Len(net[d]), ReplyCookie(d, i)
    PROVE  Trying(e)'
<1> DEFINE m == net[d][i]
           f == Peer(d)
           r == [type |-> "cookie", mac1 |-> m.mac1, cookie |-> <<d, Period(d), f>>]
<1>0. f \in Devices /\ f # d /\ Peer(f) = d
  BY TwoDevices
<1>1. /\ UnderWay(e) /\ net[f] = <<>> /\ RemoveAt(net[d], i) = <<>>
      /\ OfRound(e, d, m)
  BY RoundMessage
<1>2. /\ m.type # "cookie" /\ m.mac2 # <<d, Period(d), f>>
      /\ net' = [net EXCEPT ![d] = RemoveAt(net[d], i), ![f] = Append(net[f], r)]
      /\ UNCHANGED <<clock, cookies, handshake, accepted, session, macs, lost, started>>
  BY <1>0 DEF ReplyCookie, Proven, CookieReply, CurrentCookie, Period
<1>3. SameTimes
  BY CountedTimes DEF ReplyCookie
<1>4. m.mac1 = cookies[f].last_mac1 /\ m.mac2 = cookies[f].write_cookie
  BY <1>0, <1>1, <1>2, TwoDevices DEF OfRound, InitOf, ResponseTo, CookieFor
<1>5. r.type = "cookie" /\ r.mac1 = m.mac1 /\ r.cookie = <<d, Period(d), f>>
  OBVIOUS
<1> HIDE DEF r
<1>6. net'[d] = <<>> /\ net'[f] = <<r>>
  <2>1. net \in [Devices -> Seq(Message)]
    BY DEF IInv, TypeOK
  <2> QED
    BY <1>0, <1>1, <1>2, <2>1
<1>7. PICK c \in Message : c = r
  <2>1. net'[f] \in Seq(Message)
    BY <1>0 DEF IInv, TypeOK
  <2> QED
    BY <1>6, <2>1
<1>8. OfRound(e, f, c)'
  <2>1. /\ c.type = "cookie" /\ c.mac1 = cookies'[f].last_mac1
        /\ c.cookie = <<d, Period(d)', f>> /\ cookies'[f].write_cookie # c.cookie
    BY <1>2, <1>3, <1>4, <1>5, <1>7, PeriodKept
  <2> QED
    BY <1>0, <2>1 DEF OfRound, CookieFor
<1> HIDE DEF m, f
<1>9. /\ handshake[e].state <= macs' /\ accepted'[Peer(e)] <= macs'
      /\ handshake'[e] = handshake[e]
      /\ \A x \in Devices : cookies'[x].write_cookie = cookies[x].write_cookie
  BY <1>2 DEF Trying
<1> QED
  BY <1>0, <1>1, <1>2, <1>3, <1>6, <1>7, <1>8, <1>9, RoundGoesOn

\* The initiation is let in and answered.
LEMMA RoundInit ==
    ASSUME IInv, IInv', NEW e \in Devices, Trying(e),
           NEW d \in Devices, NEW i \in 1..Len(net[d]), ReceiveInit(d, i)
    PROVE  Trying(e)'
<1> DEFINE m == net[d][i]
           r == ResponseMsg(d, m)
<1>1. /\ UnderWay(e) /\ net[Peer(d)] = <<>> /\ RemoveAt(net[d], i) = <<>>
      /\ OfRound(e, d, m)
  BY RoundMessage
<1>2. m.type = "init"
  BY DEF ReceiveInit
<1>3. d = Peer(e) /\ InitOf(e, m)
  BY <1>1, <1>2 DEF OfRound, ResponseTo, CookieFor
<1>4. Peer(d) = e /\ d # e
  BY <1>3, TwoDevices
<1>5. /\ macs' = macs + 1
      /\ accepted' = [accepted EXCEPT ![d] = m.mac1]
      /\ handshake' = [handshake EXCEPT
                ![d] = [state |-> 0, previous |-> handshake[d].state, sent |-> Never]]
      /\ cookies' = [cookies EXCEPT ![d] = MacsAppended(d, cookies[d])]
      /\ net' = [net EXCEPT ![d] = RemoveAt(net[d], i), ![e] = Append(net[e], r)]
      /\ Counted(d)
      /\ UNCHANGED <<clock, lost, started>>
  BY <1>3, <1>4 DEF ReceiveInit, InitOf, LetIn
<1>6. SameTimes
  BY <1>5, CountedTimes
<1>7. /\ net \in [Devices -> Seq(Message)] /\ accepted \in [Devices -> Nat]
      /\ handshake \in [Devices -> Handshake] /\ cookies \in [Devices -> Cookies]
      /\ cookies[d] \in Cookies
      /\ macs \in Nat /\ handshake[e].state \in Nat
  <2>1. macs \in Nat
    BY RateLimiterAssumption DEF IInv, TypeOK
  <2> QED
    BY <2>1, CookiesType DEF IInv, TypeOK
<1>8. net'[d] = <<>> /\ net'[e] = <<r>>
  BY <1>1, <1>4, <1>5, <1>7
<1>9. PICK c \in Message : c = r
  <2>1. net'[e] \in Seq(Message)
    BY DEF IInv, TypeOK
  <2> QED
    BY <1>8, <2>1
<1>10. /\ handshake'[e] = handshake[e] /\ accepted'[Peer(e)] = m.mac1
       /\ cookies'[d] = [cookies[d] EXCEPT !.last_mac1 = macs + 1]
       /\ cookies'[e] = cookies[e]
  BY <1>3, <1>4, <1>5, <1>7 DEF MacsAppended
<1>11. /\ cookies'[d].write_cookie = cookies[d].write_cookie
       /\ cookies'[d].last_mac1 = macs + 1
  BY <1>7, <1>10 DEF Cookies
<1>12. /\ r.type = "response" /\ r.answers = handshake[e].state
       /\ r.mac1 = macs + 1 /\ r.mac2 = cookies[d].write_cookie
  BY <1>3 DEF ResponseMsg, InitOf
<1> HIDE DEF r, m
<1>13. OfRound(e, e, c)'
  BY <1>3, <1>9, <1>10, <1>11, <1>12 DEF OfRound, ResponseTo
<1>14. handshake[e].state <= macs' /\ accepted'[Peer(e)] <= macs'
  <2>1. m.mac1 = handshake[e].state /\ handshake[e].state <= macs
    BY <1>3 DEF InitOf, Trying
  <2> QED
    BY <1>5, <1>7, <1>10, <2>1
<1>15. \A x \in Devices : cookies'[x].write_cookie = cookies[x].write_cookie
  BY <1>3, <1>10, <1>11, TwoDevices
<1> QED
  BY <1>1, <1>3, <1>5, <1>6, <1>8, <1>9, <1>10, <1>13, <1>14, <1>15, RoundGoesOn

\* The response is let in: it is the session.
LEMMA RoundResponse ==
    ASSUME IInv, NEW e \in Devices, Trying(e),
           NEW d \in Devices, NEW i \in 1..Len(net[d]), ReceiveResponse(d, i)
    PROVE  session'[e]
<1> DEFINE m == net[d][i]
<1>1. OfRound(e, d, m)
  BY RoundMessage
<1>2. m.type = "response"
  BY DEF ReceiveResponse
<1>3. d = e /\ m.answers = handshake[e].state
  BY <1>1, <1>2 DEF OfRound, InitOf, ResponseTo, CookieFor
<1>4. session' = [session EXCEPT ![e] = TRUE]
  BY <1>3 DEF ReceiveResponse
<1> QED
  BY <1>4 DEF IInv, TypeOK

\* The cookie opens; it is one that the end did not hold.
LEMMA RoundCookie ==
    ASSUME IInv, IInv', NEW e \in Devices, Trying(e), StartTimes, CookiesLast,
           NEW d \in Devices, NEW i \in 1..Len(net[d]), ReceiveCookie(d, i)
    PROVE  Trying(e)'
<1> DEFINE m == net[d][i]
           f == Peer(d)
           p == Period(f)
<1>0. f \in Devices /\ f # d /\ Peer(f) = d /\ (e = d \/ e = f)
  BY TwoDevices
<1>1. /\ UnderWay(e) /\ net[f] = <<>> /\ RemoveAt(net[d], i) = <<>>
      /\ OfRound(e, d, m)
  BY RoundMessage
<1>2. m.type = "cookie"
  BY DEF ReceiveCookie
<1>3. CookieFor(d, m)
  BY <1>1, <1>2 DEF OfRound, InitOf, ResponseTo
<1>4. /\ m.mac1 = cookies[d].last_mac1 /\ m.cookie = <<f, p, d>>
      /\ cookies[d].write_cookie # <<f, p, d>>
  BY <1>3 DEF CookieFor
<1>5. /\ net' = [net EXCEPT ![d] = RemoveAt(net[d], i)]
      /\ cookies' = [cookies EXCEPT ![d] =
                        [cookies[d] EXCEPT !.write_cookie = <<f, p, d>>, !.received = clock]]
      /\ UNCHANGED <<clock, limiter, handshake, accepted, session, macs, lost, started>>
  <2>1. cookies' = [cookies EXCEPT ![d].write_cookie = m.cookie, ![d].received = clock]
    BY <1>4 DEF ReceiveCookie
  <2>2. cookies[d] \in Cookies /\ cookies \in [Devices -> Cookies]
    BY DEF IInv, TypeOK
  <2>3. cookies' = [cookies EXCEPT ![d] =
                        [cookies[d] EXCEPT !.write_cookie = m.cookie, !.received = clock]]
    BY <2>1, <2>2
  <2> QED
    BY <1>4, <2>3 DEF ReceiveCookie
<1>6. SameTimes
  BY <1>5 DEF SameTimes
<1>7. p \in 0..1
  BY <1>0, InTime, PeriodIs
<1>8. Period(f)' = p
  BY <1>0, <1>5, <1>6, PeriodKept
<1> HIDE DEF p, m, f
<1>9. Silent'
  BY <1>0, <1>1, <1>5, TwoDevices DEF Silent, IInv, TypeOK, f
<1>10. cookies'[d].write_cookie = <<f, p, d>> /\ cookies'[f] = cookies[f]
  BY <1>0, <1>5 DEF IInv, TypeOK, Cookies
<1>11. Holds(d)' /\ Paid(d)' = p + 1
  BY <1>7, <1>8, <1>10 DEF Holds, Paid, f, NoCookie
<1>12. Holds(f)' /\ Paid(f)' = Paid(f)
  BY <1>0, <1>5, <1>6, <1>10, HoldsKept DEF Trying
<1>13. Paid(d) < p + 1 /\ Paid(d) \in 0..2 /\ Paid(f) \in 0..2
  <2>1. Holds(d) /\ Holds(f)
    BY <1>0 DEF Trying
  <2>2. Paid(d) < p + 1
    <3>1. CASE cookies[d].write_cookie = NoCookie
      BY <1>7, <3>1 DEF Paid
    <3>2. CASE cookies[d].write_cookie # NoCookie
      <4>1. PICK q \in 0..1 : q <= p /\ cookies[d].write_cookie = <<f, q, d>>
        BY <2>1, <3>2 DEF Holds, f, p
      <4>2. q # p
        BY <1>4, <4>1
      <4>3. Paid(d) = q + 1
        BY <3>2, <4>1 DEF Paid
      <4> QED
        BY <1>7, <4>1, <4>2, <4>3
    <3> QED
      BY <3>1, <3>2
  <2> QED
    BY <2>1, <2>2, PaidIs
<1>14. lost \in Nat /\ lost' = lost
  BY <1>5, RateLimiterAssumption DEF IInv, TypeOK
<1>15. Rounds(e)' \in Nat /\ Rounds(e) < Rounds(e)'
  <2>1. Rounds(e) = Paid(d) + Paid(f) + lost /\ Rounds(e)' = Paid(d)' + Paid(f)' + lost'
    <3>1. CASE e = d
      BY <3>1 DEF Rounds, f
    <3>2. CASE e = f
      BY <1>0, <1>12, <1>13, <1>11, <1>7, <3>2 DEF Rounds
    <3> QED
      BY <1>0, <3>1, <3>2
  <2> QED
    BY <1>7, <1>11, <1>12, <1>13, <1>14, <2>1
<1>16. \A x \in Devices : Holds(x)'
  BY <1>11, <1>12, TwoDevices DEF f
<1> QED
  BY <1>1, <1>5, <1>9, <1>15, <1>16, RoundEnds

\* The message is lost.
LEMMA RoundLost ==
    ASSUME IInv, NEW e \in Devices, Trying(e), CookiesLast,
           NEW d \in Devices, NEW i \in 1..Len(net[d]), Lose(d, i)
    PROVE  Trying(e)'
<1>1. /\ UnderWay(e) /\ net[Peer(d)] = <<>> /\ RemoveAt(net[d], i) = <<>>
  BY RoundMessage
<1>2. /\ lost' = lost + 1
      /\ net' = [net EXCEPT ![d] = RemoveAt(net[d], i)]
      /\ UNCHANGED <<clock, limiter, cookies, handshake, accepted, macs, started>>
  BY DEF Lose
<1>3. SameTimes
  BY <1>2 DEF SameTimes
<1>4. \A x \in Devices : Holds(x)' /\ Paid(x)' = Paid(x)
  BY <1>2, <1>3, HoldsKept DEF Trying
<1>5. Silent'
  BY <1>1, <1>2, TwoDevices DEF Silent, IInv, TypeOK
<1>6. lost \in Nat
  BY RateLimiterAssumption DEF IInv, TypeOK
<1>7. Rounds(e)' \in Nat /\ Rounds(e) < Rounds(e)'
  <2>1. Paid(e) \in 0..2 /\ Paid(Peer(e)) \in 0..2
    BY PaidIs, TwoDevices DEF Trying
  <2>2. Rounds(e)' = Paid(e) + Paid(Peer(e)) + lost + 1
    BY <1>2, <1>4, <1>6, <2>1, TwoDevices DEF Rounds
  <2> QED
    BY <1>6, <2>1, <2>2 DEF Rounds
<1> QED
  BY <1>1, <1>2, <1>4, <1>5, <1>7, RoundEnds

\* A limiter's period when the clock has ticked.
LEMMA PeriodNext ==
    ASSUME clock' = clock + 1, limiter' = limiter, NEW d
    PROVE  Period(d)' = ((clock + 1) - limiter[d].start_time) \div COOKIE_REFRESH
BY DEF Period

\* Time passes until the next round, and no longer.
LEMMA RoundWaits ==
    ASSUME IInv, NEW e \in Devices, Trying(e), ~session[e], StartTimes, CookiesLast, Pass
    PROVE  Trying(e)'
<1>1. /\ Silent /\ clock' = clock + 1 /\ ~RetryDue(e)
      /\ UNCHANGED <<limiter, cookies, handshake, accepted, net, macs, lost, started>>
  BY DEF Pass, Silent
<1>2. /\ REKEY_TIMEOUT \in Nat \ {0} /\ clock \in Nat /\ COOKIE_REFRESH \in Nat \ {0}
      /\ handshake[e].sent \in Nat
  BY RateLimiterAssumption, LimiterType DEF IInv, Trying
<1>3. clock + 1 <= handshake[e].sent + REKEY_TIMEOUT
  <2>1. handshake[e].sent # Never
    BY <1>2 DEF Never
  <2>2. ~(clock - handshake[e].sent >= REKEY_TIMEOUT)
    BY <1>1, <2>1 DEF RetryDue
  <2> QED
    BY <1>2, <2>2
<1>4. Over(e)
  <2>1. ASSUME UnderWay(e) PROVE FALSE
    <3>1. PICK d \in Devices, m \in Message : net[d] = <<m>>
      BY <2>1 DEF UnderWay
    <3>2. net[d] = <<>>
      BY <1>1 DEF Silent
    <3>3. <<m>> # <<>>
      OBVIOUS
    <3> QED
      BY <3>1, <3>2, <3>3
  <2> QED
    BY <2>1 DEF Trying
<1>5. clock <= COOKIE_REFRESH /\ clock + 1 <= COOKIE_REFRESH
  BY <1>2, <1>3, <1>4, InTime
<1>6. \A d \in Devices : Period(d) <= Period(d)' /\ Period(d) \in 0..1
  <2> SUFFICES ASSUME NEW d \in Devices
               PROVE  Period(d) <= Period(d)' /\ Period(d) \in 0..1
    OBVIOUS
  <2>1. Period(d) = IF clock - limiter[d].start_time < COOKIE_REFRESH THEN 0 ELSE 1
    BY <1>5, PeriodIs
  <2> DEFINE t == limiter[d].start_time
             n == (clock + 1) - t
  <2>2. t \in (1 - COOKIE_REFRESH)..0
    BY DEF StartTimes
  <2>4. Period(d)' = n \div COOKIE_REFRESH
    <3>1. clock' = clock + 1 /\ limiter' = limiter
      BY <1>1
    <3> QED
      BY <3>1, PeriodNext
  <2> HIDE DEF t
  <2>3. n \in 0..(2 * COOKIE_REFRESH - 1)
    BY <1>2, <1>5, <2>2
  <2> HIDE DEF n
  <2>5. n \div COOKIE_REFRESH = IF n < COOKIE_REFRESH THEN 0 ELSE 1
    BY <1>2, <2>3, FirstPeriods
  <2> QED
    BY <1>2, <2>1, <2>2, <2>4, <2>5 DEF n, t
<1>7. \A d \in Devices : Holds(d)' /\ Paid(d)' = Paid(d)
  <2> SUFFICES ASSUME NEW d \in Devices PROVE Holds(d)' /\ Paid(d)' = Paid(d)
    OBVIOUS
  <2>1. Paid(d)' = Paid(d)
    BY <1>1 DEF Paid
  <2>2. CASE cookies[d].write_cookie = NoCookie
    BY <1>1, <2>1, <2>2 DEF Holds
  <2>3. CASE cookies[d].write_cookie # NoCookie
    <3>1. PICK p \in 0..1 : /\ p <= Period(Peer(d))
                            /\ cookies[d].write_cookie = <<Peer(d), p, d>>
      BY <2>3 DEF Trying, Holds
    <3>2. Peer(d) \in Devices
      BY TwoDevices
    <3>3. p <= Period(Peer(d))'
      <4>1. Period(Peer(d)) \in 0..1 /\ Period(Peer(d)) <= Period(Peer(d))'
        BY <1>6, <3>2
      <4>2. Period(Peer(d))' \in Int
        BY <1>1, <1>2, <3>2, LimiterType DEF Period, IInv
      <4> QED
        BY <3>1, <4>1, <4>2
    <3> QED
      BY <1>1, <2>1, <3>1, <3>3 DEF Holds
  <2> QED
    BY <2>2, <2>3
<1>8. Over(e)'
  <2>1. Rounds(e)' = Rounds(e)
    BY <1>1, <1>7, TwoDevices DEF Rounds
  <2> QED
    BY <1>1, <1>4, <2>1 DEF Over, Silent
<1> QED
  BY <1>1, <1>2, <1>3, <1>7, <1>8 DEF Trying

\* A round begins when the one before has been accounted for.
LEMMA RoundBegins ==
    ASSUME IInv, IInv', NEW e \in Devices, StartTimes, SendInit(e), Silent,
           \A d \in Devices : Holds(d),
           started[e] = 0 \/ (started[e] = Never /\ clock = 0),
           accepted[Peer(e)] <= macs,
           clock <= Rounds(e) * REKEY_TIMEOUT, clock < COOKIE_EXPIRATION_TIME
    PROVE  Trying(e)'
<1> DEFINE f == Peer(e)
           m == [type |-> "init", mac1 |-> macs + 1, mac2 |-> cookies[e].write_cookie]
           h == [state |-> macs + 1, previous |-> handshake[e].state, sent |-> clock]
<1>0. f \in Devices /\ f # e /\ Peer(f) = e
  BY TwoDevices
<1>1. /\ clock \in Nat /\ macs \in Nat /\ COOKIE_EXPIRATION_TIME \in Nat
      /\ cookies[e].received \in Nat /\ REKEY_TIMEOUT \in Nat
      /\ accepted[f] \in Nat
  <2>1. clock \in Nat /\ macs \in Nat
    BY RateLimiterAssumption DEF IInv, TypeOK
  <2> QED
    BY <1>0, <2>1, RateLimiterAssumption, CookiesType DEF IInv, TypeOK
<1>2. Unexpired(cookies[e]) = cookies[e]
  BY <1>1 DEF Unexpired
<1>3. /\ handshake' = [handshake EXCEPT ![e] = h]
      /\ cookies' = [cookies EXCEPT ![e] = [cookies[e] EXCEPT !.last_mac1 = macs + 1]]
      /\ net' = [net EXCEPT ![f] = Append(net[f], m)]
      /\ started' = [started EXCEPT ![e] = IF started[e] = Never THEN clock ELSE started[e]]
      /\ macs' = macs + 1
      /\ UNCHANGED <<clock, limiter, accepted, session, lost>>
  BY <1>2 DEF SendInit, MacsAppended
<1>4. /\ m.type = "init" /\ m.mac1 = macs + 1 /\ m.mac2 = cookies[e].write_cookie
      /\ h.state = macs + 1 /\ h.sent = clock
  OBVIOUS
<1> HIDE DEF m, h
<1>5. /\ net'[f] = <<m>> /\ net'[e] = <<>>
      /\ handshake'[e] = h /\ started'[e] = 0
      /\ cookies'[f] = cookies[f]
      /\ cookies'[e] = [cookies[e] EXCEPT !.last_mac1 = macs + 1]
  <2>1. /\ net \in [Devices -> Seq(Message)] /\ handshake \in [Devices -> Handshake]
        /\ cookies \in [Devices -> Cookies]
    BY DEF IInv, TypeOK
  <2>2. started \in [Devices -> Nat \cup {Never}]
    BY DEF IInv, TypeOK
  <2>3. started'[e] = 0
    BY <1>3, <2>2 DEF Never
  <2>4. net'[f] = <<m>> /\ net'[e] = <<>>
    <3>1. net[f] = <<>> /\ net[e] = <<>>
      BY <1>0 DEF Silent
    <3>2. Append(<<>>, m) = <<m>>
      OBVIOUS
    <3> QED
      BY <1>0, <1>3, <2>1, <3>1, <3>2
  <2> QED
    BY <1>0, <1>3, <2>1, <2>3, <2>4
<1>6. cookies'[e].write_cookie = cookies[e].write_cookie /\ cookies'[e].last_mac1 = macs + 1
  <2>1. cookies[e] \in Cookies
    BY DEF IInv, TypeOK
  <2> QED
    BY <1>5, <2>1 DEF Cookies
<1>7. PICK c \in Message : c = m
  <2>1. net'[f] \in Seq(Message)
    BY <1>0 DEF IInv, TypeOK
  <2> QED
    BY <1>5, <2>1
<1>8. SameTimes
  BY <1>3 DEF SameTimes
<1>9. \A x \in Devices : Holds(x)' /\ Paid(x)' = Paid(x)
  <2>1. \A x \in Devices : cookies'[x].write_cookie = cookies[x].write_cookie
    BY <1>5, <1>6, TwoDevices
  <2> QED
    BY <1>3, <1>8, <2>1, HoldsKept
<1>10. OfRound(e, f, c)'
  <2>1. macs + 1 > accepted[f]
    BY <1>1
  <2> QED
    BY <1>3, <1>4, <1>5, <1>6, <1>7, <2>1 DEF OfRound, InitOf
<1>11. UnderWay(e)'
  <2>1. Rounds(e)' = Rounds(e)
    BY <1>0, <1>3, <1>9 DEF Rounds
  <2>2. net'[Peer(f)] = <<>> /\ net'[f] = <<c>>
    BY <1>0, <1>5, <1>7
  <2> HIDE DEF f
  <2> QED
    BY <1>0, <1>3, <1>4, <1>5, <1>10, <2>1, <2>2 DEF UnderWay
<1>12. /\ handshake'[e].sent = clock /\ handshake'[e].state = macs + 1
       /\ clock' = clock /\ macs' = macs + 1 /\ accepted'[Peer(e)] <= macs + 1
  BY <1>1, <1>3, <1>4, <1>5
<1> QED
  BY <1>1, <1>5, <1>9, <1>11, <1>12 DEF Trying

\* What the limiters count makes no difference to a round.
LEMMA RoundUntouched ==
    ASSUME NEW e \in Devices, Trying(e), SameTimes,
           UNCHANGED <<clock, cookies, handshake, accepted, net, macs, lost, started>>
    PROVE  Trying(e)'
<1>1. \A x \in Devices : Holds(x)' /\ Paid(x)' = Paid(x)
  BY HoldsKept DEF Trying
<1>2. Rounds(e)' = Rounds(e)
  BY <1>1, TwoDevices DEF Rounds
<1>3. CASE Over(e)
  <2>1. Over(e)'
    BY <1>2, <1>3 DEF Over, Silent
  <2> QED
    BY <1>1, <2>1 DEF Trying
<1>4. CASE UnderWay(e)
  <2>1. PICK d \in Devices, m \in Message :
            net[Peer(d)] = <<>> /\ net[d] = <<m>> /\ OfRound(e, d, m)
    BY <1>4 DEF UnderWay
  <2>2. OfRound(e, d, m)'
    BY <2>1, PeriodKept, TwoDevices DEF OfRound, InitOf, ResponseTo, CookieFor
  <2> QED
    BY <1>4, <2>1, <2>2, RoundGoesOn DEF Trying
<1> QED
  BY <1>3, <1>4 DEF Trying

\* The rounds of an attempt are accounted for in every step.
LEMMA RetryStep ==
    ASSUME NEW e \in Devices, OneBegins(e), CookiesLast,
           IInv, IInv', RetryInv(e), [Next]_vars
    PROVE  RetryInv(e)'
<1>0. Peer(e) \in Devices /\ Peer(e) # e /\ Initiators = {e}
  BY TwoDevices DEF OneBegins
<1>1. CASE UNCHANGED vars \/ \E d \in Devices : ResetCount(d) \/ Load(d)
  <2>1. UNCHANGED <<clock, cookies, handshake, accepted, net, macs, lost, started, session>>
    BY <1>1 DEF vars, ResetCount, Load
  <2>2. SameTimes
    <3>1. CASE UNCHANGED vars
      BY <3>1 DEF vars, SameTimes
    <3>2. CASE \E d \in Devices : ResetCount(d) \/ Load(d)
      BY <3>2, ResetTimes, CountedTimes DEF Load
    <3> QED
      BY <1>1, <3>1, <3>2
  <2>3. StartTimes'
    BY <2>2 DEF RetryInv, StartTimes, SameTimes
  <2>4. started[e] = Never => Untried(e)'
    BY <2>1 DEF RetryInv, Untried, Silent
  <2> QED
    BY <2>1, <2>2, <2>3, <2>4, RoundUntouched DEF RetryInv
<1>2. CASE Pass
  <2>1. started[e] # Never /\ UNCHANGED <<limiter, started, session>>
    BY <1>0, <1>2 DEF Pass
  <2>2. StartTimes'
    BY <2>1 DEF RetryInv, StartTimes
  <2>3. ~session[e] => Trying(e)'
    BY <1>2, <2>1, RoundWaits DEF RetryInv
  <2> QED
    BY <2>1, <2>2, <2>3 DEF RetryInv
<1>3. ASSUME NEW d \in Devices, SendInit(d) PROVE RetryInv(e)'
  <2>1. d = e /\ ~session[e] /\ limiter' = limiter
    BY <1>0, <1>3 DEF SendInit
  <2>2. StartTimes'
    BY <2>1 DEF RetryInv, StartTimes
  <2>3. started'[Peer(e)] = Never /\ started'[e] # Never
    <3>1. started' = [started EXCEPT ![e] = IF started[e] = Never THEN clock ELSE started[e]]
      BY <1>3, <2>1 DEF SendInit
    <3>2. clock \in Nat /\ started \in [Devices -> Nat \cup {Never}]
      BY LimiterType DEF IInv, TypeOK
    <3> QED
      BY <1>0, <3>1, <3>2 DEF RetryInv, Never
  <2>4. CASE started[e] = Never
    <3>1. Untried(e)
      BY <2>4 DEF RetryInv
    <3>2. Rounds(e) \in Nat /\ \A x \in Devices : Holds(x)
      <4>1. lost \in Nat
        BY RateLimiterAssumption DEF IInv, TypeOK
      <4>2. Paid(e) = 0 /\ Paid(Peer(e)) = 0
        BY <1>0, <3>1 DEF Untried, Paid
      <4> QED
        BY <3>1, <4>1, <4>2 DEF Rounds, Untried, Holds
    <3>3. clock = 0 /\ clock <= Rounds(e) * REKEY_TIMEOUT /\ clock < COOKIE_EXPIRATION_TIME
      BY <3>1, <3>2, Products, RateLimiterAssumption DEF Untried
    <3>4. Trying(e)'
      BY <1>3, <2>1, <2>4, <3>1, <3>2, <3>3, RoundBegins DEF Untried, RetryInv
    <3> QED
      BY <2>2, <2>3, <3>4 DEF RetryInv
  <2>5. CASE started[e] # Never
    <3>1. Trying(e)
      BY <2>1, <2>5 DEF RetryInv
    <3>2. clock <= Rounds(e) * REKEY_TIMEOUT /\ clock < COOKIE_EXPIRATION_TIME
      BY <3>1, InTime
    <3>3. Silent
      <4>1. /\ handshake[e].sent \in Nat /\ clock \in Nat
            /\ REKEY_TIMEOUT \in Nat \ {0}
        BY <3>1, RateLimiterAssumption, LimiterType DEF IInv, Trying
      <4>2. clock - handshake[e].sent >= REKEY_TIMEOUT
        BY <1>3, <2>1, <4>1 DEF SendInit, Never
      <4>3. clock # handshake[e].sent
        BY <4>1, <4>2
      <4> QED
        BY <3>1, <4>3 DEF Trying, UnderWay, Over
    <3>4. Trying(e)'
      BY <1>3, <2>1, <3>1, <3>2, <3>3, RoundBegins DEF Trying, RetryInv
    <3> QED
      BY <2>2, <2>3, <3>4 DEF RetryInv
  <2> QED
    BY <2>4, <2>5
<1>4. ASSUME NEW d \in Devices, NEW i \in 1..Len(net[d]), Receive(d, i) \/ Lose(d, i)
      PROVE  RetryInv(e)'
  <2>1. started' = started
    BY <1>4 DEF Receive, Lose, ReplyCookie, ReceiveInit, ReceiveResponse, ReceiveCookie
  <2>2. SameTimes
    <3>1. limiter' = limiter \/ Counted(d)
      BY <1>4
      DEF Receive, Lose, ReplyCookie, ReceiveInit, ReceiveResponse, ReceiveCookie, LetIn
    <3> QED
      BY <3>1, CountedTimes DEF SameTimes
  <2>3. StartTimes'
    BY <2>2 DEF RetryInv, StartTimes, SameTimes
  <2>4. started[e] # Never
    BY DEF RetryInv, Untried, Silent
  <2>5. session[e] => session'[e]
    <3>1. session' \in {session, [session EXCEPT ![d] = TRUE]}
      BY <1>4 DEF Receive, Lose, ReplyCookie, ReceiveInit, ReceiveResponse, ReceiveCookie
    <3>2. session \in [Devices -> BOOLEAN]
      BY DEF IInv, TypeOK
    <3> QED
      BY <3>1, <3>2
  <2>6. ASSUME ~session'[e] PROVE Trying(e)'
    <3>1. Trying(e)
      BY <2>4, <2>5, <2>6 DEF RetryInv
    <3>2. StartTimes
      BY DEF RetryInv
    <3> QED
      BY <1>4, <2>6, <3>1, <3>2, RoundReply, RoundInit, RoundResponse, RoundCookie, RoundLost
      DEF Receive
  <2> QED
    BY <2>1, <2>3, <2>4, <2>6 DEF RetryInv
<1> QED
  BY <1>1, <1>2, <1>3, <1>4 DEF Next

\* Load does not keep the end that begins from its session (CompletesInTime): it
\* pays REKEY_TIMEOUT for the cookies of two periods of each device and for each
\* message lost, and nothing else, as long as its attempt is shorter than the life
\* of a cookie.
THEOREM RetriesSuffice ==
    ASSUME NEW e \in Devices, OneBegins(e), CookiesLast
    PROVE  Spec => []CompletesInTime
<1>1. Init => RetryInv(e)
  <2> SUFFICES ASSUME Init PROVE RetryInv(e)
    OBVIOUS
  <2>1. Peer(e) \in Devices
    BY TwoDevices
  <2>2. StartTimes
    <3>1. COOKIE_REFRESH \in Nat
      BY RateLimiterAssumption
    <3> QED
      BY <3>1 DEF Init, StartTimes
  <2>3. Untried(e) /\ started[e] = Never /\ started[Peer(e)] = Never
    BY <2>1 DEF Init, Untried, Silent
  <2> QED
    BY <2>2, <2>3 DEF RetryInv
<1>2. IInv /\ IInv' /\ RetryInv(e) /\ [Next]_vars => RetryInv(e)'
  BY RetryStep
<1>3. IInv /\ RetryInv(e) => CompletesInTime
  <2> SUFFICES ASSUME IInv, RetryInv(e), NEW d \in Devices, started[d] # Never, ~session[d]
               PROVE  clock - started[d] <= (4 + lost) * REKEY_TIMEOUT
    BY DEF CompletesInTime
  <2>1. d = e
    BY TwoDevices DEF RetryInv
  <2>2. Trying(e)
    BY <2>1 DEF RetryInv
  <2>3. clock <= (4 + lost) * REKEY_TIMEOUT
    BY <2>2, InTime
  <2>4. started[e] = 0 /\ clock \in Nat
    BY <2>2, LimiterType DEF Trying, IInv
  <2> QED
    BY <2>1, <2>3, <2>4
<1> QED
  BY <1>1, <1>2, <1>3, Invariance, PTL DEF Spec
=============================================================================
