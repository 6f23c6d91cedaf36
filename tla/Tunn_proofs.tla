----------------------------- MODULE Tunn_proofs -----------------------------
(***************************************************************************)
(* Proofs about Tunn, for every size of the ring, the queue and the        *)
(* network, every set of packets and every number of ephemerals.  What the *)
(* operations of one Tunn return is in TunnState_proofs; here are the two  *)
(* of them and the network.                                                *)
(***************************************************************************)
EXTENDS Tunn, TunnState_proofs

-----------------------------------------------------------------------------
(* The network.                                                            *)

\* A drawn ephemeral, or 0 for none.
LEMMA DrawnType ==
    /\ Drawn(Fresh) \subseteq Ephemerals \cup {0}
    /\ \A k : Drawn(Fresh \ {k}) \subseteq Ephemerals \cup {0}
BY DEF Drawn, Fresh

\* Marking initiations as outdated keeps them messages.
LEMMA OutdatedType ==
    ASSUME NEW q \in Seq(Message), NEW i
    PROVE  /\ Outdated(q, i) \in Seq(Message)
           /\ Len(Outdated(q, i)) = Len(q)
           /\ DOMAIN Outdated(q, i) = DOMAIN q
<1>1. DOMAIN q = 1..Len(q) /\ Len(q) \in Nat
  BY LenProperties
<1>2. \A j \in DOMAIN q : q[j] \in Message
  BY <1>1, ElementOfSeq
<1>3. \A m \in Message : m.type = "init" => [m EXCEPT !.stale = TRUE] \in Message
  BY DEF Message
<1> DEFINE o == [j \in 1..Len(q) |->
                    IF j <= i /\ q[j].type = "init"
                    THEN [q[j] EXCEPT !.stale = TRUE] ELSE q[j]]
<1>4. Outdated(q, i) = o
  BY <1>1 DEF Outdated
<1>5. \A j \in 1..Len(q) : o[j] \in Message
  BY <1>1, <1>2, <1>3
<1>6. DOMAIN o = 1..Len(q)
  OBVIOUS
<1> HIDE DEF o
<1>7. o \in Seq(Message) /\ Len(o) = Len(q)
  BY <1>1, <1>5, <1>6 DEF o
<1> QED
  BY <1>1, <1>4, <1>6, <1>7

\* What is sent joins what is under way, up to the bound.
LEMMA PostType ==
    ASSUME NEW q \in Seq(Message), NEW out \in Seq(Message)
    PROVE  Post(q, out) \in Seq(Message) /\ Len(Post(q, out)) <= MaxInFlight
<1> DEFINE all == q \o out
<1>1. all \in Seq(Message)
  BY ConcatProperties
<1>2. Post(q, out) = IF Len(all) <= MaxInFlight THEN all
                     ELSE SubSeq(all, 1, MaxInFlight)
  BY DEF Post
<1> HIDE DEF all
<1>3. CASE Len(all) <= MaxInFlight
  BY <1>1, <1>2, <1>3
<1>4. CASE ~(Len(all) <= MaxInFlight)
  <2>1. Len(all) \in Nat /\ MaxInFlight \in Nat
    BY <1>1, NetworkAssumption, LenProperties
  <2>2. \A j \in 1..MaxInFlight : all[j] \in Message
    BY <1>1, <1>4, <2>1, ElementOfSeq
  <2>3. /\ SubSeq(all, 1, MaxInFlight) \in Seq(Message)
        /\ Len(SubSeq(all, 1, MaxInFlight))
             = IF 1 <= MaxInFlight THEN MaxInFlight - 1 + 1 ELSE 0
    BY <2>1, <2>2, SubSeqProperties
  <2> QED
    BY <1>2, <1>4, <2>1, <2>3
<1> QED
  BY <1>3, <1>4

-----------------------------------------------------------------------------
(* The invariant.  QueueHasHandshake is inductive only together with        *)
(* ExpiredIsClean: a response finds a handshake that survived expiry        *)
(* otherwise, and the types say what the flush loop is called with.         *)

Inv == TypeOK /\ ExpiredIsClean /\ QueueHasHandshake

\* The invariant says of each tunnel that it is good.
LEMMA InvIsGood ==
    Inv <=> TypeOK /\ \A e \in Endpoints : Good(tunn[e])
BY DEF Inv, TypeOK, ExpiredIsClean, QueueHasHandshake, Good, Clean, Waiting

LEMMA InitInv == Init => Inv
<1> SUFFICES ASSUME Init PROVE Inv
  OBVIOUS
<1> USE DEF Init
<1>1. NewTunn \in TunnType /\ Good(NewTunn)
  BY NewTunnGood DEF Good
<1>3. <<>> \in Seq(Message) /\ Len(<<>>) <= MaxInFlight
  BY EmptySeq, NetworkAssumption
<1>4. TypeOK
  <2>1. net \in [Endpoints -> Seq(Message)] /\ \A e \in Endpoints : Len(net[e]) <= MaxInFlight
    BY <1>3
  <2>2. tunn \in [Endpoints -> TunnType]
    BY <1>1
  <2>3. /\ submitted \in [Endpoints -> SUBSET Packets]
        /\ sealed \in [Endpoints -> [Packets -> Nat]]
        /\ gave_up \in [Endpoints -> SUBSET Packets]
        /\ delivered \in [Endpoints -> [Packets -> Nat]]
        /\ used \subseteq Ephemerals
        /\ derived \in [Endpoints -> SUBSET Key]
    OBVIOUS
  <2> QED
    BY <2>1, <2>2, <2>3 DEF TypeOK
<1> QED
  BY <1>1, <1>4, InvIsGood

\* What Becomes writes keeps its part of the invariant.
LEMMA BecomesGood ==
    ASSUME Inv, NEW e \in Endpoints, NEW r, GoodResult(r),
           NEW mine \in Seq(Message), Len(mine) <= MaxInFlight,
           Becomes(e, r, mine)
    PROVE  /\ tunn' \in [Endpoints -> TunnType]
           /\ net' \in [Endpoints -> Seq(Message)]
           /\ \A f \in Endpoints : Len(net'[f]) <= MaxInFlight
           /\ sealed' \in [Endpoints -> [Packets -> Nat]]
           /\ used' \subseteq Ephemerals
           /\ \A f \in Endpoints : Good(tunn'[f])
<1>1. TypeOK /\ \A f \in Endpoints : Good(tunn[f])
  BY InvIsGood
<1>2. /\ r.tunn \in TunnType /\ Good(r.tunn) /\ r.out \in Seq(Message)
  BY DEF GoodResult, Good, Sendable
<1>3. /\ tunn' \in [Endpoints -> TunnType]
      /\ \A f \in Endpoints : Good(tunn'[f])
  <2>1. tunn' = [tunn EXCEPT ![e] = r.tunn] /\ tunn \in [Endpoints -> TunnType]
    BY <1>1 DEF Becomes, TypeOK
  <2>2. \A f \in Endpoints : tunn'[f] = IF f = e THEN r.tunn ELSE tunn[f]
    BY <2>1
  <2> QED
    BY <1>1, <1>2, <2>1, <2>2
<1>4. /\ net' \in [Endpoints -> Seq(Message)]
      /\ \A f \in Endpoints : Len(net'[f]) <= MaxInFlight
  <2> DEFINE post == Post(net[Peer(e)], r.out)
  <2>1. Peer(e) \in Endpoints /\ Peer(e) # e
    BY PeerType
  <2>2. net \in [Endpoints -> Seq(Message)] /\ \A f \in Endpoints : Len(net[f]) <= MaxInFlight
    BY <1>1 DEF TypeOK
  <2>3. post \in Seq(Message) /\ Len(post) <= MaxInFlight
    BY <1>2, <2>1, <2>2, PostType
  <2>4. net' = [[net EXCEPT ![e] = mine] EXCEPT ![Peer(e)] = post]
    BY <2>1, <2>2 DEF Becomes
  <2> HIDE DEF post
  <2>5. \A f \in Endpoints : net'[f] = IF f = e THEN mine
                                       ELSE IF f = Peer(e) THEN post ELSE net[f]
    BY <2>1, <2>2, <2>4
  <2>6. net' \in [Endpoints -> Seq(Message)]
    BY <2>2, <2>3, <2>4
  <2> QED
    BY <2>2, <2>3, <2>5, <2>6
<1>5. sealed' \in [Endpoints -> [Packets -> Nat]]
  <2>1. sealed \in [Endpoints -> [Packets -> Nat]]
    BY <1>1 DEF TypeOK
  <2>2. \A p \in Packets : sealed[e][p] + TimesSealed(r.out, p) \in Nat
    BY <1>2, <2>1, TimesSealedType
  <2>3. sealed' = [sealed EXCEPT
                    ![e] = [p \in Packets |-> @[p] + TimesSealed(r.out, p)]]
    BY DEF Becomes
  <2> QED
    BY <2>1, <2>2, <2>3
<1>6. used' \subseteq Ephemerals
  <2>1. used \subseteq Ephemerals
    BY <1>1 DEF TypeOK
  <2>2. DrawnIn(r.out) \subseteq Ephemerals
    BY DEF Becomes
  <2>3. used' = used \cup DrawnIn(r.out)
    BY DEF Becomes
  <2> QED
    BY <2>1, <2>2, <2>3
<1> QED
  BY <1>3, <1>4, <1>5, <1>6

\* A step of one endpoint that ends in a good result, and keeps the types of
\* the histories, preserves the invariant.
LEMMA StepInv ==
    ASSUME Inv, NEW e \in Endpoints, NEW r, GoodResult(r),
           NEW mine \in Seq(Message), Len(mine) <= MaxInFlight,
           Becomes(e, r, mine),
           submitted' \in [Endpoints -> SUBSET Packets],
           gave_up' \in [Endpoints -> SUBSET Packets],
           delivered' \in [Endpoints -> [Packets -> Nat]],
           derived' \in [Endpoints -> SUBSET Key]
    PROVE  Inv'
<1>1. /\ tunn' \in [Endpoints -> TunnType]
      /\ net' \in [Endpoints -> Seq(Message)]
      /\ \A f \in Endpoints : Len(net'[f]) <= MaxInFlight
      /\ sealed' \in [Endpoints -> [Packets -> Nat]]
      /\ used' \subseteq Ephemerals
      /\ \A f \in Endpoints : Good(tunn'[f])
  BY BecomesGood
<1>2. TypeOK'
  BY <1>1 DEF TypeOK
<1>3. ExpiredIsClean' /\ QueueHasHandshake'
  BY <1>1 DEF ExpiredIsClean, QueueHasHandshake, Good, Clean, Waiting
<1> QED
  BY <1>2, <1>3 DEF Inv

-----------------------------------------------------------------------------
(* Each operation preserves the invariant.                                 *)

\* One lemma per action.
LEMMA EncapsulateInv ==
    ASSUME Inv, NEW e \in Endpoints, NEW p \in Packets, Encapsulate(e, p)
    PROVE  Inv'
<1> USE DEF Encapsulate
<1>1. TypeOK /\ Good(tunn[e])
  BY InvIsGood
<1>2. PICK k \in Drawn(Fresh) : Becomes(e, Encapsulated(tunn[e], p, k), net[e])
  OBVIOUS
<1> DEFINE r == Encapsulated(tunn[e], p, k)
<1>3. p \in Payloads
  BY DEF Payloads
<1>4. GoodResult(r)
  BY <1>1, <1>2, <1>3, SendingGood DEF Becomes
<1> HIDE DEF r
<1>5. net[e] \in Seq(Message) /\ Len(net[e]) <= MaxInFlight
  BY <1>1 DEF TypeOK
<1>6. submitted' \in [Endpoints -> SUBSET Packets]
  BY <1>1 DEF TypeOK
<1>7. gave_up' \in [Endpoints -> SUBSET Packets]
  BY <1>1 DEF TypeOK
<1>8. /\ delivered' \in [Endpoints -> [Packets -> Nat]]
      /\ derived' \in [Endpoints -> SUBSET Key]
  BY <1>1 DEF TypeOK
<1> QED
  BY <1>2, <1>4, <1>5, <1>6, <1>7, <1>8, StepInv DEF r

\* The messages under way when one of them is taken.
LEMMA TakenType ==
    ASSUME TypeOK, NEW e \in Endpoints, NEW q \in Seq(Message),
           Len(q) = Len(net[e]), NEW i \in DOMAIN q, NEW copied
    PROVE  Taken(q, i, copied) \in Seq(Message) /\ Len(Taken(q, i, copied)) <= MaxInFlight
<1>1. Len(q) <= MaxInFlight /\ Len(q) \in Nat /\ MaxInFlight \in Nat
  BY NetworkAssumption, LenProperties DEF TypeOK
<1>2. RemoveAt(q, i) \in Seq(Message) /\ Len(RemoveAt(q, i)) <= Len(q)
  BY RemoveAtType
<1>3. Len(RemoveAt(q, i)) \in Nat
  BY <1>2, LenProperties
<1> QED
  BY <1>1, <1>2, <1>3 DEF Taken

\* derived grows by keys only.
LEMMA DerivesType ==
    ASSUME TypeOK, NEW e \in Endpoints, NEW key \in Key, Derives(e, key)
    PROVE  derived' \in [Endpoints -> SUBSET Key]
BY DEF Derives, TypeOK

LEMMA ReceiveInitInv ==
    ASSUME Inv, NEW e \in Endpoints, NEW i \in DOMAIN net[e],
           NEW copied \in BOOLEAN, ReceiveInit(e, i, copied)
    PROVE  Inv'
<1> DEFINE m == net[e][i]
           mine == Taken(Outdated(net[e], i), i, copied)
<1>1. TypeOK /\ Good(tunn[e])
  BY InvIsGood
<1>2. net[e] \in Seq(Message)
  BY <1>1 DEF TypeOK
<1>3. m \in Message
  BY <1>2, ElementOfSeq, LenProperties
<1>4. mine \in Seq(Message) /\ Len(mine) <= MaxInFlight
  BY <1>1, <1>2, OutdatedType, TakenType
<1>5. PICK k1 \in Drawn(Fresh) \ {0} :
        /\ \E r \in {ThenFlush(Responded(tunn[e], m, k1), k2) :
                        k2 \in Drawn(Fresh \ {k1})} : Becomes(e, r, mine)
        /\ Derives(e, <<m.eph, k1>>)
  BY DEF ReceiveInit
<1>6. k1 \in Ephemerals
  BY <1>5, DrawnType
<1>7. PICK k2 : Becomes(e, ThenFlush(Responded(tunn[e], m, k1), k2), mine)
  BY <1>5
<1> DEFINE r == ThenFlush(Responded(tunn[e], m, k1), k2)
<1>8. m.type = "init" /\ UNCHANGED <<submitted, gave_up, delivered>>
  BY DEF ReceiveInit
<1> HIDE DEF m, mine
<1>9. GoodResult(r) /\ <<m.eph, k1>> \in Key
  BY <1>1, <1>3, <1>6, <1>7, <1>8, RespondedGood DEF Becomes, Good
<1>10. derived' \in [Endpoints -> SUBSET Key]
  BY <1>1, <1>5, <1>9, DerivesType
<1>11. /\ submitted' \in [Endpoints -> SUBSET Packets]
       /\ gave_up' \in [Endpoints -> SUBSET Packets]
       /\ delivered' \in [Endpoints -> [Packets -> Nat]]
  BY <1>1, <1>8 DEF TypeOK
<1> HIDE DEF r
<1> QED
  BY <1>4, <1>7, <1>9, <1>10, <1>11, StepInv DEF r

LEMMA ReceiveResponseInv ==
    ASSUME Inv, NEW e \in Endpoints, NEW i \in DOMAIN net[e],
           NEW copied \in BOOLEAN, ReceiveResponse(e, i, copied)
    PROVE  Inv'
<1> DEFINE m == net[e][i]
           mine == Taken(net[e], i, copied)
<1>1. TypeOK /\ Good(tunn[e])
  BY InvIsGood
<1>2. net[e] \in Seq(Message)
  BY <1>1 DEF TypeOK
<1>3. m \in Message
  BY <1>2, ElementOfSeq, LenProperties
<1>4. mine \in Seq(Message) /\ Len(mine) <= MaxInFlight
  BY <1>1, <1>2, TakenType
<1>5. PICK k : Becomes(e, ThenFlush(Established(tunn[e], m), k), mine)
  BY DEF ReceiveResponse
<1>6. /\ m.type = "response" /\ Opens(tunn[e], m)
      /\ Derives(e, <<m.answers, m.eph>>)
      /\ UNCHANGED <<submitted, gave_up, delivered>>
  BY DEF ReceiveResponse
<1> DEFINE r == ThenFlush(Established(tunn[e], m), k)
<1> HIDE DEF m, mine
<1>7. GoodResult(r) /\ <<m.answers, m.eph>> \in Key
  BY <1>1, <1>3, <1>5, <1>6, EstablishedGood DEF Becomes
<1>8. derived' \in [Endpoints -> SUBSET Key]
  BY <1>1, <1>6, <1>7, DerivesType
<1>9. /\ submitted' \in [Endpoints -> SUBSET Packets]
      /\ gave_up' \in [Endpoints -> SUBSET Packets]
      /\ delivered' \in [Endpoints -> [Packets -> Nat]]
  BY <1>1, <1>6 DEF TypeOK
<1> HIDE DEF r
<1> QED
  BY <1>4, <1>5, <1>7, <1>8, <1>9, StepInv DEF r

LEMMA ReceiveDataInv ==
    ASSUME Inv, NEW e \in Endpoints, NEW i \in DOMAIN net[e], ReceiveData(e, i)
    PROVE  Inv'
<1> DEFINE m == net[e][i]
           mine == Taken(net[e], i, FALSE)
           u == SetCurrent(tunn[e], m.receiver)
           r == Result(u, <<>>)
<1>1. TypeOK /\ Good(tunn[e])
  BY InvIsGood
<1>2. net[e] \in Seq(Message)
  BY <1>1 DEF TypeOK
<1>3. m \in Message /\ m.type = "data"
  BY <1>2, ElementOfSeq, LenProperties DEF ReceiveData
<1>4. mine \in Seq(Message) /\ Len(mine) <= MaxInFlight
  BY <1>1, <1>2, TakenType
<1>5. Becomes(e, r, mine) /\ UNCHANGED <<submitted, gave_up, derived>>
  BY DEF ReceiveData
<1>6. m.receiver \in Indices
  BY <1>3 DEF Message
<1>7. tunn[e] \in TunnType
  BY <1>1 DEF Good
<1>8. /\ u \in TunnType /\ u.state = tunn[e].state /\ u.previous = tunn[e].previous
      /\ u.sessions = tunn[e].sessions /\ u.packet_queue = tunn[e].packet_queue
  BY <1>6, <1>7, SetCurrentType
<1>9. delivered' \in [Endpoints -> [Packets -> Nat]]
  <2>1. delivered \in [Endpoints -> [Packets -> Nat]]
    BY <1>1 DEF TypeOK
  <2>2. delivered' = [delivered EXCEPT
            ![e] = [p \in Packets |-> @[p] + (IF p = m.payload THEN 1 ELSE 0)]]
    BY DEF ReceiveData
  <2> QED
    BY <2>1, <2>2
<1> HIDE DEF m, mine, u
<1>10. Good(u)
  BY <1>1, <1>8 DEF Good, Clean, Waiting, InProgress
<1>11. <<>> \in Seq(Message)
  BY EmptySeq
<1>12. GoodResult(r)
  BY <1>10, <1>11 DEF GoodResult, Result, Sendable
<1>13. /\ submitted' \in [Endpoints -> SUBSET Packets]
       /\ gave_up' \in [Endpoints -> SUBSET Packets]
       /\ derived' \in [Endpoints -> SUBSET Key]
  BY <1>1, <1>5 DEF TypeOK
<1> HIDE DEF r
<1> QED
  BY <1>4, <1>5, <1>9, <1>12, <1>13, StepInv

LEMMA LoseInv ==
    ASSUME Inv, NEW e \in Endpoints, NEW i \in DOMAIN net[e], Lose(e, i)
    PROVE  Inv'
<1>1. TypeOK
  BY DEF Inv
<1>2. net \in [Endpoints -> Seq(Message)]
  BY <1>1 DEF TypeOK
<1> DEFINE q == RemoveAt(net[e], i)
<1>3. q \in Seq(Message) /\ Len(q) <= MaxInFlight
  <2>1. Taken(net[e], i, FALSE) = q
    BY DEF Taken
  <2> QED
    BY <1>1, <1>2, <2>1, TakenType
<1>4. net' = [net EXCEPT ![e] = q] /\ UNCHANGED <<tunn, histories>>
  BY DEF Lose
<1> HIDE DEF q
<1>5. /\ net' \in [Endpoints -> Seq(Message)]
      /\ \A f \in Endpoints : Len(net'[f]) <= MaxInFlight
  BY <1>1, <1>2, <1>3, <1>4 DEF TypeOK
<1>6. TypeOK'
  BY <1>1, <1>4, <1>5 DEF TypeOK, histories
<1>7. ExpiredIsClean' /\ QueueHasHandshake'
  BY <1>4 DEF Inv, ExpiredIsClean, QueueHasHandshake
<1> QED
  BY <1>6, <1>7 DEF Inv

\* The actions of update_timers step from the aged tunnel.
LEMMA UpdateTimersInv ==
    ASSUME Inv, NEW e \in Endpoints, UpdateTimers(e)
    PROVE  Inv'
<1> DEFINE t == Aged(tunn[e])
<1>1. TypeOK /\ Good(tunn[e])
  BY InvIsGood
<1>2. Good(t)
  BY <1>1, AgedGood
<1>3. net[e] \in Seq(Message) /\ Len(net[e]) <= MaxInFlight
  BY <1>1 DEF TypeOK
<1> HIDE DEF t
<1>4. ASSUME NEW r, GoodResult(r), Ages(e, r), gave_up' \in [Endpoints -> SUBSET Packets]
      PROVE  Inv'
  <2>1. /\ submitted' \in [Endpoints -> SUBSET Packets]
        /\ delivered' \in [Endpoints -> [Packets -> Nat]]
        /\ derived' \in [Endpoints -> SUBSET Key]
    BY <1>1, <1>4 DEF Ages, TypeOK
  <2> QED
    BY <1>3, <1>4, <2>1, StepInv DEF Ages
<1>5. UNCHANGED gave_up => gave_up' \in [Endpoints -> SUBSET Packets]
  BY <1>1 DEF TypeOK
<1>6. <<>> \in Seq(Message)
  BY EmptySeq
<1>7. CASE Idle(e)
  <2>1. GoodResult(Result(t, <<>>))
    BY <1>2, <1>6 DEF GoodResult, Result, Sendable
  <2> QED
    BY <1>4, <1>5, <1>7, <2>1 DEF Idle, t
<1>8. CASE ConnectionExpired(e)
  <2>1. Good(GivenUp(t))
    BY <1>2, GivenUpGood DEF Good
  <2>2. GoodResult(Result(GivenUp(t), <<>>))
    BY <1>6, <2>1 DEF GoodResult, Result, Sendable
  <2>3. gave_up' \in [Endpoints -> SUBSET Packets]
    <3>1. t.packet_queue \in Seq(Payloads)
      BY <1>2 DEF Good, TunnType
    <3>2. ToSet(t.packet_queue) \subseteq Payloads
      BY <3>1, ElementOfSeq, LenProperties DEF ToSet
    <3>3. ToSet(t.packet_queue) \ {KeepAlive} \subseteq Packets
      BY <3>2 DEF Payloads
    <3>4. gave_up' = [gave_up EXCEPT ![e] = @ \cup (ToSet(t.packet_queue) \ {KeepAlive})]
      BY <1>8 DEF ConnectionExpired, t
    <3> QED
      BY <1>1, <3>3, <3>4 DEF TypeOK
  <2>4. Ages(e, Result(GivenUp(t), <<>>))
    BY <1>8 DEF ConnectionExpired, t
  <2> QED
    BY <1>4, <2>2, <2>3, <2>4
<1>9. ASSUME NEW k, Ages(e, StartHandshake(t, k)), UNCHANGED gave_up
      PROVE  Inv'
  <2>1. GoodResult(StartHandshake(t, k))
    BY <1>2, <1>9, SendingGood DEF Ages, Becomes
  <2> QED
    BY <1>4, <1>5, <1>9, <2>1
<1>10. CASE RekeyTimeout(e)
  BY <1>9, <1>10 DEF RekeyTimeout, t
<1>11. CASE Rekey(e)
  BY <1>9, <1>11 DEF Rekey, t
<1>12. CASE SendKeepalive(e)
  <2>1. PICK k : Ages(e, Encapsulated(t, KeepAlive, k))
    BY <1>12 DEF SendKeepalive, t
  <2>2. KeepAlive \in Payloads
    BY DEF Payloads
  <2>3. GoodResult(Encapsulated(t, KeepAlive, k))
    BY <1>2, <2>1, <2>2, SendingGood DEF Ages, Becomes
  <2> QED
    BY <1>4, <1>5, <1>12, <2>1, <2>3 DEF SendKeepalive
<1> QED
  BY <1>7, <1>8, <1>10, <1>11, <1>12 DEF UpdateTimers

LEMMA NextInv == Inv /\ [Next]_vars => Inv'
<1> SUFFICES ASSUME Inv, [Next]_vars PROVE Inv'
  OBVIOUS
<1>1. CASE UNCHANGED vars
  BY <1>1 DEF vars, histories, Inv, TypeOK, ExpiredIsClean, QueueHasHandshake
<1>2. ASSUME NEW e \in Endpoints, NEW p \in Packets, Encapsulate(e, p)
      PROVE  Inv'
  BY <1>2, EncapsulateInv
<1>3. ASSUME NEW e \in Endpoints, NEW i \in DOMAIN net[e], NEW copied \in BOOLEAN,
             Receive(e, i, copied)
      PROVE  Inv'
  BY <1>3, ReceiveInitInv, ReceiveResponseInv, ReceiveDataInv DEF Receive
<1>4. ASSUME NEW e \in Endpoints, NEW i \in DOMAIN net[e], Lose(e, i)
      PROVE  Inv'
  BY <1>4, LoseInv
<1>5. ASSUME NEW e \in Endpoints, UpdateTimers(e)
      PROVE  Inv'
  BY <1>5, UpdateTimersInv
<1> QED
  BY <1>1, <1>2, <1>3, <1>4, <1>5 DEF Next

LEMMA Invariance == Spec => []Inv
BY InitInv, NextInv, PTL DEF Spec

-----------------------------------------------------------------------------
(* The theorems.                                                           *)

\* The endpoints and the network stay in their types: a session has indices
\* and a key, the queue holds packets, the network is bounded.
THEOREM TypeCorrect == Spec => []TypeOK
<1>1. Inv => TypeOK
  BY DEF Inv
<1> QED
  BY <1>1, Invariance, PTL

\* A connection that gave up keeps no session, no packet and no handshake that
\* a late response could complete (set_expired, clear_all).
THEOREM ExpiredClean == Spec => []ExpiredIsClean
<1>1. Inv => ExpiredIsClean
  BY DEF Inv
<1> QED
  BY <1>1, Invariance, PTL

\* No crossing, loss, delay or repetition of handshake messages leaves a queued
\* packet without a handshake in progress (queue_packet, the flush loops).
THEOREM QueueWaited == Spec => []QueueHasHandshake
<1>1. Inv => QueueHasHandshake
  BY DEF Inv
<1> QED
  BY <1>1, Invariance, PTL

-----------------------------------------------------------------------------
(* Where a message was before a step.                                      *)

\* RemoveAt leaves the others in their order.
LEMMA RemoveAtParts ==
    ASSUME NEW q \in Seq(Message), NEW i \in DOMAIN q
    PROVE  /\ Len(RemoveAt(q, i)) = Len(q) - 1
           /\ DOMAIN RemoveAt(q, i) = 1..(Len(q) - 1)
           /\ \A j \in 1..(Len(q) - 1) :
                  RemoveAt(q, i)[j] = q[IF j < i THEN j ELSE j + 1]
<1> DEFINE x == SubSeq(q, 1, i - 1)
           y == SubSeq(q, i + 1, Len(q))
           z == x \o y
<1>1. DOMAIN q = 1..Len(q) /\ Len(q) \in Nat /\ i \in 1..Len(q)
  BY LenProperties
<1>2. \A j \in 1..Len(q) : q[j] \in Message
  BY ElementOfSeq
<1>3. /\ x \in Seq(Message) /\ Len(x) = IF 1 <= i - 1 THEN i - 1 - 1 + 1 ELSE 0
      /\ \A j \in 1..(i - 1 - 1 + 1) : x[j] = q[1 + j - 1]
  <2>1. \A j \in 1..(i - 1) : q[j] \in Message
    BY <1>1, <1>2
  <2> QED
    BY <1>1, <2>1, SubSeqProperties
<1>4. /\ y \in Seq(Message)
      /\ Len(y) = IF i + 1 <= Len(q) THEN Len(q) - (i + 1) + 1 ELSE 0
      /\ \A j \in 1..(Len(q) - (i + 1) + 1) : y[j] = q[(i + 1) + j - 1]
  <2>1. \A j \in (i + 1)..Len(q) : q[j] \in Message
    BY <1>1, <1>2
  <2> QED
    BY <1>1, <2>1, SubSeqProperties
<1>5. RemoveAt(q, i) = z
  BY DEF RemoveAt
<1> HIDE DEF x, y
<1>6. Len(x) = i - 1 /\ \A j \in 1..(i - 1) : x[j] = q[j]
  BY <1>1, <1>3
<1>7. Len(y) = Len(q) - i /\ \A j \in 1..(Len(q) - i) : y[j] = q[i + j]
  <2>1. Len(y) = Len(q) - i
    BY <1>1, <1>4
  <2>2. ASSUME NEW j \in 1..(Len(q) - i) PROVE y[j] = q[i + j]
    <3>1. j \in 1..(Len(q) - (i + 1) + 1) /\ (i + 1) + j - 1 = i + j
      BY <1>1
    <3> QED
      BY <1>4, <3>1
  <2> QED
    BY <2>1, <2>2
<1>8. /\ z \in Seq(Message) /\ Len(z) = Len(x) + Len(y)
      /\ \A j \in 1..(Len(x) + Len(y)) :
            z[j] = IF j <= Len(x) THEN x[j] ELSE y[j - Len(x)]
  BY <1>3, <1>4, ConcatProperties
<1>9. Len(z) = Len(q) - 1 /\ DOMAIN z = 1..(Len(q) - 1)
  <2>1. Len(z) = Len(q) - 1
    BY <1>1, <1>6, <1>7, <1>8
  <2> QED
    BY <1>8, <2>1, LenProperties
<1>10. ASSUME NEW j \in 1..(Len(q) - 1)
      PROVE  z[j] = q[IF j < i THEN j ELSE j + 1]
  <2>1. j \in 1..(Len(x) + Len(y))
    BY <1>1, <1>6, <1>7
  <2>2. CASE j < i
    BY <1>1, <1>6, <1>8, <2>1, <2>2
  <2>3. CASE ~(j < i)
    <3>1. ~(j <= Len(x)) /\ j - (i - 1) \in 1..(Len(q) - i)
      BY <1>1, <1>6, <2>3
    <3>3. z[j] = y[j - (i - 1)]
      BY <1>6, <1>8, <2>1, <3>1
    <3>2. y[j - (i - 1)] = q[i + (j - (i - 1))] /\ i + (j - (i - 1)) = j + 1
      BY <1>1, <1>7, <3>1
    <3> QED
      BY <1>1, <2>3, <3>1, <3>2, <3>3
  <2> QED
    BY <2>2, <2>3
<1> QED
  BY <1>5, <1>9, <1>10 DEF z

\* Post puts what is sent behind what is under way.
LEMMA PostParts ==
    ASSUME NEW q \in Seq(Message), NEW out \in Seq(Message)
    PROVE  /\ Post(q, out) \in Seq(Message)
           /\ Len(Post(q, out)) <= Len(q) + Len(out)
           /\ \A j \in DOMAIN Post(q, out) :
                  /\ j \in 1..(Len(q) + Len(out))
                  /\ j <= Len(q) => j \in DOMAIN q
                  /\ j > Len(q) => j - Len(q) \in DOMAIN out
                  /\ Post(q, out)[j] = IF j <= Len(q) THEN q[j] ELSE out[j - Len(q)]
<1> DEFINE all == q \o out
           n == Len(q) + Len(out)
<1>1. /\ all \in Seq(Message) /\ Len(all) = n
      /\ \A j \in 1..n : all[j] = IF j <= Len(q) THEN q[j] ELSE out[j - Len(q)]
  BY ConcatProperties
<1>2. /\ DOMAIN q = 1..Len(q) /\ DOMAIN out = 1..Len(out) /\ DOMAIN all = 1..n
      /\ Len(q) \in Nat /\ Len(out) \in Nat /\ MaxInFlight \in Nat
  BY <1>1, LenProperties, NetworkAssumption
<1>3. Post(q, out) = IF n <= MaxInFlight THEN all ELSE SubSeq(all, 1, MaxInFlight)
  BY <1>1 DEF Post
<1> HIDE DEF all
<1>4. /\ Post(q, out) \in Seq(Message) /\ Len(Post(q, out)) <= n
      /\ DOMAIN Post(q, out) \subseteq 1..n
      /\ \A j \in DOMAIN Post(q, out) : Post(q, out)[j] = all[j]
  <2>1. CASE n <= MaxInFlight
    BY <1>1, <1>2, <1>3, <2>1
  <2>2. CASE ~(n <= MaxInFlight)
    <3> DEFINE p == SubSeq(all, 1, MaxInFlight)
    <3>1. \A j \in 1..MaxInFlight : all[j] \in Message
      BY <1>1, <1>2, <2>2, ElementOfSeq
    <3>2. /\ p \in Seq(Message) /\ Len(p) = IF 1 <= MaxInFlight THEN MaxInFlight - 1 + 1 ELSE 0
          /\ \A j \in 1..(MaxInFlight - 1 + 1) : p[j] = all[1 + j - 1]
      BY <1>2, <3>1, SubSeqProperties
    <3>3. DOMAIN p = 1..MaxInFlight /\ Len(p) = MaxInFlight
      BY <1>2, <3>2, LenProperties
    <3> HIDE DEF p
    <3>4. Post(q, out) = p
      BY <1>3, <2>2 DEF p
    <3> QED
      BY <1>2, <2>2, <3>2, <3>3, <3>4
  <2> QED
    BY <2>1, <2>2
<1>5. ASSUME NEW j \in DOMAIN Post(q, out)
      PROVE  /\ j \in 1..n /\ j <= Len(q) => j \in DOMAIN q
             /\ j > Len(q) => j - Len(q) \in DOMAIN out
  BY <1>2, <1>4
<1> QED
  BY <1>1, <1>4, <1>5

\* What is drawn is drawn by a message, and of what is sent nothing else is an
\* ephemeral.
LEMMA DrawnInConcatParts ==
    ASSUME NEW S, NEW x \in Seq(S), NEW y \in Seq(S)
    PROVE  DrawnIn(x \o y) = DrawnIn(x) \cup DrawnIn(y)
<1> DEFINE z == x \o y
<1>1. /\ z \in Seq(S) /\ Len(z) = Len(x) + Len(y)
      /\ \A i \in 1..Len(x) + Len(y) :
            z[i] = IF i <= Len(x) THEN x[i] ELSE y[i - Len(x)]
  BY ConcatProperties
<1>2. /\ DOMAIN x = 1..Len(x) /\ DOMAIN y = 1..Len(y) /\ DOMAIN z = 1..Len(z)
      /\ Len(x) \in Nat /\ Len(y) \in Nat
  BY <1>1, LenProperties
<1> HIDE DEF z
<1>3. ASSUME NEW k \in DrawnIn(z) PROVE k \in DrawnIn(x) \cup DrawnIn(y)
  <2>1. PICK i \in DOMAIN z : z[i].type # "data" /\ k = z[i].eph
    BY <1>3 DEF DrawnIn
  <2>2. CASE i <= Len(x)
    BY <1>1, <1>2, <2>1, <2>2 DEF DrawnIn
  <2>3. CASE ~(i <= Len(x))
    <3>1. i - Len(x) \in DOMAIN y /\ z[i] = y[i - Len(x)]
      BY <1>1, <1>2, <2>1, <2>3
    <3> QED
      BY <2>1, <3>1 DEF DrawnIn
  <2> QED
    BY <2>2, <2>3
<1>4. ASSUME NEW k \in DrawnIn(x) PROVE k \in DrawnIn(z)
  <2>1. PICK i \in DOMAIN x : x[i].type # "data" /\ k = x[i].eph
    BY <1>4 DEF DrawnIn
  <2>2. i \in DOMAIN z /\ z[i] = x[i]
    BY <1>1, <1>2, <2>1
  <2> QED
    BY <2>1, <2>2 DEF DrawnIn
<1>5. ASSUME NEW k \in DrawnIn(y) PROVE k \in DrawnIn(z)
  <2>1. PICK i \in DOMAIN y : y[i].type # "data" /\ k = y[i].eph
    BY <1>5 DEF DrawnIn
  <2>2. i + Len(x) \in 1..(Len(x) + Len(y)) /\ ~(i + Len(x) <= Len(x)) /\ (i + Len(x)) - Len(x) = i
    BY <1>2, <2>1
  <2>3. i + Len(x) \in DOMAIN z /\ z[i + Len(x)] = y[i]
    BY <1>1, <1>2, <2>1, <2>2
  <2> QED
    BY <2>1, <2>3 DEF DrawnIn
<1> QED
  BY <1>3, <1>4, <1>5 DEF z

-----------------------------------------------------------------------------
(* Who drew an ephemeral, and for what.  Every handshake under way, every   *)
(* session and every message under way claims something of the ephemerals   *)
(* it holds: which end drew it, under which of its indices, and, for a       *)
(* response, which ephemeral and which index of the peer it answers.  That   *)
(* crossing, late and repeated handshakes do not mix is that no two claims   *)
(* about one ephemeral differ.                                              *)

Begun(e, k, i) == [eph |-> k, by |-> e, index |-> i, answers |-> 0, to |-> 0]

Replied(e, k, i, j, to) == [eph |-> k, by |-> e, index |-> i, answers |-> j, to |-> to]

HandshakeClaims(e, s) == IF s.tag = "InitSent" THEN {Begun(e, s.eph, s.index)} ELSE {}

\* Initiator a with index i, responder b with index j.
KeyClaims(a, i, b, j, key) ==
    {Begun(a, key[1], i), Replied(b, key[2], j, key[1], i)}

SessionClaims(e, s) ==
    IF s = NoSession THEN {}
    ELSE IF s.initiator THEN KeyClaims(e, s.local, Peer(e), s.peer, s.key)
    ELSE KeyClaims(Peer(e), s.peer, e, s.local, s.key)

TunnelClaims(e, t) ==
    HandshakeClaims(e, t.state) \cup HandshakeClaims(e, t.previous)
    \cup UNION {SessionClaims(e, t.sessions[i]) : i \in Slots}

\* Of a message that e sent.
MessageClaims(e, m) ==
    IF m.type = "init" THEN {Begun(e, m.eph, m.sender)}
    ELSE IF m.type = "response"
    THEN KeyClaims(Peer(e), m.receiver, e, m.sender, <<m.answers, m.eph>>)
    ELSE {}

QueueClaims(e, q) == UNION {MessageClaims(e, q[i]) : i \in DOMAIN q}

\* What e holds and what is under way to it.
EndClaims(e) == TunnelClaims(e, tunn[e]) \cup QueueClaims(Peer(e), net[e])

Claims == EndClaims(A) \cup EndClaims(B)

Agree(C) == \A c, d \in C : c.eph = d.eph => c = d

\* Each session is in the slot of its index.
InPlace(t) == \A i \in Slots : t.sessions[i] # NoSession => Slot(t.sessions[i].local) = i

\* The ephemerals of the handshakes a response can complete.
OpenEphs(t) == {s.eph : s \in {h \in {t.state, t.previous} : h.tag = "InitSent"}}

\* The two are of different handshakes.
Apart(t) ==
    t.state.tag = "InitSent" /\ t.previous.tag = "InitSent" => t.state.eph # t.previous.eph

\* No two initiations under way have one ephemeral.
Distinct(q) ==
    \A i, j \in DOMAIN q :
        q[i].type = "init" /\ q[j].type = "init" /\ q[i].eph = q[j].eph => i = j

\* The ephemerals that may still lead to a key at an end that receives q.
LiveEphs(q) == {q[i].eph : i \in {j \in DOMAIN q : q[j].type = "init" /\ ~q[j].stale}}

\* The initiators' ephemerals of a set of keys.
Spent(keys) == {key[1] : key \in keys}

Handshakes ==
    /\ Agree(Claims)
    /\ \A c \in Claims : c.eph \in used
    /\ \A e \in Endpoints :
        /\ InPlace(tunn[e])
        /\ Apart(tunn[e])
        /\ Distinct(net[e])
        /\ OpenEphs(tunn[e]) \cap Spent(derived[e]) = {}
        /\ LiveEphs(net[e]) \cap Spent(derived[e]) = {}
        /\ Spent(derived[e]) \subseteq used

PairInv == Inv /\ OneKeyPerInitiation /\ Handshakes

\* What a message under way to an end shows of its sender.
LEMMA QueueClaimsIs ==
    ASSUME NEW e, NEW q, NEW i \in DOMAIN q
    PROVE  MessageClaims(e, q[i]) \subseteq QueueClaims(e, q)
BY DEF QueueClaims

\* Losing a message loses its claims only.
LEMMA RemoveAtClaims ==
    ASSUME NEW e, NEW q \in Seq(Message), NEW i \in DOMAIN q
    PROVE  /\ QueueClaims(e, RemoveAt(q, i)) \subseteq QueueClaims(e, q)
           /\ LiveEphs(RemoveAt(q, i)) \subseteq LiveEphs(q)
           /\ Distinct(q) => Distinct(RemoveAt(q, i))
<1> DEFINE o == RemoveAt(q, i)
           at(j) == IF j < i THEN j ELSE j + 1
<1>1. /\ DOMAIN o = 1..(Len(q) - 1)
      /\ \A j \in 1..(Len(q) - 1) : o[j] = q[at(j)]
  BY RemoveAtParts
<1>2. DOMAIN q = 1..Len(q) /\ Len(q) \in Nat
  BY LenProperties
<1>3. \A j \in DOMAIN o : at(j) \in DOMAIN q
  BY <1>1, <1>2
<1>4. \A j, k \in DOMAIN o : at(j) = at(k) => j = k
  BY <1>1, <1>2
<1> HIDE DEF o, at
<1>5. \A j \in DOMAIN o : o[j] = q[at(j)]
  BY <1>1
<1>6. QueueClaims(e, o) \subseteq QueueClaims(e, q)
  BY <1>3, <1>5 DEF QueueClaims
<1>7. LiveEphs(o) \subseteq LiveEphs(q)
  BY <1>3, <1>5 DEF LiveEphs
<1>8. Distinct(q) => Distinct(o)
  BY <1>3, <1>4, <1>5 DEF Distinct
<1> QED
  BY <1>6, <1>7, <1>8 DEF o

\* An initiation made stale leads to no more keys; the others stay as they were.
LEMMA OutdatedClaims ==
    ASSUME NEW e, NEW q \in Seq(Message), NEW i \in DOMAIN q
    PROVE  /\ QueueClaims(e, Outdated(q, i)) \subseteq QueueClaims(e, q)
           /\ LiveEphs(Outdated(q, i)) \subseteq LiveEphs(q)
           /\ Distinct(q) => Distinct(Outdated(q, i))
           /\ Distinct(q) /\ q[i].type = "init" => q[i].eph \notin LiveEphs(Outdated(q, i))
<1> DEFINE o == Outdated(q, i)
<1>1. DOMAIN o = DOMAIN q
  BY DEF Outdated
<1>2. DOMAIN q = 1..Len(q) /\ i \in Nat
  BY LenProperties
<1>3. ASSUME NEW j \in DOMAIN q
      PROVE  /\ o[j].type = q[j].type
             /\ q[j].type # "init" \/ ~(j <= i) => o[j] = q[j]
             /\ q[j].type = "init" /\ j <= i => o[j] = [q[j] EXCEPT !.stale = TRUE]
             /\ q[j].type = "init" =>
                    /\ o[j].eph = q[j].eph /\ o[j].sender = q[j].sender
                    /\ ~o[j].stale => ~q[j].stale /\ ~(j <= i)
  <2>1. q[j] \in Message
    BY <1>2, ElementOfSeq
  <2>2. o[j] = IF j <= i /\ q[j].type = "init" THEN [q[j] EXCEPT !.stale = TRUE] ELSE q[j]
    BY DEF Outdated
  <2> HIDE DEF o
  <2>3. CASE j <= i /\ q[j].type = "init"
    BY <2>1, <2>2, <2>3 DEF Message
  <2>4. CASE ~(j <= i /\ q[j].type = "init")
    BY <2>2, <2>4
  <2> QED
    BY <2>3, <2>4
<1> HIDE DEF o
<1>4. ASSUME NEW j \in DOMAIN q PROVE MessageClaims(e, o[j]) = MessageClaims(e, q[j])
  <2>1. CASE q[j].type = "init"
    BY <1>3, <2>1 DEF MessageClaims
  <2>2. CASE q[j].type # "init"
    BY <1>3, <2>2
  <2> QED
    BY <2>1, <2>2
<1>5. QueueClaims(e, o) \subseteq QueueClaims(e, q)
  BY <1>1, <1>4 DEF QueueClaims
<1>6. ASSUME NEW k \in LiveEphs(o)
      PROVE  \E j \in DOMAIN q : q[j].type = "init" /\ ~q[j].stale /\ ~(j <= i) /\ k = q[j].eph
  <2>1. PICK j \in DOMAIN q : o[j].type = "init" /\ ~o[j].stale /\ k = o[j].eph
    BY <1>1, <1>6 DEF LiveEphs
  <2> QED
    BY <1>3, <2>1
<1>7. LiveEphs(o) \subseteq LiveEphs(q)
  BY <1>6 DEF LiveEphs
<1>8. Distinct(q) => Distinct(o)
  BY <1>1, <1>3 DEF Distinct
<1>9. Distinct(q) /\ q[i].type = "init" => q[i].eph \notin LiveEphs(o)
  BY <1>2, <1>6 DEF Distinct
<1> QED
  BY <1>5, <1>7, <1>8, <1>9 DEF o

\* What is sent adds its claims, as far as it finds room.
LEMMA PostClaims ==
    ASSUME NEW e, NEW q \in Seq(Message), NEW out \in Seq(Message)
    PROVE  /\ QueueClaims(e, Post(q, out)) \subseteq QueueClaims(e, q) \cup QueueClaims(e, out)
           /\ LiveEphs(Post(q, out)) \subseteq LiveEphs(q) \cup LiveEphs(out)
           /\ /\ Distinct(q) /\ Distinct(out)
              /\ \A i \in DOMAIN q, j \in DOMAIN out :
                    q[i].type = "init" /\ out[j].type = "init" => q[i].eph # out[j].eph
              => Distinct(Post(q, out))
<1> DEFINE o == Post(q, out)
<1>1. /\ Len(q) \in Nat
      /\ \A j \in DOMAIN o :
          /\ j \in Int
          /\ j <= Len(q) => j \in DOMAIN q /\ o[j] = q[j]
          /\ ~(j <= Len(q)) => j - Len(q) \in DOMAIN out /\ o[j] = out[j - Len(q)]
  <2>1. Len(q) \in Nat /\ Len(out) \in Nat
    BY LenProperties
  <2> HIDE DEF o
  <2>2. \A j \in DOMAIN o :
            /\ j \in 1..(Len(q) + Len(out))
            /\ j <= Len(q) => j \in DOMAIN q
            /\ j > Len(q) => j - Len(q) \in DOMAIN out
            /\ o[j] = IF j <= Len(q) THEN q[j] ELSE out[j - Len(q)]
    BY PostParts DEF o
  <2> QED
    BY <2>1, <2>2
<1> HIDE DEF o
<1>2. ASSUME NEW j \in DOMAIN o
      PROVE  (\E i \in DOMAIN q : o[j] = q[i]) \/ (\E i \in DOMAIN out : o[j] = out[i])
  BY <1>1
<1>3. QueueClaims(e, o) \subseteq QueueClaims(e, q) \cup QueueClaims(e, out)
  <2> SUFFICES ASSUME NEW c \in QueueClaims(e, o)
               PROVE  c \in QueueClaims(e, q) \cup QueueClaims(e, out)
    OBVIOUS
  <2>1. PICK j \in DOMAIN o : c \in MessageClaims(e, o[j])
    BY DEF QueueClaims
  <2> QED
    BY <1>2, <2>1, QueueClaimsIs
<1>4. LiveEphs(o) \subseteq LiveEphs(q) \cup LiveEphs(out)
  <2> SUFFICES ASSUME NEW k \in LiveEphs(o)
               PROVE  k \in LiveEphs(q) \cup LiveEphs(out)
    OBVIOUS
  <2>1. PICK j \in DOMAIN o : o[j].type = "init" /\ ~o[j].stale /\ k = o[j].eph
    BY DEF LiveEphs
  <2> QED
    BY <1>2, <2>1 DEF LiveEphs
<1>5. ASSUME Distinct(q), Distinct(out),
             \A i \in DOMAIN q, j \in DOMAIN out :
                 q[i].type = "init" /\ out[j].type = "init" => q[i].eph # out[j].eph
      PROVE  Distinct(o)
  <2> SUFFICES ASSUME NEW i \in DOMAIN o, NEW j \in DOMAIN o, o[i].type = "init",
                      o[j].type = "init", o[i].eph = o[j].eph
               PROVE  i = j
    BY DEF Distinct
  <2>1. CASE i <= Len(q) /\ j <= Len(q)
    BY <1>1, <1>5, <2>1 DEF Distinct
  <2>2. CASE i <= Len(q) /\ ~(j <= Len(q))
    BY <1>1, <1>5, <2>2
  <2>3. CASE ~(i <= Len(q)) /\ j <= Len(q)
    BY <1>1, <1>5, <2>3
  <2>4. CASE ~(i <= Len(q)) /\ ~(j <= Len(q))
    <3>1. i - Len(q) = j - Len(q)
      BY <1>1, <1>5, <2>4 DEF Distinct
    <3> QED
      BY <1>1, <3>1
  <2> QED
    BY <2>1, <2>2, <2>3, <2>4
<1> QED
  BY <1>3, <1>4, <1>5 DEF o

-----------------------------------------------------------------------------
(* What an operation does to the handshakes and the sessions.              *)

\* Nothing.
SameTunnel(t, u) ==
    /\ u.state = t.state /\ u.previous = t.previous /\ u.next_index = t.next_index
    /\ u.sessions = t.sessions /\ u.current = t.current

\* It sends no more than data under the current session.
Quiet(t, r) ==
    /\ SameTunnel(t, r.tunn)
    /\ \A i \in DOMAIN r.out :
        /\ r.out[i].type = "data"
        /\ CurrentSession(t) # NoSession
        /\ r.out[i].key = CurrentSession(t).key

\* It starts a handshake.
Starts(t, r, k) ==
    /\ r.tunn.state = InitSent(IncIndex(t.next_index), k)
    /\ r.tunn.previous = t.state
    /\ r.tunn.next_index = IncIndex(t.next_index)
    /\ r.tunn.sessions = t.sessions /\ r.tunn.current = t.current
    /\ r.out = <<InitMsg(IncIndex(t.next_index), k)>>

\* format_handshake_initiation starts a handshake.
LEMMA StartHandshakeStarts ==
    ASSUME NEW t \in TunnType, NEW k
    PROVE  Starts(t, StartHandshake(t, k), k)
BY DEF Starts, StartHandshake, Result, TunnType

\* Queueing touches neither sessions nor handshakes.
LEMMA QueuedSame ==
    ASSUME NEW t \in TunnType, NEW q, NEW p
    PROVE  SameTunnel(t, [t EXCEPT !.packet_queue = q]) /\ SameTunnel(t, QueuePacket(t, p))
BY DEF SameTunnel, QueuePacket, TunnType

\* encapsulate seals under the current session, or starts a handshake at most.
LEMMA EncapsulatedShape ==
    ASSUME NEW t \in TunnType, NEW p \in Payloads, NEW k
    PROVE  Quiet(t, Encapsulated(t, p, k)) \/ Starts(t, Encapsulated(t, p, k), k)
<1> DEFINE r == Encapsulated(t, p, k)
           u == QueuePacket(t, p)
<1>1. u \in TunnType /\ SameTunnel(t, u)
  BY QueuePacketType, QueuedSame
<1>2. CASE CurrentSession(t) # NoSession
  <2>1. r.tunn = t /\ r.out = <<Seal(CurrentSession(t), p)>>
    BY <1>2 DEF Encapsulated, Result
  <2>2. \A s : Seal(s, p).type = "data" /\ Seal(s, p).key = s.key
    BY DEF Seal, DataMsg
  <2> HIDE DEF r
  <2>3. Quiet(t, r)
    BY <1>2, <2>1, <2>2 DEF Quiet, SameTunnel
  <2> QED
    BY <2>3 DEF r
<1>3. CASE CurrentSession(t) = NoSession
  <2>1. r = StartIfIdle(u, k)
    BY <1>3 DEF Encapsulated
  <2> HIDE DEF u
  <2>2. CASE InProgress(u)
    <3>1. r.tunn = u /\ r.out = <<>>
      BY <2>1, <2>2 DEF StartIfIdle, Result
    <3> HIDE DEF r
    <3>2. Quiet(t, r)
      BY <1>1, <3>1 DEF Quiet
    <3> QED
      BY <3>2 DEF r
  <2>3. CASE ~InProgress(u)
    <3>1. r = StartHandshake(u, k)
      BY <2>1, <2>3 DEF StartIfIdle
    <3> HIDE DEF r
    <3>2. Starts(u, r, k)
      BY <1>1, <3>1, StartHandshakeStarts
    <3>3. Starts(t, r, k)
      BY <1>1, <3>2 DEF Starts, SameTunnel
    <3> QED
      BY <3>3 DEF r
  <2> QED
    BY <2>2, <2>3
<1> QED
  BY <1>2, <1>3

\* A call of send_queued_packet.
LEMMA SendQueuedShape ==
    ASSUME NEW t \in TunnType, t.packet_queue # <<>>, NEW k
    PROVE  Quiet(t, SendQueued(t, k)) \/ Starts(t, SendQueued(t, k), k)
<1> DEFINE u == [t EXCEPT !.packet_queue = Tail(@)]
           p == Head(t.packet_queue)
<1>1. u \in TunnType /\ p \in Payloads
  BY TailType
<1>2. SameTunnel(t, u)
  BY QueuedSame
<1>3. SendQueued(t, k) = Encapsulated(u, p, k)
  BY DEF SendQueued
<1> HIDE DEF u, p
<1>4. Quiet(u, Encapsulated(u, p, k)) \/ Starts(u, Encapsulated(u, p, k), k)
  BY <1>1, EncapsulatedShape
<1>5. CurrentSession(u) = CurrentSession(t)
  BY <1>2 DEF SameTunnel, CurrentSession
<1> QED
  BY <1>2, <1>3, <1>4, <1>5 DEF Quiet, Starts, SameTunnel

\* So does sending what waits.
LEMMA FlushedShape ==
    ASSUME NEW t \in TunnType, NEW k,
           DrawnIn(Flushed(t, k).out) \subseteq Ephemerals
    PROVE  Quiet(t, Flushed(t, k)) \/ Starts(t, Flushed(t, k), k)
<1> DEFINE r == Flushed(t, k)
           first == SendQueued(t, k)
<1>1. CASE t.packet_queue = <<>>
  <2>1. r.tunn = t /\ r.out = <<>>
    BY <1>1 DEF Flushed, Result
  <2> HIDE DEF r
  <2>2. Quiet(t, r)
    BY <2>1 DEF Quiet, SameTunnel
  <2> QED
    BY <2>2 DEF r
<1>2. CASE t.packet_queue # <<>> /\ CurrentSession(t) # NoSession
  <2> DEFINE o == [i \in DOMAIN t.packet_queue |->
                      Seal(CurrentSession(t), t.packet_queue[i])]
             u == [t EXCEPT !.packet_queue = <<>>]
  <2>1. r.tunn = u /\ r.out = o
    BY <1>2 DEF Flushed, Result
  <2>2. SameTunnel(t, u)
    BY QueuedSame
  <2>3. \A s, p : Seal(s, p).type = "data" /\ Seal(s, p).key = s.key
    BY DEF Seal, DataMsg
  <2>4. \A i \in DOMAIN o : o[i].type = "data" /\ o[i].key = CurrentSession(t).key
    BY <2>3
  <2> HIDE DEF r, o, u
  <2>5. Quiet(t, r)
    BY <1>2, <2>1, <2>2, <2>4 DEF Quiet
  <2> QED
    BY <2>5 DEF r
<1>3. CASE t.packet_queue # <<>> /\ CurrentSession(t) = NoSession
  <2>1. Quiet(t, first) \/ Starts(t, first, k)
    BY <1>3, SendQueuedShape
  <2>2. r = IF first.out = <<>> THEN first
            ELSE Result(SendQueued(first.tunn, k).tunn, first.out)
    BY <1>3 DEF Flushed
  <2>3. r.out = first.out
    BY <2>2 DEF Result
  <2>4. first.out \in Seq(Message)
    BY <2>3, FlushedGood DEF Sendable
  <2>5. first.tunn \in TunnType /\ first.tunn.packet_queue # <<>>
    <3> DEFINE u == [t EXCEPT !.packet_queue = Tail(@)]
               p == Head(t.packet_queue)
    <3>1. u \in TunnType /\ p \in Payloads /\ CurrentSession(u) = NoSession
      BY <1>3, TailType DEF CurrentSession
    <3>2. first = Encapsulated(u, p, k)
      BY DEF SendQueued
    <3> HIDE DEF u, p, first, r
    <3>3. DrawnIn(Encapsulated(u, p, k).out) \subseteq Ephemerals
      BY <2>3, <3>2 DEF r
    <3> QED
      BY <3>1, <3>2, <3>3, EncapsulatedGood
  <2>6. CASE Quiet(t, first)
    <3>1. DOMAIN first.out = {}
      BY <1>3, <2>6 DEF Quiet
    <3> HIDE DEF first
    <3>2. first.out = <<>>
      <4>1. Len(first.out) \in Nat /\ DOMAIN first.out = 1..Len(first.out)
        BY <2>4, LenProperties
      <4>2. Len(first.out) = 0
        <5>1. 1 \notin 1..Len(first.out)
          BY <3>1, <4>1
        <5> QED
          BY <4>1, <5>1
      <4> QED
        BY <2>4, <4>2, EmptySeq
    <3> QED
      BY <2>2, <2>6, <3>2
  <2>7. CASE Starts(t, first, k)
    <3> DEFINE u == first.tunn
               v == [u EXCEPT !.packet_queue = Tail(@)]
               w == QueuePacket(v, Head(u.packet_queue))
    <3> HIDE DEF first
    <3>1. first.out # <<>>
      BY <2>7 DEF Starts
    <3>2. r.tunn = Encapsulated(v, Head(u.packet_queue), k).tunn
      BY <2>2, <3>1 DEF Result, SendQueued
    <3>3. SameTunnel(u, v) /\ v \in TunnType
      BY <2>5, QueuedSame, TailType
    <3>4. CurrentSession(u) = NoSession /\ InProgress(u)
      BY <1>3, <2>7, StateType DEF Starts, CurrentSession, InProgress
    <3> HIDE DEF u, v
    <3>5. SameTunnel(v, w)
      BY <3>3, QueuedSame
    <3>6. CurrentSession(v) = NoSession /\ InProgress(w)
      BY <3>3, <3>4, <3>5 DEF SameTunnel, CurrentSession, InProgress
    <3>7. r.tunn = w
      BY <3>2, <3>6 DEF Encapsulated, StartIfIdle, Result
    <3> HIDE DEF r, w
    <3>8. SameTunnel(u, r.tunn)
      BY <3>3, <3>5, <3>7 DEF SameTunnel
    <3>9. Starts(t, r, k)
      BY <2>3, <2>7, <3>8 DEF Starts, SameTunnel, u
    <3> QED
      BY <3>9 DEF r
  <2> QED
    BY <2>1, <2>6, <2>7 DEF first
<1> QED
  BY <1>1, <1>2, <1>3

-----------------------------------------------------------------------------
(* What a handler leaves and sends, seen from what was claimed before it.   *)

\* Starting from the claims C and the open ephemerals E, the only claims that
\* are new, N, are about ephemerals drawn on the way.
Effect(e, C, E, r, N) ==
    /\ TunnelClaims(e, r.tunn) \subseteq C \cup N
    /\ QueueClaims(e, r.out) \subseteq C \cup N
    /\ Agree(N)
    /\ \A c \in N : c.eph \in DrawnIn(r.out)
    /\ OpenEphs(r.tunn) \subseteq E \cup DrawnIn(r.out)
    /\ InPlace(r.tunn) /\ Apart(r.tunn)
    /\ Distinct(r.out)

\* An ephemeral that is really drawn was not used before.
LEMMA DrawnFresh ==
    ASSUME NEW X, NEW k \in Drawn(Fresh \ X), k \in Ephemerals
    PROVE  k \notin used /\ k \notin X
<1>1. CASE Fresh \ X = {}
  <2>1. k = 0
    BY <1>1 DEF Drawn
  <2> QED
    BY <2>1, TunnAssumption DEF Ephemerals
<1>2. CASE Fresh \ X # {}
  BY <1>2 DEF Drawn, Fresh
<1> QED
  BY <1>1, <1>2

\* The handshakes and the sessions are all a tunnel claims something with.
LEMMA SameClaims ==
    ASSUME NEW e, NEW t, NEW u,
           u.state = t.state, u.previous = t.previous, u.sessions = t.sessions
    PROVE  /\ TunnelClaims(e, u) = TunnelClaims(e, t)
           /\ OpenEphs(u) = OpenEphs(t)
           /\ Apart(t) => Apart(u)
           /\ InPlace(t) => InPlace(u)
BY DEF TunnelClaims, OpenEphs, Apart, InPlace

\* The claims and draws of sequences one after the other.
LEMMA ConcatClaims ==
    ASSUME NEW e, NEW x \in Seq(Message), NEW y \in Seq(Message)
    PROVE  /\ QueueClaims(e, x \o y) \subseteq QueueClaims(e, x) \cup QueueClaims(e, y)
           /\ DrawnIn(x \o y) = DrawnIn(x) \cup DrawnIn(y)
           /\ \A i, j \in DOMAIN (x \o y) :
                 /\ \A k \in DOMAIN x : x[k].type # "init"
                 /\ \A k, n \in DOMAIN y : y[k].type = "init" /\ y[n].type = "init" => k = n
                 /\ (x \o y)[i].type = "init" /\ (x \o y)[j].type = "init"
                 => i = j
<1> DEFINE z == x \o y
<1>1. /\ z \in Seq(Message) /\ Len(z) = Len(x) + Len(y)
      /\ \A i \in 1..Len(x) + Len(y) :
            z[i] = IF i <= Len(x) THEN x[i] ELSE y[i - Len(x)]
  BY ConcatProperties
<1>2. /\ DOMAIN x = 1..Len(x) /\ DOMAIN y = 1..Len(y) /\ DOMAIN z = 1..Len(z)
      /\ Len(x) \in Nat /\ Len(y) \in Nat
  BY <1>1, LenProperties
<1>3. DrawnIn(z) = DrawnIn(x) \cup DrawnIn(y)
  BY DrawnInConcatParts
<1> HIDE DEF z
<1>4. ASSUME NEW i \in DOMAIN z
      PROVE  /\ i \in Int
             /\ i <= Len(x) => i \in DOMAIN x /\ z[i] = x[i]
             /\ ~(i <= Len(x)) => i - Len(x) \in DOMAIN y /\ z[i] = y[i - Len(x)]
  <2>1. i \in 1..(Len(x) + Len(y))
    BY <1>1, <1>2
  <2>2. z[i] = IF i <= Len(x) THEN x[i] ELSE y[i - Len(x)]
    BY <1>1, <2>1
  <2> QED
    BY <1>2, <2>1, <2>2
<1>5. ASSUME NEW c \in QueueClaims(e, z) PROVE c \in QueueClaims(e, x) \cup QueueClaims(e, y)
  <2>1. PICK i \in DOMAIN z : c \in MessageClaims(e, z[i])
    BY <1>5 DEF QueueClaims
  <2>2. CASE i <= Len(x)
    BY <1>4, <2>1, <2>2, QueueClaimsIs
  <2>3. CASE ~(i <= Len(x))
    BY <1>4, <2>1, <2>3, QueueClaimsIs
  <2> QED
    BY <2>2, <2>3
<1>6. ASSUME NEW i \in DOMAIN z, NEW j \in DOMAIN z, \A k \in DOMAIN x : x[k].type # "init",
             \A k, n \in DOMAIN y : y[k].type = "init" /\ y[n].type = "init" => k = n,
             z[i].type = "init", z[j].type = "init"
      PROVE  i = j
  <2>1. ~(i <= Len(x)) /\ ~(j <= Len(x))
    BY <1>4, <1>6
  <2>2. i - Len(x) = j - Len(x)
    BY <1>4, <1>6, <2>1
  <2> QED
    BY <1>2, <1>4, <2>2
<1> QED
  BY <1>3, <1>5, <1>6 DEF z

\* A handler that has come to u and has out0 to send goes on with what f sends.
LEMMA SendsEffect ==
    ASSUME NEW e, NEW C, NEW E, NEW N0, NEW u \in TunnType, NEW out0 \in Seq(Message),
           NEW k, NEW f, f.out \in Seq(Message), Quiet(u, f) \/ Starts(u, f, k),
           TunnelClaims(e, u) \subseteq C \cup N0, QueueClaims(e, out0) \subseteq C \cup N0,
           Agree(N0), \A c \in N0 : c.eph \in DrawnIn(out0),
           \A i \in DOMAIN out0 : out0[i].type # "init",
           InPlace(u), Apart(u), OpenEphs(u) \subseteq E,
           k \in DrawnIn(f.out) => k \notin E /\ k \notin DrawnIn(out0)
    PROVE  \E N : Effect(e, C, E, Result(f.tunn, out0 \o f.out), N)
<1> DEFINE out == out0 \o f.out
           r == Result(f.tunn, out)
           i == IncIndex(u.next_index)
           c == Begun(e, k, i)
<1>1. r.tunn = f.tunn /\ r.out = out
  BY DEF Result
<1>2. CASE Quiet(u, f)
  <2>1. \A j \in DOMAIN f.out : f.out[j].type = "data"
    BY <1>2 DEF Quiet
  <2>2. QueueClaims(e, f.out) = {} /\ DrawnIn(f.out) = {}
    BY <2>1 DEF QueueClaims, MessageClaims, DrawnIn
  <2>3. TunnelClaims(e, f.tunn) = TunnelClaims(e, u) /\ OpenEphs(f.tunn) = OpenEphs(u)
        /\ Apart(f.tunn) /\ InPlace(f.tunn)
    BY <1>2, SameClaims DEF Quiet, SameTunnel
  <2>4. /\ QueueClaims(e, out) \subseteq QueueClaims(e, out0)
        /\ DrawnIn(out) = DrawnIn(out0) /\ Distinct(out)
    <3>1. \A j, n \in DOMAIN f.out : f.out[j].type = "init" /\ f.out[n].type = "init" => j = n
      BY <2>1
    <3>2. \A j, n \in DOMAIN out : out[j].type = "init" /\ out[n].type = "init" => j = n
      BY <3>1, ConcatClaims
    <3>3. /\ QueueClaims(e, out) \subseteq QueueClaims(e, out0) \cup QueueClaims(e, f.out)
          /\ DrawnIn(out) = DrawnIn(out0) \cup DrawnIn(f.out)
      BY ConcatClaims
    <3> HIDE DEF out
    <3> QED
      BY <2>2, <3>2, <3>3 DEF Distinct
  <2> HIDE DEF r, out
  <2>5. Effect(e, C, E, r, N0)
    BY <1>1, <2>3, <2>4 DEF Effect
  <2> QED
    BY <2>5 DEF r, out
<1>3. CASE Starts(u, f, k)
  <2>1. f.out = <<InitMsg(i, k)>>
    BY <1>3 DEF Starts
  <2>2. DOMAIN f.out = {1} /\ f.out[1] = InitMsg(i, k)
    BY <2>1
  <2>3. DrawnIn(f.out) = {k} /\ QueueClaims(e, f.out) = {c}
    BY <2>2 DEF DrawnIn, QueueClaims, MessageClaims, InitMsg
  <2>4. /\ QueueClaims(e, out) \subseteq C \cup N0 \cup {c}
        /\ DrawnIn(out) = DrawnIn(out0) \cup {k} /\ Distinct(out)
    BY <2>2, <2>3, ConcatClaims DEF Distinct
  <2>5. f.tunn.state = InitSent(i, k) /\ f.tunn.previous = u.state /\ f.tunn.sessions = u.sessions
    BY <1>3 DEF Starts
  <2>6. TunnelClaims(e, f.tunn) \subseteq TunnelClaims(e, u) \cup {c}
    <3>1. HandshakeClaims(e, InitSent(i, k)) = {c}
      BY DEF HandshakeClaims, InitSent
    <3> HIDE DEF c, i
    <3> QED
      BY <2>5, <3>1 DEF TunnelClaims
  <2>7. OpenEphs(f.tunn) \subseteq OpenEphs(u) \cup {k}
    BY <2>5 DEF OpenEphs, InitSent
  <2>8. InPlace(f.tunn)
    BY <2>5 DEF InPlace
  <2>9. Apart(f.tunn)
    <3>1. k \notin OpenEphs(u)
      BY <2>3
    <3> QED
      BY <2>5, <3>1 DEF Apart, OpenEphs, InitSent
  <2>10. c.eph = k /\ \A d \in N0 : d.eph # k
    BY <2>3 DEF Begun
  <2> HIDE DEF r, out, c, i
  <2>11. Agree(N0 \cup {c})
    BY <2>10 DEF Agree
  <2>12. Effect(e, C, E, r, N0 \cup {c})
    BY <1>1, <2>4, <2>6, <2>7, <2>8, <2>9, <2>10, <2>11 DEF Effect
  <2> QED
    BY <2>12 DEF r, out
<1> QED
  BY <1>2, <1>3

\* What a handler leaves and sends when the flush loop follows what r did.
FlushFits(r, k) ==
    LET f == Flushed(r.tunn, k)
        all == ThenFlush(r, k)
    IN  /\ all = Result(f.tunn, r.out \o f.out)
        /\ all.out = r.out \o f.out
        /\ all.out \in Seq(Message) /\ f.out \in Seq(Message)
        /\ DrawnIn(all.out) = DrawnIn(r.out) \cup DrawnIn(f.out)
        /\ DrawnIn(f.out) \subseteq Ephemerals
        /\ \A x \in DrawnIn(f.out) : x = k
        /\ Quiet(r.tunn, f) \/ Starts(r.tunn, f, k)

\* What is sent after the answer comes after it.
LEMMA FlushClaims ==
    ASSUME NEW r, r.tunn \in TunnType, r.out \in Seq(Message), NEW k,
           DrawnIn(ThenFlush(r, k).out) \subseteq Ephemerals
    PROVE  FlushFits(r, k)
<1> DEFINE u == r.tunn
           f == Flushed(u, k)
           all == ThenFlush(r, k)
<1>1. all = Result(f.tunn, r.out \o f.out)
  BY DEF ThenFlush
<1> HIDE DEF all, u
<1>2. all.out = r.out \o f.out
  BY <1>1 DEF Result
<1>3. DrawnIn(f.out) \subseteq Ephemerals
  <2>1. f.out \in Seq(Flushable(k))
    BY FlushedSeq DEF u
  <2>2. r.out \in Seq(Flushable(k))
    <3>1. Message \subseteq Flushable(k)
      BY DEF Flushable
    <3> QED
      BY <3>1, SeqMonotonic
  <2>3. DrawnIn(r.out \o f.out) \subseteq Ephemerals
    BY <1>2 DEF all
  <2> HIDE DEF f
  <2> QED
    BY <2>1, <2>2, <2>3, DrawnInConcat
<1>4. f.out \in Seq(Message) /\ (Quiet(u, f) \/ Starts(u, f, k))
  BY <1>3, FlushedGood, FlushedShape DEF Sendable, u
<1> HIDE DEF f
<1>5. \A x \in DrawnIn(f.out) : x = k
  <2>1. CASE Quiet(u, f)
    BY <2>1 DEF Quiet, DrawnIn
  <2>2. CASE Starts(u, f, k)
    BY <2>2 DEF Starts, DrawnIn, InitMsg
  <2> QED
    BY <1>4, <2>1, <2>2
<1>6. /\ r.out \o f.out \in Seq(Message)
      /\ DrawnIn(r.out \o f.out) = DrawnIn(r.out) \cup DrawnIn(f.out)
  BY <1>4, ConcatProperties, ConcatClaims
<1> QED
  BY <1>1, <1>2, <1>3, <1>4, <1>5, <1>6 DEF FlushFits, f, u, all

-----------------------------------------------------------------------------
(* Steps keep the handshakes apart.                                        *)

\* Everything a tunnel holds or has under way is among the claims.
LEMMA ClaimsAre ==
    ASSUME NEW e \in Endpoints
    PROVE  TunnelClaims(e, tunn[e]) \subseteq Claims /\ QueueClaims(Peer(e), net[e]) \subseteq Claims
BY DEF Claims, EndClaims, Endpoints

\* So is the handshake that an initiation under way belongs to.
LEMMA InitClaims ==
    ASSUME PairInv, NEW e \in Endpoints, NEW i \in DOMAIN net[e], net[e][i].type = "init"
    PROVE  Begun(Peer(e), net[e][i].eph, net[e][i].sender) \in Claims
<1>1. MessageClaims(Peer(e), net[e][i]) \subseteq Claims
  BY ClaimsAre, QueueClaimsIs
<1> QED
  BY <1>1 DEF MessageClaims

\* A handshake under way is claimed.
LEMMA OpenClaims ==
    ASSUME NEW e, NEW t, NEW k \in OpenEphs(t)
    PROVE  \E i : Begun(e, k, i) \in TunnelClaims(e, t)
BY DEF OpenEphs, TunnelClaims, HandshakeClaims

\* A step of e that has the effect described keeps the invariant.
LEMMA StepPair ==
    ASSUME PairInv, Inv', NEW e \in Endpoints, NEW r, NEW N, NEW E, NEW mine \in Seq(Message),
           Becomes(e, r, mine), r.out \in Seq(Message),
           Effect(e, Claims, E, r, N), DrawnIn(r.out) \cap used = {},
           QueueClaims(Peer(e), mine) \subseteq QueueClaims(Peer(e), net[e]),
           Distinct(mine),
           E \cap Spent(derived'[e]) = {},
           LiveEphs(mine) \cap Spent(derived'[e]) = {},
           Spent(derived'[e]) \subseteq used,
           derived'[Peer(e)] = derived[Peer(e)],
           \A j, k \in derived'[e] : j[1] = k[1] => j = k
    PROVE  PairInv'
<1> DEFINE f == Peer(e)
           K == DrawnIn(r.out)
           post == Post(net[f], r.out)
<1>1. f \in Endpoints /\ f # e /\ Peer(f) = e /\ \A g \in Endpoints : g = e \/ g = f
  BY TunnAssumption DEF Endpoints, Peer
<1>2. TypeOK /\ Handshakes /\ OneKeyPerInitiation
  BY DEF PairInv, Inv
<1>3. /\ tunn \in [Endpoints -> TunnType] /\ net \in [Endpoints -> Seq(Message)]
  BY <1>2 DEF TypeOK
<1>4. /\ tunn'[e] = r.tunn /\ tunn'[f] = tunn[f]
      /\ used' = used \cup K
  BY <1>1, <1>3 DEF Becomes
<1>5. net'[e] = mine /\ net'[f] = post
  <2>1. net' = [[net EXCEPT ![e] = mine] EXCEPT ![f] = post]
    BY <1>1, <1>3 DEF Becomes
  <2> HIDE DEF f, post
  <2> QED
    BY <1>1, <1>3, <2>1
<1>6. net[f] \in Seq(Message)
  BY <1>1, <1>3
<1> HIDE DEF f, K, post
<1>7. /\ QueueClaims(e, post) \subseteq QueueClaims(e, net[f]) \cup QueueClaims(e, r.out)
      /\ LiveEphs(post) \subseteq LiveEphs(net[f]) \cup LiveEphs(r.out)
  BY <1>6, PostClaims DEF post
<1>8. /\ TunnelClaims(e, r.tunn) \subseteq Claims \cup N
      /\ QueueClaims(e, r.out) \subseteq Claims \cup N
      /\ Agree(N) /\ \A c \in N : c.eph \in K
      /\ OpenEphs(r.tunn) \subseteq E \cup K
      /\ InPlace(r.tunn) /\ Apart(r.tunn) /\ Distinct(r.out)
  BY DEF Effect, K
<1>9. /\ TunnelClaims(f, tunn[f]) \subseteq Claims /\ QueueClaims(e, net[f]) \subseteq Claims
      /\ QueueClaims(f, mine) \subseteq Claims
  <2>1. TunnelClaims(f, tunn[f]) \subseteq Claims /\ QueueClaims(e, net[f]) \subseteq Claims
    BY <1>1, ClaimsAre
  <2>2. QueueClaims(f, net[e]) \subseteq Claims
    BY ClaimsAre DEF f
  <2>3. QueueClaims(f, mine) \subseteq QueueClaims(f, net[e])
    BY DEF f
  <2> QED
    BY <2>1, <2>2, <2>3
<1>10. Claims' \subseteq Claims \cup N
  <2> SUFFICES ASSUME NEW c \in Claims' PROVE c \in Claims \cup N
    OBVIOUS
  <2>1. \/ \E g \in Endpoints : c \in TunnelClaims(g, tunn'[g])
        \/ \E g \in Endpoints : c \in QueueClaims(Peer(g), net'[g])
    BY DEF Claims, EndClaims, Endpoints
  <2>2. \/ c \in TunnelClaims(e, r.tunn) \/ c \in TunnelClaims(f, tunn[f])
        \/ c \in QueueClaims(f, mine) \/ c \in QueueClaims(e, post)
    BY <1>1, <1>4, <1>5, <2>1 DEF f
  <2> QED
    BY <1>7, <1>8, <1>9, <2>2
<1>11. Agree(Claims')
  BY <1>2, <1>8, <1>10 DEF Agree, Handshakes, K
<1>12. \A c \in Claims' : c.eph \in used'
  BY <1>2, <1>4, <1>8, <1>10 DEF Handshakes
<1>13. ASSUME NEW g \in Endpoints
       PROVE  InPlace(tunn'[g]) /\ Apart(tunn'[g])
  BY <1>1, <1>2, <1>4, <1>8 DEF Handshakes
<1>14. \A i \in DOMAIN r.out : r.out[i].type = "init" => r.out[i].eph \in K
  BY DEF DrawnIn, K
<1>15. LiveEphs(r.out) \subseteq K
  BY <1>14 DEF LiveEphs
<1>16. \A i \in DOMAIN net[f] : net[f][i].type = "init" => net[f][i].eph \in used
  <2> SUFFICES ASSUME NEW i \in DOMAIN net[f], net[f][i].type = "init"
               PROVE  net[f][i].eph \in used
    OBVIOUS
  <2>1. Begun(Peer(f), net[f][i].eph, net[f][i].sender) \in Claims
    BY <1>1, InitClaims
  <2> QED
    BY <1>2, <2>1 DEF Handshakes, Begun
<1>17. K \cap used = {}
  BY DEF K
<1>18. Distinct(net'[e]) /\ Distinct(net'[f])
  <2>1. Distinct(net[f])
    BY <1>1, <1>2 DEF Handshakes
  <2>2. \A i \in DOMAIN net[f], j \in DOMAIN r.out :
            net[f][i].type = "init" /\ r.out[j].type = "init" => net[f][i].eph # r.out[j].eph
    BY <1>14, <1>16, <1>17
  <2>3. Distinct(post)
    BY <1>6, <1>8, <2>1, <2>2, PostClaims DEF post
  <2> QED
    BY <1>5, <2>3
<1>19. /\ OpenEphs(tunn'[e]) \cap Spent(derived'[e]) = {}
       /\ LiveEphs(net'[e]) \cap Spent(derived'[e]) = {}
       /\ Spent(derived'[e]) \subseteq used'
  BY <1>4, <1>5, <1>8, <1>17
<1>20. /\ OpenEphs(tunn'[f]) \cap Spent(derived'[f]) = {}
       /\ LiveEphs(net'[f]) \cap Spent(derived'[f]) = {}
       /\ Spent(derived'[f]) \subseteq used'
  <2>1. /\ OpenEphs(tunn[f]) \cap Spent(derived[f]) = {}
        /\ LiveEphs(net[f]) \cap Spent(derived[f]) = {}
        /\ Spent(derived[f]) \subseteq used
    BY <1>1, <1>2 DEF Handshakes
  <2>2. derived'[f] = derived[f]
    BY DEF f
  <2> QED
    BY <1>4, <1>5, <1>7, <1>15, <1>17, <2>1, <2>2
<1>21. Handshakes'
  BY <1>1, <1>11, <1>12, <1>13, <1>18, <1>19, <1>20 DEF Handshakes
<1>22. OneKeyPerInitiation'
  BY <1>1, <1>2 DEF OneKeyPerInitiation, f
<1> QED
  BY <1>21, <1>22 DEF PairInv

\* Of the messages under way, one may be taken.
LEMMA TakenClaims ==
    ASSUME NEW e, NEW q \in Seq(Message), NEW i \in DOMAIN q, NEW copied
    PROVE  /\ QueueClaims(e, Taken(q, i, copied)) \subseteq QueueClaims(e, q)
           /\ LiveEphs(Taken(q, i, copied)) \subseteq LiveEphs(q)
           /\ Distinct(q) => Distinct(Taken(q, i, copied))
BY RemoveAtClaims DEF Taken

\* The parts of a tunnel that only forget.
Forgets(e, t, u) ==
    /\ TunnelClaims(e, u) \subseteq TunnelClaims(e, t)
    /\ OpenEphs(u) \subseteq OpenEphs(t)
    /\ InPlace(t) => InPlace(u)
    /\ Apart(t) => Apart(u)

\* So is a session of the ring.
LEMMA SessionsClaimed ==
    ASSUME NEW e, NEW t, NEW i \in Slots
    PROVE  SessionClaims(e, t.sessions[i]) \subseteq TunnelClaims(e, t)
BY DEF TunnelClaims

\* Ageing sessions takes claims away only.
LEMMA AgedForgets ==
    ASSUME NEW e, NEW t \in TunnType
    PROVE  Forgets(e, t, Aged(t))
<1> DEFINE u == Aged(t)
<1>1. u.state = t.state /\ u.previous = t.previous
  BY DEF Aged, TunnType
<1>2. \A i \in Slots : u.sessions[i] \in {t.sessions[i], NoSession}
  BY DEF Aged, TunnType
<1> HIDE DEF u
<1>3. ASSUME NEW i \in Slots PROVE SessionClaims(e, u.sessions[i]) \subseteq TunnelClaims(e, t)
  <2>1. SessionClaims(e, NoSession) = {}
    BY DEF SessionClaims
  <2> QED
    BY <1>2, <2>1, SessionsClaimed
<1>4. TunnelClaims(e, u) \subseteq TunnelClaims(e, t)
  <2>1. /\ HandshakeClaims(e, u.state) \subseteq TunnelClaims(e, t)
        /\ HandshakeClaims(e, u.previous) \subseteq TunnelClaims(e, t)
    BY <1>1 DEF TunnelClaims
  <2> QED
    BY <1>3, <2>1 DEF TunnelClaims
<1>5. OpenEphs(u) = OpenEphs(t) /\ (Apart(t) => Apart(u))
  BY <1>1 DEF OpenEphs, Apart
<1>6. InPlace(t) => InPlace(u)
  BY <1>2 DEF InPlace
<1> QED
  BY <1>4, <1>5, <1>6 DEF Forgets, u

\* So does giving up a connection.
LEMMA GivenUpForgets ==
    ASSUME NEW e, NEW t \in TunnType
    PROVE  Forgets(e, t, GivenUp(t))
<1> DEFINE v == SetExpired(t)
           u == GivenUp(t)
<1>1. v \in TunnType /\ v.state = Expired /\ v.previous = Expired
  BY StateType DEF SetExpired, TunnType
<1>2. u = ClearAll(v)
  BY DEF GivenUp
<1> HIDE DEF u, v
<1>3. u.state = Expired /\ u.previous = Expired /\ \A i \in Slots : u.sessions[i] = NoSession
  BY <1>1, <1>2 DEF ClearAll, TunnType
<1>4. \A i \in Slots : SessionClaims(e, u.sessions[i]) = {}
  BY <1>3 DEF SessionClaims
<1>5. TunnelClaims(e, u) = {}
  BY <1>3, <1>4, StateType DEF TunnelClaims, HandshakeClaims
<1>6. OpenEphs(u) = {} /\ Apart(u) /\ InPlace(u)
  BY <1>3, StateType DEF OpenEphs, Apart, InPlace
<1> QED
  BY <1>5, <1>6 DEF Forgets, u

\* A step that derives no key: it forgets, and then sends or starts a handshake.
LEMMA PlainPair ==
    ASSUME PairInv, Inv', NEW e \in Endpoints, NEW u \in TunnType,
           Forgets(e, tunn[e], u), NEW k, NEW r, r.out \in Seq(Message),
           Quiet(u, r) \/ (k \in Drawn(Fresh) /\ Starts(u, r, k)),
           NEW mine \in Seq(Message), Becomes(e, r, mine),
           QueueClaims(Peer(e), mine) \subseteq QueueClaims(Peer(e), net[e]),
           LiveEphs(mine) \subseteq LiveEphs(net[e]), Distinct(mine),
           derived' = derived
    PROVE  PairInv'
<1> DEFINE E == OpenEphs(tunn[e])
           r0 == Result(r.tunn, <<>> \o r.out)
<1>1. Handshakes /\ OneKeyPerInitiation
  BY DEF PairInv
<1>2. /\ InPlace(tunn[e]) /\ Apart(tunn[e])
      /\ E \cap Spent(derived[e]) = {}
      /\ LiveEphs(net[e]) \cap Spent(derived[e]) = {}
      /\ Spent(derived[e]) \subseteq used
  BY <1>1 DEF Handshakes
<1>3. DrawnIn(r.out) \subseteq Ephemerals
  BY DEF Becomes
<1>4. ASSUME NEW x \in DrawnIn(r.out) PROVE x = k /\ x \notin used
  <2>1. CASE Quiet(u, r)
    BY <1>4, <2>1 DEF Quiet, DrawnIn
  <2>2. CASE k \in Drawn(Fresh) /\ Starts(u, r, k)
    <3>1. x = k
      BY <1>4, <2>2 DEF Starts, DrawnIn, InitMsg
    <3>2. k \in Drawn(Fresh \ {})
      BY <2>2 DEF Fresh
    <3> QED
      BY <1>3, <1>4, <3>1, <3>2, DrawnFresh
  <2> QED
    BY <2>1, <2>2
<1>5. E \subseteq used
  <2> SUFFICES ASSUME NEW x \in E PROVE x \in used
    OBVIOUS
  <2>1. PICK i : Begun(e, x, i) \in TunnelClaims(e, tunn[e])
    BY OpenClaims
  <2> QED
    BY <1>1, <2>1, ClaimsAre DEF Handshakes, Begun
<1>6. TunnelClaims(e, u) \subseteq Claims /\ OpenEphs(u) \subseteq E /\ InPlace(u) /\ Apart(u)
  BY <1>2, ClaimsAre DEF Forgets
<1> HIDE DEF E
<1>7. \E N : Effect(e, Claims, E, r0, N)
  <2>1. /\ <<>> \in Seq(Message) /\ QueueClaims(e, <<>>) = {} /\ DrawnIn(<<>>) = {}
        /\ DOMAIN <<>> = {} /\ Agree({})
    BY EmptySeq DEF QueueClaims, DrawnIn, Agree
  <2>2. Quiet(u, r) \/ Starts(u, r, k)
    OBVIOUS
  <2>3. k \in DrawnIn(r.out) => k \notin E /\ k \notin {}
    BY <1>4, <1>5
  <2> DEFINE N0 == {}
             out0 == <<>>
  <2>4. /\ out0 \in Seq(Message) /\ TunnelClaims(e, u) \subseteq Claims \cup N0
        /\ QueueClaims(e, out0) \subseteq Claims \cup N0 /\ Agree(N0)
        /\ \A c \in N0 : c.eph \in DrawnIn(out0)
        /\ \A i \in DOMAIN out0 : out0[i].type # "init"
        /\ k \in DrawnIn(r.out) => k \notin E /\ k \notin DrawnIn(out0)
    BY <1>6, <2>1, <2>3
  <2> HIDE DEF N0, out0
  <2>5. \E N : Effect(e, Claims, E, Result(r.tunn, out0 \o r.out), N)
    BY <1>6, <2>2, <2>4, SendsEffect
  <2> QED
    BY <2>5 DEF out0
<1>8. <<>> \o r.out = r.out
  BY ConcatEmptySeq
<1>9. PICK N : Effect(e, Claims, E, r, N)
  BY <1>7, <1>8 DEF Effect, Result
<1>10. /\ DrawnIn(r.out) \cap used = {}
       /\ E \cap Spent(derived'[e]) = {}
       /\ LiveEphs(mine) \cap Spent(derived'[e]) = {}
       /\ Spent(derived'[e]) \subseteq used
       /\ derived'[Peer(e)] = derived[Peer(e)]
       /\ \A j, n \in derived'[e] : j[1] = n[1] => j = n
  BY <1>1, <1>2, <1>4 DEF E, OneKeyPerInitiation
<1> QED
  BY <1>9, <1>10, StepPair

\* A session in the ring is claimed with the others.
LEMMA StoredClaims ==
    ASSUME NEW e, NEW t \in TunnType, NEW s \in SessionType
    PROVE  LET u == StoreSession(t, s) IN
           /\ TunnelClaims(e, u) \subseteq TunnelClaims(e, t) \cup SessionClaims(e, s)
           /\ OpenEphs(u) = OpenEphs(t)
           /\ Apart(t) => Apart(u)
           /\ InPlace(t) => InPlace(u)
<1> DEFINE u == StoreSession(t, s)
<1>1. u.state = t.state /\ u.previous = t.previous
  BY StoreSessionType
<1>2. \A i \in Slots : u.sessions[i] = IF i = Slot(s.local) THEN s ELSE t.sessions[i]
  BY DEF StoreSession, TunnType
<1> HIDE DEF u
<1>3. ASSUME NEW i \in Slots
      PROVE  SessionClaims(e, u.sessions[i]) \subseteq TunnelClaims(e, t) \cup SessionClaims(e, s)
  BY <1>2, SessionsClaimed
<1>4. /\ HandshakeClaims(e, u.state) \subseteq TunnelClaims(e, t)
      /\ HandshakeClaims(e, u.previous) \subseteq TunnelClaims(e, t)
  BY <1>1 DEF TunnelClaims
<1>5. TunnelClaims(e, u) \subseteq TunnelClaims(e, t) \cup SessionClaims(e, s)
  BY <1>3, <1>4 DEF TunnelClaims
<1>6. OpenEphs(u) = OpenEphs(t) /\ (Apart(t) => Apart(u))
  BY <1>1 DEF OpenEphs, Apart
<1>7. InPlace(t) => InPlace(u)
  BY <1>2 DEF InPlace
<1> QED
  BY <1>5, <1>6, <1>7 DEF u

\* A response and the session it makes claim the same; of the handshakes of the
\* responder the latest stays open.
RespondedFits(e, t, m, k) ==
    LET r == Responded(t, m, k)
        b == Begun(Peer(e), m.eph, m.sender)
        c == Replied(e, k, IncIndex(t.next_index), m.eph, m.sender)
    IN  /\ r.tunn \in TunnType /\ r.out \in Seq(Message)
        /\ TunnelClaims(e, r.tunn) \subseteq TunnelClaims(e, t) \cup {b, c}
        /\ QueueClaims(e, r.out) = {b, c}
        /\ DrawnIn(r.out) = {k}
        /\ \A i \in DOMAIN r.out : r.out[i].type # "init"
        /\ OpenEphs(r.tunn) \subseteq OpenEphs(t)
        /\ Apart(r.tunn) /\ InPlace(r.tunn)

LEMMA RespondedClaims ==
    ASSUME NEW e, NEW t \in TunnType, InPlace(t), NEW m \in Message, m.type = "init",
           NEW k \in Ephemerals
    PROVE  RespondedFits(e, t, m, k)
<1> DEFINE i == IncIndex(t.next_index)
           s == [local |-> i, peer |-> m.sender, key |-> <<m.eph, k>>, initiator |-> FALSE]
           v == [t EXCEPT !.next_index = i, !.previous = t.state, !.state = None]
           u == StoreSession(v, s)
           reply == ResponseMsg(i, m.sender, m.eph, k)
           out == <<reply>>
           b == Begun(Peer(e), m.eph, m.sender)
           c == Replied(e, k, i, m.eph, m.sender)
<1>1. Responded(t, m, k).tunn = u /\ Responded(t, m, k).out = out
  BY DEF Responded, Result
<1>2. i \in Indices /\ m.sender \in Indices /\ m.eph \in Ephemerals
  BY IncIndexType DEF Message, TunnType
<1> HIDE DEF i
<1>3. s \in SessionType /\ s # NoSession
  <2>1. s \in SessionType
    BY <1>2 DEF SessionType, Key
  <2> HIDE DEF s
  <2> QED
    BY <2>1, NoSessionIsNone
<1>4. reply \in Message
  BY <1>2 DEF ResponseMsg, Message
<1>5. v \in TunnType /\ v.state = None /\ v.previous = t.state /\ v.sessions = t.sessions
  BY <1>2, StateType DEF TunnType
<1>6. SessionClaims(e, s) = {b, c}
  BY <1>3 DEF SessionClaims, KeyClaims
<1>7. /\ reply.type = "response" /\ reply.eph = k /\ MessageClaims(e, reply) = {b, c}
  BY DEF ResponseMsg, MessageClaims, KeyClaims
<1>8. DOMAIN out = {1} /\ out[1] = reply
  OBVIOUS
<1> HIDE DEF s, v, u, reply, out, b, c
<1>9. u \in TunnType
  BY <1>3, <1>5, StoreSessionType DEF u
<1>10. out \in Seq(Message)
  BY <1>4 DEF out
<1>11. QueueClaims(e, out) = {b, c} /\ DrawnIn(out) = {k} /\ \A j \in DOMAIN out : out[j].type # "init"
  BY <1>7, <1>8 DEF QueueClaims, DrawnIn
<1>12. /\ TunnelClaims(e, v) \subseteq TunnelClaims(e, t) /\ OpenEphs(v) \subseteq OpenEphs(t)
       /\ Apart(v) /\ InPlace(v)
  <2>1. HandshakeClaims(e, None) = {}
    BY StateType DEF HandshakeClaims
  <2>2. TunnelClaims(e, v) \subseteq TunnelClaims(e, t)
    BY <1>5, <2>1 DEF TunnelClaims
  <2>3. OpenEphs(v) \subseteq OpenEphs(t) /\ Apart(v)
    BY <1>5, StateType DEF OpenEphs, Apart
  <2> QED
    BY <1>5, <2>2, <2>3 DEF InPlace
<1>13. /\ TunnelClaims(e, u) \subseteq TunnelClaims(e, v) \cup {b, c}
       /\ OpenEphs(u) = OpenEphs(v) /\ Apart(u) /\ InPlace(u)
  BY <1>3, <1>5, <1>6, <1>12, StoredClaims DEF u
<1> QED
  BY <1>1, <1>9, <1>10, <1>11, <1>12, <1>13 DEF RespondedFits, b, c, i

\* A response that is accepted ends its handshake, and its session claims what
\* the response did.
EstablishedFits(e, t, m) ==
    LET r == Established(t, m) IN
    /\ r.tunn \in TunnType /\ r.out \in Seq(Message)
    /\ TunnelClaims(e, r.tunn) \subseteq TunnelClaims(e, t) \cup MessageClaims(Peer(e), m)
    /\ \A i \in DOMAIN r.out : r.out[i].type = "data"
    /\ OpenEphs(r.tunn) \subseteq OpenEphs(t) \ {m.answers}
    /\ m.answers \in OpenEphs(t)
    /\ Apart(r.tunn) /\ InPlace(r.tunn)

LEMMA EstablishedClaims ==
    ASSUME NEW e \in Endpoints, NEW t \in TunnType, InPlace(t), Apart(t),
           NEW m \in Message, m.type = "response", Opens(t, m)
    PROVE  EstablishedFits(e, t, m)
<1> DEFINE s == [local |-> m.receiver, peer |-> m.sender,
                 key |-> <<m.answers, m.eph>>, initiator |-> TRUE]
           v == Answered(t, m)
           w == StoreSession(v, s)
           u == SetCurrent(w, s.local)
           hello == Seal(s, KeepAlive)
           out == <<hello>>
<1>1. Established(t, m).tunn = u /\ Established(t, m).out = out
  BY DEF Established, Result
<1>2. /\ m.receiver \in Indices /\ m.sender \in Indices
      /\ m.answers \in Ephemerals /\ m.eph \in Ephemerals
  BY DEF Message
<1>3. s \in SessionType /\ s # NoSession /\ s.local \in Indices
  <2>1. s \in SessionType /\ s.local \in Indices
    BY <1>2 DEF SessionType, Key
  <2> HIDE DEF s
  <2> QED
    BY <2>1, NoSessionIsNone
<1>4. hello \in Message /\ hello.type = "data"
  <2> HIDE DEF s
  <2>1. KeepAlive \in Payloads
    BY DEF Payloads
  <2> QED
    BY <1>3, <2>1, SealType
<1>5. SessionClaims(e, s) = MessageClaims(Peer(e), m)
  <2>1. Peer(Peer(e)) = e
    BY TunnAssumption DEF Endpoints, Peer
  <2> QED
    BY <1>3, <2>1 DEF SessionClaims, MessageClaims
<1>6. DOMAIN out = {1} /\ out[1] = hello
  OBVIOUS
<1>7. /\ v \in TunnType /\ v.sessions = t.sessions
      /\ \/ /\ t.state.tag = "InitSent" /\ t.state.eph = m.answers
            /\ v.state = None /\ v.previous = t.previous
         \/ /\ t.previous.tag = "InitSent" /\ t.previous.eph = m.answers
            /\ v.state = t.state /\ v.previous = None
  BY StateType DEF Opens, Awaited, IsSent, Answered, TunnType
<1> HIDE DEF s, v, w, u, hello, out
<1>8. w \in TunnType
  BY <1>3, <1>7, StoreSessionType DEF w
<1>9. /\ u \in TunnType /\ u.state = w.state /\ u.previous = w.previous
      /\ u.sessions = w.sessions
  BY <1>3, <1>8, SetCurrentType DEF u
<1>10. out \in Seq(Message) /\ \A i \in DOMAIN out : out[i].type = "data"
  BY <1>4, <1>6 DEF out
<1>11. /\ TunnelClaims(e, v) \subseteq TunnelClaims(e, t) /\ Apart(v) /\ InPlace(v)
       /\ OpenEphs(v) \subseteq OpenEphs(t) \ {m.answers} /\ m.answers \in OpenEphs(t)
  <2>1. HandshakeClaims(e, None) = {}
    BY StateType DEF HandshakeClaims
  <2>2. TunnelClaims(e, v) \subseteq TunnelClaims(e, t)
    BY <1>7, <2>1 DEF TunnelClaims
  <2>3. Apart(v)
    BY <1>7, StateType DEF Apart
  <2>4. m.answers \in OpenEphs(t)
    BY <1>7 DEF OpenEphs
  <2>5. OpenEphs(v) \subseteq OpenEphs(t) \ {m.answers}
    BY <1>7, StateType DEF Apart, OpenEphs
  <2> QED
    BY <1>7, <2>2, <2>3, <2>4, <2>5 DEF InPlace
<1>12. /\ TunnelClaims(e, w) \subseteq TunnelClaims(e, v) \cup SessionClaims(e, s)
       /\ OpenEphs(w) = OpenEphs(v) /\ Apart(w) /\ InPlace(w)
  BY <1>3, <1>7, <1>11, StoredClaims DEF w
<1>13. TunnelClaims(e, u) = TunnelClaims(e, w) /\ OpenEphs(u) = OpenEphs(w) /\ Apart(u) /\ InPlace(u)
  BY <1>9, <1>12, SameClaims
<1> QED
  BY <1>1, <1>5, <1>9, <1>10, <1>11, <1>12, <1>13 DEF EstablishedFits

\* A key that is derived spends the initiator's ephemeral.
LEMMA SpentGrows ==
    ASSUME NEW keys, NEW j, NEW k
    PROVE  Spent(keys \cup {<<j, k>>}) = Spent(keys) \cup {j}
<1>1. <<j, k>>[1] = j
  OBVIOUS
<1> DEFINE key == <<j, k>>
<1>2. key[1] = j
  BY <1>1
<1> HIDE DEF key
<1>3. Spent(keys \cup {key}) = Spent(keys) \cup {j}
  BY <1>2 DEF Spent
<1> QED
  BY <1>3 DEF key

\* An initiation that is accepted was never answered before at this end, and
\* none of the handshakes that this end began has its ephemeral.
LEMMA ReceiveInitPair ==
    ASSUME PairInv, Inv', NEW e \in Endpoints, NEW i \in DOMAIN net[e],
           NEW copied \in BOOLEAN, ReceiveInit(e, i, copied)
    PROVE  PairInv'
<1> DEFINE m == net[e][i]
           t == tunn[e]
           old == Outdated(net[e], i)
           mine == Taken(old, i, copied)
           E == OpenEphs(t)
<1>1. TypeOK /\ Handshakes /\ OneKeyPerInitiation
  BY DEF PairInv, Inv
<1>2. net[e] \in Seq(Message) /\ t \in TunnType
  BY <1>1 DEF TypeOK
<1>3. m \in Message
  BY <1>2, ElementOfSeq, LenProperties
<1>4. m.type = "init" /\ ~m.stale
  BY DEF ReceiveInit
<1>5. PICK k1 \in Drawn(Fresh) \ {0} :
        /\ \E r \in {ThenFlush(Responded(t, m, k1), k2) :
                        k2 \in Drawn(Fresh \ {k1})} : Becomes(e, r, mine)
        /\ Derives(e, <<m.eph, k1>>)
  BY DEF ReceiveInit
<1>6. PICK k2 \in Drawn(Fresh \ {k1}) : Becomes(e, ThenFlush(Responded(t, m, k1), k2), mine)
  BY <1>5
<1>7. k1 \in Ephemerals
  BY <1>5, DrawnType
<1>8. k1 \notin used
  <2>1. k1 \in Drawn(Fresh \ {})
    BY <1>5 DEF Fresh
  <2> QED
    BY <1>7, <2>1, DrawnFresh
<1>9. /\ mine \in Seq(Message)
      /\ QueueClaims(Peer(e), mine) \subseteq QueueClaims(Peer(e), net[e])
      /\ LiveEphs(mine) \subseteq LiveEphs(net[e]) \ {m.eph}
      /\ Distinct(mine)
  <2>1. old \in Seq(Message) /\ DOMAIN old = DOMAIN net[e] /\ Len(old) = Len(net[e])
    BY <1>2, OutdatedType
  <2>2. Distinct(net[e])
    BY <1>1 DEF Handshakes
  <2>3. /\ QueueClaims(Peer(e), old) \subseteq QueueClaims(Peer(e), net[e])
        /\ LiveEphs(old) \subseteq LiveEphs(net[e]) /\ Distinct(old)
        /\ m.eph \notin LiveEphs(old)
    BY <1>2, <1>4, <2>2, OutdatedClaims
  <2> HIDE DEF old, m
  <2>4. mine \in Seq(Message)
    BY <1>1, <2>1, TakenType
  <2> QED
    BY <2>1, <2>3, <2>4, TakenClaims
<1>10. m.eph \in LiveEphs(net[e])
  BY <1>4 DEF LiveEphs
<1> DEFINE b == Begun(Peer(e), m.eph, m.sender)
<1>11. b \in Claims
  BY <1>4, InitClaims
<1>12. /\ TunnelClaims(e, t) \subseteq Claims /\ InPlace(t) /\ Apart(t)
       /\ E \cap Spent(derived[e]) = {} /\ LiveEphs(net[e]) \cap Spent(derived[e]) = {}
       /\ Spent(derived[e]) \subseteq used
  BY <1>1, ClaimsAre DEF Handshakes
<1>13. m.eph \in used
  BY <1>1, <1>11 DEF Handshakes, Begun
<1>14. ASSUME NEW x \in E PROVE x \in used /\ x # m.eph
  <2>1. PICK j : Begun(e, x, j) \in TunnelClaims(e, t)
    BY <1>14, OpenClaims
  <2>2. Begun(e, x, j) \in Claims /\ Begun(e, x, j).eph = x /\ Begun(e, x, j).by = e
    BY <1>12, <2>1 DEF Begun
  <2>3. b.eph = m.eph /\ b.by = Peer(e) /\ Peer(e) # e
    BY PeerType DEF Begun
  <2> HIDE DEF b
  <2> QED
    BY <1>1, <1>11, <2>2, <2>3 DEF Handshakes, Agree
<1> DEFINE r1 == Responded(t, m, k1)
           u == r1.tunn
           c == Replied(e, k1, IncIndex(t.next_index), m.eph, m.sender)
           f == Flushed(u, k2)
           r == ThenFlush(r1, k2)
<1> HIDE DEF m, t, mine
<1>15. /\ u \in TunnType /\ r1.out \in Seq(Message)
       /\ TunnelClaims(e, u) \subseteq TunnelClaims(e, t) \cup {b, c}
       /\ QueueClaims(e, r1.out) = {b, c}
       /\ DrawnIn(r1.out) = {k1}
       /\ \A j \in DOMAIN r1.out : r1.out[j].type # "init"
       /\ OpenEphs(u) \subseteq E
       /\ Apart(u) /\ InPlace(u)
  <2>1. InPlace(t)
    BY <1>12
  <2>2. RespondedFits(e, t, m, k1)
    BY <1>2, <1>3, <1>4, <1>7, <2>1, RespondedClaims
  <2> QED
    BY <2>2 DEF RespondedFits
<1>16. c.eph = k1
  BY DEF Replied
<1>17. FlushFits(r1, k2)
  <2>1. DrawnIn(r.out) \subseteq Ephemerals
    BY <1>6 DEF Becomes
  <2> HIDE DEF r1, u
  <2> QED
    BY <1>15, <2>1, FlushClaims DEF u
<1> HIDE DEF r1, u, b, c, E, r
<1>18. /\ r = Result(f.tunn, r1.out \o f.out)
       /\ r.out \in Seq(Message) /\ f.out \in Seq(Message)
       /\ DrawnIn(r.out) = DrawnIn(r1.out) \cup DrawnIn(f.out)
       /\ DrawnIn(f.out) \subseteq Ephemerals
       /\ \A x \in DrawnIn(f.out) : x = k2
       /\ Quiet(u, f) \/ Starts(u, f, k2)
  BY <1>17 DEF FlushFits, u, r
<1>19. k2 \in DrawnIn(f.out) => k2 \notin used /\ k2 # k1
  BY <1>6, <1>18, DrawnFresh
<1> HIDE DEF f
<1>20. PICK N : Effect(e, Claims, E, r, N)
  <2> DEFINE N0 == {c}
  <2>1. Agree(N0)
    BY DEF Agree
  <2>2. /\ TunnelClaims(e, u) \subseteq Claims \cup N0
        /\ QueueClaims(e, r1.out) \subseteq Claims \cup N0
        /\ \A d \in N0 : d.eph \in DrawnIn(r1.out)
    BY <1>11, <1>12, <1>15, <1>16
  <2>3. k2 \in DrawnIn(f.out) => k2 \notin E /\ k2 \notin DrawnIn(r1.out)
    BY <1>14, <1>15, <1>19
  <2> HIDE DEF N0
  <2>4. \E N : Effect(e, Claims, E, Result(f.tunn, r1.out \o f.out), N)
    BY <1>15, <1>18, <2>1, <2>2, <2>3, SendsEffect
  <2> QED
    BY <1>18, <2>4
<1>21. r.out \in Seq(Message) /\ DrawnIn(r.out) \cap used = {}
  BY <1>8, <1>15, <1>18, <1>19
<1>22. /\ derived'[e] = derived[e] \cup {<<m.eph, k1>>}
       /\ derived'[Peer(e)] = derived[Peer(e)]
  BY <1>1, <1>5, PeerType DEF Derives, TypeOK
<1>23. Spent(derived'[e]) = Spent(derived[e]) \cup {m.eph}
  <2>1. Spent(derived[e] \cup {<<m.eph, k1>>}) = Spent(derived[e]) \cup {m.eph}
    BY SpentGrows
  <2> QED
    BY <1>22, <2>1, Zenon
<1>24. /\ E \cap Spent(derived'[e]) = {}
       /\ LiveEphs(mine) \cap Spent(derived'[e]) = {}
       /\ Spent(derived'[e]) \subseteq used
  BY <1>9, <1>12, <1>13, <1>14, <1>23
<1>25. \A j, n \in derived'[e] : j[1] = n[1] => j = n
  <2>1. \A j \in derived[e] : j[1] # m.eph
    BY <1>10, <1>12 DEF Spent
  <2>2. \A j, n \in derived[e] : j[1] = n[1] => j = n
    BY <1>1 DEF OneKeyPerInitiation
  <2> QED
    BY <1>22, <2>1, <2>2
<1>26. Becomes(e, r, mine)
  BY <1>6 DEF r1, r
<1> QED
  BY <1>9, <1>20, <1>21, <1>22, <1>24, <1>25, <1>26, StepPair

\* A response that is accepted answers a handshake that led to no key before.
LEMMA ReceiveResponsePair ==
    ASSUME PairInv, Inv', NEW e \in Endpoints, NEW i \in DOMAIN net[e],
           NEW copied \in BOOLEAN, ReceiveResponse(e, i, copied)
    PROVE  PairInv' /\ <<net[e][i].answers, net[e][i].eph>> \notin derived[e]
<1> DEFINE m == net[e][i]
           t == tunn[e]
           mine == Taken(net[e], i, copied)
<1>1. TypeOK /\ Handshakes /\ OneKeyPerInitiation
  BY DEF PairInv, Inv
<1>2. net[e] \in Seq(Message) /\ t \in TunnType
  BY <1>1 DEF TypeOK
<1>3. m \in Message
  BY <1>2, ElementOfSeq, LenProperties
<1>4. /\ m.type = "response" /\ Opens(t, m)
      /\ Derives(e, <<m.answers, m.eph>>)
  BY DEF ReceiveResponse
<1>5. PICK k \in Drawn(Fresh) : Becomes(e, ThenFlush(Established(t, m), k), mine)
  BY DEF ReceiveResponse
<1>6. /\ TunnelClaims(e, t) \subseteq Claims /\ InPlace(t) /\ Apart(t) /\ Distinct(net[e])
      /\ OpenEphs(t) \cap Spent(derived[e]) = {} /\ LiveEphs(net[e]) \cap Spent(derived[e]) = {}
      /\ Spent(derived[e]) \subseteq used
  BY <1>1, ClaimsAre DEF Handshakes
<1>7. MessageClaims(Peer(e), m) \subseteq Claims
  BY ClaimsAre, QueueClaimsIs
<1>8. ASSUME NEW x \in LiveEphs(net[e]) PROVE \E j : Begun(Peer(e), x, j) \in Claims
  <2>1. PICK n \in DOMAIN net[e] : net[e][n].type = "init" /\ x = net[e][n].eph
    BY <1>8 DEF LiveEphs
  <2> QED
    BY <2>1, InitClaims
<1>9. /\ mine \in Seq(Message)
      /\ QueueClaims(Peer(e), mine) \subseteq QueueClaims(Peer(e), net[e])
      /\ LiveEphs(mine) \subseteq LiveEphs(net[e])
      /\ Distinct(mine)
  <2>1. mine \in Seq(Message)
    BY <1>1, <1>2, TakenType
  <2> QED
    BY <1>2, <1>6, <2>1, TakenClaims
<1> DEFINE r1 == Established(t, m)
           u == r1.tunn
           E == OpenEphs(u)
           f == Flushed(u, k)
           r == ThenFlush(r1, k)
<1> HIDE DEF m, t, mine
<1>10. /\ u \in TunnType /\ r1.out \in Seq(Message)
       /\ TunnelClaims(e, u) \subseteq TunnelClaims(e, t) \cup MessageClaims(Peer(e), m)
       /\ \A j \in DOMAIN r1.out : r1.out[j].type = "data"
       /\ OpenEphs(u) \subseteq OpenEphs(t) \ {m.answers}
       /\ m.answers \in OpenEphs(t)
       /\ Apart(u) /\ InPlace(u)
  <2>1. InPlace(t) /\ Apart(t)
    BY <1>6
  <2>2. EstablishedFits(e, t, m)
    BY <1>2, <1>3, <1>4, <2>1, EstablishedClaims
  <2> QED
    BY <2>2 DEF EstablishedFits
<1>11. FlushFits(r1, k)
  <2>1. DrawnIn(r.out) \subseteq Ephemerals
    BY <1>5 DEF Becomes
  <2> HIDE DEF r1, u
  <2> QED
    BY <1>10, <2>1, FlushClaims DEF u
<1> HIDE DEF r1, u, E, r
<1>12. QueueClaims(e, r1.out) = {} /\ DrawnIn(r1.out) = {}
  BY <1>10 DEF QueueClaims, MessageClaims, DrawnIn
<1>13. /\ r = Result(f.tunn, r1.out \o f.out)
       /\ r.out \in Seq(Message) /\ f.out \in Seq(Message)
       /\ DrawnIn(r.out) = DrawnIn(f.out)
       /\ DrawnIn(f.out) \subseteq Ephemerals
       /\ \A x \in DrawnIn(f.out) : x = k
       /\ Quiet(u, f) \/ Starts(u, f, k)
  BY <1>11, <1>12 DEF FlushFits, u, r
<1>14. k \in DrawnIn(f.out) => k \notin used
  <2>1. k \in Drawn(Fresh \ {})
    BY <1>5 DEF Fresh
  <2> QED
    BY <1>13, <2>1, DrawnFresh
<1> HIDE DEF f
<1>15. ASSUME NEW x \in OpenEphs(t)
       PROVE  x \in used /\ x \notin LiveEphs(net[e]) /\ x \notin Spent(derived[e])
  <2>1. PICK j : Begun(e, x, j) \in TunnelClaims(e, t)
    BY <1>15, OpenClaims
  <2>2. Begun(e, x, j) \in Claims /\ Begun(e, x, j).eph = x /\ Begun(e, x, j).by = e
    BY <1>6, <2>1 DEF Begun
  <2>3. ASSUME x \in LiveEphs(net[e]) PROVE FALSE
    <3>1. PICK n : Begun(Peer(e), x, n) \in Claims
      BY <1>8, <2>3
    <3>2. Begun(Peer(e), x, n).eph = x /\ Begun(Peer(e), x, n).by = Peer(e) /\ Peer(e) # e
      BY PeerType DEF Begun
    <3> QED
      BY <1>1, <2>2, <3>1, <3>2 DEF Handshakes, Agree
  <2> QED
    BY <1>1, <1>6, <1>15, <2>2, <2>3 DEF Handshakes
<1>16. PICK N : Effect(e, Claims, E, r, N)
  <2> DEFINE N0 == {}
  <2>1. Agree(N0)
    BY DEF Agree
  <2>2. /\ TunnelClaims(e, u) \subseteq Claims \cup N0
        /\ QueueClaims(e, r1.out) \subseteq Claims \cup N0
        /\ \A d \in N0 : d.eph \in DrawnIn(r1.out)
    BY <1>6, <1>7, <1>10, <1>12
  <2>3. k \in DrawnIn(f.out) => k \notin E /\ k \notin DrawnIn(r1.out)
    BY <1>10, <1>12, <1>14, <1>15 DEF E
  <2>4. \A j \in DOMAIN r1.out : r1.out[j].type # "init"
    BY <1>10
  <2>5. OpenEphs(u) \subseteq E
    BY DEF E
  <2> HIDE DEF N0
  <2>6. \E N : Effect(e, Claims, E, Result(f.tunn, r1.out \o f.out), N)
    BY <1>10, <1>13, <2>1, <2>2, <2>3, <2>4, <2>5, SendsEffect
  <2> QED
    BY <1>13, <2>6
<1>17. r.out \in Seq(Message) /\ DrawnIn(r.out) \cap used = {}
  BY <1>13, <1>14
<1>18. /\ derived'[e] = derived[e] \cup {<<m.answers, m.eph>>}
       /\ derived'[Peer(e)] = derived[Peer(e)]
  BY <1>1, <1>4, PeerType DEF Derives, TypeOK
<1>19. Spent(derived'[e]) = Spent(derived[e]) \cup {m.answers}
  <2>1. Spent(derived[e] \cup {<<m.answers, m.eph>>}) = Spent(derived[e]) \cup {m.answers}
    BY SpentGrows
  <2> QED
    BY <1>18, <2>1, Zenon
<1>20. /\ E \cap Spent(derived'[e]) = {}
       /\ LiveEphs(mine) \cap Spent(derived'[e]) = {}
       /\ Spent(derived'[e]) \subseteq used
  BY <1>6, <1>9, <1>10, <1>15, <1>19 DEF E
<1>21. \A j \in derived[e] : j[1] # m.answers
  BY <1>10, <1>15 DEF Spent
<1>22. \A j, n \in derived'[e] : j[1] = n[1] => j = n
  <2>1. \A j, n \in derived[e] : j[1] = n[1] => j = n
    BY <1>1 DEF OneKeyPerInitiation
  <2> QED
    BY <1>18, <1>21, <2>1
<1>23. Becomes(e, r, mine)
  BY <1>5 DEF r1, r
<1>24. PairInv'
  BY <1>9, <1>16, <1>17, <1>18, <1>20, <1>22, <1>23, StepPair
<1>25. <<m.answers, m.eph>> \notin derived[e]
  BY <1>21
<1> QED
  BY <1>24, <1>25 DEF m

\* Reading data may change which session is current.
LEMMA ReceiveDataPair ==
    ASSUME PairInv, Inv', NEW e \in Endpoints, NEW i \in DOMAIN net[e], ReceiveData(e, i)
    PROVE  PairInv'
<1> DEFINE m == net[e][i]
           t == tunn[e]
           u == SetCurrent(t, m.receiver)
           r == Result(u, <<>>)
           mine == Taken(net[e], i, FALSE)
<1>1. TypeOK /\ Handshakes
  BY DEF PairInv, Inv
<1>2. net[e] \in Seq(Message) /\ t \in TunnType /\ Distinct(net[e])
  BY <1>1 DEF TypeOK, Handshakes
<1>3. m \in Message /\ m.type = "data" /\ Becomes(e, r, mine) /\ derived' = derived
  BY <1>2, ElementOfSeq, LenProperties DEF ReceiveData
<1>4. m.receiver \in Indices
  BY <1>3 DEF Message
<1>5. /\ mine \in Seq(Message)
      /\ QueueClaims(Peer(e), mine) \subseteq QueueClaims(Peer(e), net[e])
      /\ LiveEphs(mine) \subseteq LiveEphs(net[e])
      /\ Distinct(mine)
  BY <1>1, <1>2, TakenType, TakenClaims
<1> HIDE DEF m, t, mine
<1>6. u \in TunnType /\ Forgets(e, t, u)
  BY <1>2, <1>4, SetCurrentType, SameClaims DEF Forgets
<1> HIDE DEF u
<1>7. r.out \in Seq(Message) /\ Quiet(u, r)
  BY EmptySeq DEF Result, Quiet, SameTunnel
<1> HIDE DEF r
<1> QED
  BY <1>3, <1>5, <1>6, <1>7, PlainPair DEF t

\* A message less is a claim less.
LEMMA LosePair ==
    ASSUME PairInv, Inv', NEW e \in Endpoints, NEW i \in DOMAIN net[e], Lose(e, i)
    PROVE  PairInv'
<1> DEFINE mine == RemoveAt(net[e], i)
           f == Peer(e)
<1>1. TypeOK /\ Handshakes /\ OneKeyPerInitiation
  BY DEF PairInv, Inv
<1>2. net \in [Endpoints -> Seq(Message)]
  BY <1>1 DEF TypeOK
<1>3. /\ net' = [net EXCEPT ![e] = mine] /\ tunn' = tunn /\ used' = used /\ derived' = derived
  BY DEF Lose, histories
<1>4. Distinct(net[e])
  BY <1>1 DEF Handshakes
<1>5. /\ QueueClaims(f, mine) \subseteq QueueClaims(f, net[e])
      /\ LiveEphs(mine) \subseteq LiveEphs(net[e]) /\ Distinct(mine)
  BY <1>2, <1>4, RemoveAtClaims
<1> HIDE DEF mine
<1>6. f \in Endpoints /\ f # e /\ Peer(f) = e /\ \A g \in Endpoints : g = e \/ g = f
  BY TunnAssumption DEF Endpoints, Peer
<1>7. net'[e] = mine /\ net'[f] = net[f]
  BY <1>2, <1>3, <1>6
<1>8. Claims' \subseteq Claims
  <2> SUFFICES ASSUME NEW c \in Claims' PROVE c \in Claims
    OBVIOUS
  <2>1. PICK g \in Endpoints : c \in TunnelClaims(g, tunn'[g]) \cup QueueClaims(Peer(g), net'[g])
    BY DEF Claims, EndClaims, Endpoints
  <2>2. /\ TunnelClaims(g, tunn[g]) \subseteq Claims
        /\ QueueClaims(Peer(g), net[g]) \subseteq Claims
    BY ClaimsAre
  <2> QED
    BY <1>3, <1>5, <1>6, <1>7, <2>1, <2>2
<1>9. Agree(Claims') /\ \A c \in Claims' : c.eph \in used'
  BY <1>1, <1>3, <1>8 DEF Agree, Handshakes
<1>10. ASSUME NEW g \in Endpoints
       PROVE  /\ Distinct(net'[g]) /\ LiveEphs(net'[g]) \subseteq LiveEphs(net[g])
  BY <1>1, <1>5, <1>6, <1>7 DEF Handshakes
<1>11. Handshakes'
  BY <1>1, <1>3, <1>9, <1>10 DEF Handshakes
<1>12. OneKeyPerInitiation'
  BY <1>1, <1>3 DEF OneKeyPerInitiation
<1> QED
  BY <1>11, <1>12 DEF PairInv

\* A step that sends or starts a handshake takes no message.
LEMMA SendingPair ==
    ASSUME PairInv, Inv', NEW e \in Endpoints, NEW u \in TunnType,
           Forgets(e, tunn[e], u), NEW k, NEW r, r.out \in Seq(Message),
           Quiet(u, r) \/ (k \in Drawn(Fresh) /\ Starts(u, r, k)),
           Becomes(e, r, net[e]), derived' = derived
    PROVE  PairInv'
<1>1. net[e] \in Seq(Message) /\ Distinct(net[e])
  BY DEF PairInv, Handshakes, Inv, TypeOK
<1> QED
  BY <1>1, PlainPair

LEMMA EncapsulatePair ==
    ASSUME PairInv, Inv', NEW e \in Endpoints, NEW p \in Packets, Encapsulate(e, p)
    PROVE  PairInv'
<1> DEFINE t == tunn[e]
<1>1. t \in TunnType
  BY DEF PairInv, Inv, TypeOK
<1>2. PICK k \in Drawn(Fresh) : Becomes(e, Encapsulated(t, p, k), net[e])
  BY DEF Encapsulate
<1>3. derived' = derived
  BY DEF Encapsulate
<1> DEFINE r == Encapsulated(t, p, k)
<1> HIDE DEF t
<1>4. p \in Payloads
  BY DEF Payloads
<1>5. DrawnIn(r.out) \subseteq Ephemerals
  BY <1>2 DEF Becomes
<1>6. r.out \in Seq(Message) /\ (Quiet(t, r) \/ Starts(t, r, k))
  BY <1>1, <1>4, <1>5, EncapsulatedGood, EncapsulatedShape DEF Sendable
<1> HIDE DEF r
<1>7. Forgets(e, t, t)
  BY DEF Forgets
<1> QED
  BY <1>1, <1>2, <1>3, <1>6, <1>7, SendingPair DEF t, r

LEMMA UpdateTimersPair ==
    ASSUME PairInv, Inv', NEW e \in Endpoints, UpdateTimers(e)
    PROVE  PairInv'
<1> DEFINE t == Aged(tunn[e])
<1>1. tunn[e] \in TunnType /\ Good(tunn[e])
  BY InvIsGood DEF PairInv, Good
<1>2. t \in TunnType /\ Forgets(e, tunn[e], t)
  BY <1>1, AgedGood, AgedForgets DEF Good
<1> HIDE DEF t
<1>3. \A u : LET r == Result(u, <<>>) IN r.out \in Seq(Message) /\ Quiet(u, r)
  BY EmptySeq DEF Result, Quiet, SameTunnel
<1>4. CASE Idle(e)
  <2>1. Becomes(e, Result(t, <<>>), net[e]) /\ derived' = derived
    BY <1>4 DEF Idle, Ages, t
  <2> QED
    BY <1>2, <1>3, <2>1, SendingPair
<1>5. CASE ConnectionExpired(e)
  <2> DEFINE u == GivenUp(t)
  <2>1. Becomes(e, Result(u, <<>>), net[e]) /\ derived' = derived
    BY <1>5 DEF ConnectionExpired, Ages, t
  <2>2. u \in TunnType /\ Forgets(e, t, u)
    BY <1>2, GivenUpGood, GivenUpForgets DEF Good
  <2> HIDE DEF u
  <2>3. Forgets(e, tunn[e], u)
    BY <1>2, <2>2 DEF Forgets
  <2> QED
    BY <1>3, <2>1, <2>2, <2>3, SendingPair
<1>6. ASSUME NEW k \in Drawn(Fresh), Ages(e, StartHandshake(t, k))
      PROVE  PairInv'
  <2> DEFINE r == StartHandshake(t, k)
  <2>1. Becomes(e, r, net[e]) /\ derived' = derived
    BY <1>6 DEF Ages
  <2>2. DrawnIn(r.out) \subseteq Ephemerals
    BY <2>1 DEF Becomes
  <2>3. r.out \in Seq(Message) /\ Starts(t, r, k)
    BY <1>2, <2>2, StartHandshakeGood, StartHandshakeStarts DEF Sendable
  <2> HIDE DEF r
  <2> QED
    BY <1>2, <2>1, <2>3, SendingPair
<1>7. CASE RekeyTimeout(e)
  BY <1>6, <1>7 DEF RekeyTimeout, t
<1>8. CASE Rekey(e)
  BY <1>6, <1>8 DEF Rekey, t
<1>9. CASE SendKeepalive(e)
  <2>1. PICK k \in Drawn(Fresh) : Ages(e, Encapsulated(t, KeepAlive, k))
    BY <1>9 DEF SendKeepalive, t
  <2> DEFINE r == Encapsulated(t, KeepAlive, k)
  <2>2. Becomes(e, r, net[e]) /\ derived' = derived
    BY <2>1 DEF Ages
  <2>3. KeepAlive \in Payloads
    BY DEF Payloads
  <2>4. DrawnIn(r.out) \subseteq Ephemerals
    BY <2>2 DEF Becomes
  <2>5. r.out \in Seq(Message) /\ (Quiet(t, r) \/ Starts(t, r, k))
    BY <1>2, <2>3, <2>4, EncapsulatedGood, EncapsulatedShape DEF Sendable
  <2> HIDE DEF r
  <2> QED
    BY <1>2, <2>1, <2>2, <2>5, SendingPair
<1> QED
  BY <1>4, <1>5, <1>7, <1>8, <1>9 DEF UpdateTimers

LEMMA InitPair == Init => PairInv
<1> SUFFICES ASSUME Init PROVE PairInv
  OBVIOUS
<1>1. Inv
  BY InitInv
<1>2. /\ \A e \in Endpoints : tunn[e] = NewTunn /\ net[e] = <<>> /\ derived[e] = {}
      /\ DOMAIN <<>> = {}
  BY DEF Init
<1>3. /\ NewTunn.state = None /\ NewTunn.previous = None
      /\ \A i \in Slots : NewTunn.sessions[i] = NoSession
  BY DEF NewTunn
<1>4. \A e : TunnelClaims(e, NewTunn) = {}
  <2>1. \A e : \A i \in Slots : SessionClaims(e, NewTunn.sessions[i]) = {}
    BY <1>3 DEF SessionClaims
  <2> QED
    BY <1>3, <2>1, StateType DEF TunnelClaims, HandshakeClaims
<1>5. InPlace(NewTunn) /\ Apart(NewTunn) /\ OpenEphs(NewTunn) = {}
  BY <1>3, StateType DEF InPlace, Apart, OpenEphs
<1>6. Distinct(<<>>) /\ LiveEphs(<<>>) = {} /\ Spent({}) = {} /\ \A e : QueueClaims(e, <<>>) = {}
  BY <1>2 DEF Distinct, LiveEphs, Spent, QueueClaims
<1>7. Claims = {}
  BY <1>2, <1>4, <1>6 DEF Claims, EndClaims, Endpoints
<1>8. Handshakes
  BY <1>2, <1>5, <1>6, <1>7 DEF Handshakes, Agree
<1>9. OneKeyPerInitiation
  BY <1>2 DEF OneKeyPerInitiation
<1> QED
  BY <1>1, <1>8, <1>9 DEF PairInv

LEMMA NextPair == PairInv /\ [Next]_vars => PairInv'
<1> SUFFICES ASSUME PairInv, [Next]_vars PROVE PairInv'
  OBVIOUS
<1>1. Inv'
  BY NextInv DEF PairInv
<1>2. CASE UNCHANGED vars
  BY <1>1, <1>2 DEF vars, histories, PairInv, OneKeyPerInitiation, Handshakes, Claims, EndClaims
<1>3. ASSUME NEW e \in Endpoints, NEW p \in Packets, Encapsulate(e, p)
      PROVE  PairInv'
  BY <1>1, <1>3, EncapsulatePair
<1>4. ASSUME NEW e \in Endpoints, NEW i \in DOMAIN net[e], NEW copied \in BOOLEAN,
             Receive(e, i, copied)
      PROVE  PairInv'
  BY <1>1, <1>4, ReceiveInitPair, ReceiveResponsePair, ReceiveDataPair DEF Receive
<1>5. ASSUME NEW e \in Endpoints, NEW i \in DOMAIN net[e], Lose(e, i)
      PROVE  PairInv'
  BY <1>1, <1>5, LosePair
<1>6. ASSUME NEW e \in Endpoints, UpdateTimers(e)
      PROVE  PairInv'
  BY <1>1, <1>6, UpdateTimersPair
<1> QED
  BY <1>2, <1>3, <1>4, <1>5, <1>6 DEF Next

\* Sessions that hold one key agree on who drew its two halves and for which
\* indices: they are the two ends of one handshake.
LEMMA PairInvPairs == PairInv => SessionsPair
<1> SUFFICES ASSUME PairInv,
                    NEW e \in Endpoints, NEW f \in Endpoints, NEW i \in Slots, NEW j \in Slots,
                    tunn[e].sessions[i] # NoSession, tunn[f].sessions[j] # NoSession,
                    tunn[e].sessions[i].key = tunn[f].sessions[j].key, <<e, i>> # <<f, j>>
             PROVE  /\ e # f
                    /\ tunn[e].sessions[i].local = tunn[f].sessions[j].peer
                    /\ tunn[e].sessions[i].peer = tunn[f].sessions[j].local
                    /\ tunn[e].sessions[i].initiator # tunn[f].sessions[j].initiator
  BY DEF SessionsPair
<1> DEFINE s == tunn[e].sessions[i]
           u == tunn[f].sessions[j]
<1>1. TypeOK /\ Handshakes
  BY DEF PairInv, Inv
<1>2. s \in SessionType /\ u \in SessionType
  BY <1>1 DEF TypeOK, TunnType
<1>3. SessionClaims(e, s) \subseteq Claims /\ SessionClaims(f, u) \subseteq Claims
  BY ClaimsAre, SessionsClaimed
<1>4. Slot(s.local) = i /\ Slot(u.local) = j /\ s # NoSession /\ u # NoSession /\ s.key = u.key
  BY <1>1 DEF Handshakes, InPlace
<1> HIDE DEF s, u
<1>5. ASSUME NEW g, NEW v, v # NoSession, SessionClaims(g, v) \subseteq Claims
      PROVE  /\ v.initiator => /\ Begun(g, v.key[1], v.local) \in Claims
                               /\ Replied(Peer(g), v.key[2], v.peer, v.key[1], v.local) \in Claims
             /\ ~v.initiator => /\ Begun(Peer(g), v.key[1], v.peer) \in Claims
                                /\ Replied(g, v.key[2], v.local, v.key[1], v.peer) \in Claims
  BY <1>5 DEF SessionClaims, KeyClaims
<1>6. \A g, h, k, a, b : Begun(g, k, a) \in Claims /\ Begun(h, k, b) \in Claims => g = h /\ a = b
  BY <1>1 DEF Handshakes, Agree, Begun
<1>7. \A g, h, k, a, b, n, o, x, y :
          Replied(g, k, a, n, x) \in Claims /\ Replied(h, k, b, o, y) \in Claims
            => g = h /\ a = b /\ x = y
  BY <1>1 DEF Handshakes, Agree, Replied
<1>8. s.initiator \in BOOLEAN /\ u.initiator \in BOOLEAN
  BY <1>2 DEF SessionType
<1>9. Peer(e) # e /\ Peer(f) # f /\ (e # f => Peer(e) = f /\ Peer(f) = e)
  BY TunnAssumption DEF Endpoints, Peer
<1>10. CASE s.initiator /\ u.initiator
  <2>1. e = f /\ s.local = u.local
    BY <1>3, <1>4, <1>5, <1>6, <1>10
  <2> QED
    BY <1>4, <2>1
<1>11. CASE ~s.initiator /\ ~u.initiator
  <2>1. e = f /\ s.local = u.local
    BY <1>3, <1>4, <1>5, <1>7, <1>11
  <2> QED
    BY <1>4, <2>1
<1>12. CASE s.initiator /\ ~u.initiator
  <2>1. e = Peer(f) /\ s.local = u.peer
    BY <1>3, <1>4, <1>5, <1>6, <1>12
  <2>2. s.peer = u.local
    BY <1>3, <1>4, <1>5, <1>7, <1>12
  <2> QED
    BY <1>9, <1>12, <2>1, <2>2 DEF s, u
<1>13. CASE ~s.initiator /\ u.initiator
  <2>1. Peer(e) = f /\ s.peer = u.local
    BY <1>3, <1>4, <1>5, <1>6, <1>13
  <2>2. s.local = u.peer
    BY <1>3, <1>4, <1>5, <1>7, <1>13
  <2> QED
    BY <1>9, <1>13, <2>1, <2>2 DEF s, u
<1> QED
  BY <1>8, <1>10, <1>11, <1>12, <1>13

LEMMA PairInvariance == Spec => []PairInv
BY InitPair, NextPair, PTL DEF Spec

\* Crossing, late, lost and repeated handshake messages never mix: two sessions
\* with one key are the two ends of one handshake, with each other's indices and
\* opposite roles, and an initiation leads to one key at each end
\* (receive_handshake_initialization, receive_handshake_response).
THEOREM KeysPaired == Spec => []KeyPairing
<1>1. PairInv => KeyPairing
  BY PairInvPairs DEF PairInv, KeyPairing
<1> QED
  BY <1>1, PairInvariance, PTL

\* No response, however late or often it arrives, makes a session with a key its
\* end has derived before: the packet numbers of a session start at 0, and would
\* be used again (receive_handshake_response forgets the handshake it ends).
THEOREM KeysOnce == Spec => KeysDerivedOnce
<1> DEFINE Once ==
        \A e \in Endpoints : \A i \in DOMAIN net[e] : \A copied \in BOOLEAN :
            ReceiveResponse(e, i, copied) =>
                <<net[e][i].answers, net[e][i].eph>> \notin derived[e]
<1>1. PairInv /\ [Next]_vars => [Once]_vars
  <2> SUFFICES ASSUME PairInv, [Next]_vars,
                      NEW e \in Endpoints, NEW i \in DOMAIN net[e], NEW copied \in BOOLEAN,
                      ReceiveResponse(e, i, copied)
               PROVE  <<net[e][i].answers, net[e][i].eph>> \notin derived[e]
    OBVIOUS
  <2>1. Inv'
    BY NextInv DEF PairInv
  <2> QED
    BY <2>1, ReceiveResponsePair
<1> QED
  BY <1>1, PairInvariance, PTL DEF Spec, KeysDerivedOnce

-----------------------------------------------------------------------------
(* Keys that the peer holds.  An initiator has its key from a response, whose *)
(* sender has derived it; a responder uses its session once it has read data *)
(* under it.  While no index has been used twice, a new session cannot have  *)
(* the index that is current, so the key under the current index stays the   *)
(* one that was heard.                                                       *)

SessionKnown(d, e, s) ==
    s # NoSession => s.key \in d[e] /\ (s.initiator => s.key \in d[Peer(e)])

\* A message of an end that has derived keys.
MessageKnown(keys, m) ==
    /\ m.type = "data" => m.key \in keys
    /\ m.type = "response" => <<m.answers, m.eph>> \in keys

CurrentKnown(d, e, t) ==
    LET s == CurrentSession(t) IN
    s # NoSession /\ s.local = t.current => s.key \in d[Peer(e)]

\* n indices were given out, and nothing has a later one.
Counted(t, n) ==
    /\ t.next_index <= N_INDICES + n
    /\ t.current <= t.next_index
    /\ \A h \in {t.state, t.previous} : h.tag = "InitSent" => h.index <= t.next_index
    /\ \A i \in Slots : t.sessions[i] # NoSession => t.sessions[i].local <= t.next_index

TunnelKnown(d, e, t, n) ==
    /\ \A i \in Slots : SessionKnown(d, e, t.sessions[i])
    /\ CurrentKnown(d, e, t)
    /\ Counted(t, n)

QueueKnown(keys, q) == \A i \in DOMAIN q : MessageKnown(keys, q[i])

SharedInv ==
    /\ PairInv
    /\ \A e \in Endpoints :
        /\ TunnelKnown(derived, e, tunn[e], Cardinality(used))
        /\ QueueKnown(derived[Peer(e)], net[e])

\* What there is to count.
LEMMA CountDrawn ==
    ASSUME NEW U, U \subseteq Ephemerals
    PROVE  /\ Cardinality(U) \in Nat /\ Cardinality(U) <= MaxEphemerals
           /\ \A k \in Ephemerals \ U : Cardinality(U \cup {k}) = Cardinality(U) + 1
<1>1. IsFiniteSet(Ephemerals) /\ Cardinality(Ephemerals) = MaxEphemerals
  BY TunnAssumption, FS_Interval DEF Ephemerals
<1>2. IsFiniteSet(U) /\ Cardinality(U) <= MaxEphemerals
  BY <1>1, FS_Subset
<1> QED
  BY <1>2, FS_CardinalityType, FS_AddElement

\* inc_index counts up as long as it does not come round.
LEMMA NextIndex ==
    ASSUME NEW i \in Indices, NEW n \in Nat, n + 1 < N_INDICES, i <= N_INDICES + n
    PROVE  IncIndex(i) = i + 1
<1>1. N_INDICES \in Nat \ {0} /\ i \in Int /\ N_INDICES <= i
  BY TunnAssumption DEF Indices
<1> DEFINE x == i + 1 - N_INDICES
<1>2. x \in Int /\ 0 <= x /\ x < N_INDICES /\ N_INDICES + x = i + 1
  BY <1>1
<1> HIDE DEF x
<1>3. x % N_INDICES = x
  BY <1>1, <1>2
<1> QED
  BY <1>2, <1>3 DEF IncIndex, x

\* More keys and more indices given out leave a tunnel as good.
LEMMA KnownGrows ==
    ASSUME NEW c, NEW d, \A g \in Endpoints : c[g] \subseteq d[g],
           NEW e \in Endpoints, NEW t \in TunnType, NEW m \in Nat, NEW n \in Nat, m <= n,
           TunnelKnown(c, e, t, m)
    PROVE  TunnelKnown(d, e, t, n)
<1>1. \A i \in Slots : SessionKnown(d, e, t.sessions[i])
  BY PeerType DEF TunnelKnown, SessionKnown
<1>2. CurrentKnown(d, e, t)
  BY PeerType DEF TunnelKnown, CurrentKnown
<1>3. Counted(t, n)
  <2>1. t.next_index \in Int /\ N_INDICES \in Int
    BY TunnAssumption DEF TunnType, Indices
  <2> QED
    BY <2>1 DEF TunnelKnown, Counted
<1> QED
  BY <1>1, <1>2, <1>3 DEF TunnelKnown

\* Sending and starting a handshake.
LEMMA SendsKnown ==
    ASSUME NEW d, NEW e \in Endpoints, NEW u \in TunnType, NEW U, U \subseteq Ephemerals,
           MaxEphemerals < N_INDICES, TunnelKnown(d, e, u, Cardinality(U)),
           NEW k, NEW f, Quiet(u, f) \/ (Starts(u, f, k) /\ k \in Ephemerals \ U)
    PROVE  /\ TunnelKnown(d, e, f.tunn, Cardinality(U \cup DrawnIn(f.out)))
           /\ QueueKnown(d[e], f.out)
<1>1. Slot(u.current) \in Slots
  BY SlotType DEF TunnType
<1>2. CASE Quiet(u, f)
  <2>1. DrawnIn(f.out) = {}
    BY <1>2 DEF Quiet, DrawnIn
  <2>2. U \cup DrawnIn(f.out) = U
    BY <2>1
  <2>3. QueueKnown(d[e], f.out)
    <3> SUFFICES ASSUME NEW i \in DOMAIN f.out PROVE MessageKnown(d[e], f.out[i])
      BY DEF QueueKnown
    <3>1. /\ f.out[i].type = "data" /\ f.out[i].key = CurrentSession(u).key
          /\ CurrentSession(u) # NoSession
      BY <1>2 DEF Quiet
    <3>2. CurrentSession(u).key \in d[e]
      BY <1>1, <3>1 DEF TunnelKnown, SessionKnown, CurrentSession
    <3> QED
      BY <3>1, <3>2 DEF MessageKnown
  <2>4. TunnelKnown(d, e, f.tunn, Cardinality(U))
    BY <1>2 DEF Quiet, SameTunnel, TunnelKnown, CurrentKnown, Counted, CurrentSession
  <2> QED
    BY <2>2, <2>3, <2>4
<1>3. CASE Starts(u, f, k) /\ k \in Ephemerals \ U
  <2> DEFINE i == IncIndex(u.next_index)
             n == Cardinality(U)
  <2>1. f.out = <<InitMsg(i, k)>>
    BY <1>3 DEF Starts
  <2>2. DOMAIN f.out = {1} /\ f.out[1] = InitMsg(i, k)
    BY <2>1
  <2>3. DrawnIn(f.out) = {k} /\ QueueKnown(d[e], f.out)
    BY <2>2 DEF DrawnIn, QueueKnown, MessageKnown, InitMsg
  <2>4. n \in Nat /\ Cardinality(U \cup {k}) = n + 1 /\ n + 1 <= MaxEphemerals
    <3>1. U \cup {k} \subseteq Ephemerals
      BY <1>3
    <3> QED
      BY <1>3, <3>1, CountDrawn
  <2>5. MaxEphemerals \in Nat /\ N_INDICES \in Nat
    BY TunnAssumption
  <2>6. u.next_index \in Indices /\ u.next_index <= N_INDICES + n
    BY DEF TunnelKnown, Counted, TunnType
  <2> HIDE DEF n
  <2>7. i = u.next_index + 1
    BY <2>4, <2>5, <2>6, NextIndex
  <2> HIDE DEF i
  <2>8. /\ f.tunn.state = InitSent(i, k) /\ f.tunn.previous = u.state
        /\ f.tunn.next_index = i /\ f.tunn.sessions = u.sessions /\ f.tunn.current = u.current
    BY <1>3 DEF Starts, i
  <2>9. Counted(f.tunn, n + 1)
    <3>1. Counted(u, n)
      BY DEF TunnelKnown, n
    <3>2. /\ u.next_index \in Int /\ u.current \in Int
          /\ u.state.tag = "InitSent" => u.state.index \in Int
          /\ \A j \in Slots : u.sessions[j] # NoSession => u.sessions[j].local \in Int
      BY TunnAssumption, StateType DEF TunnType, Indices, HandshakeState, SessionType
    <3>3. InitSent(i, k).index = i
      BY DEF InitSent
    <3>4. \A h \in {f.tunn.state, f.tunn.previous} : h.tag = "InitSent" => h.index <= i
      BY <2>7, <2>8, <3>1, <3>2, <3>3 DEF Counted
    <3>5. \A j \in Slots : u.sessions[j] # NoSession => u.sessions[j].local <= i
      BY <2>7, <3>1, <3>2 DEF Counted
    <3>6. i <= N_INDICES + (n + 1) /\ u.current <= i
      BY <2>4, <2>5, <2>6, <2>7, <3>1, <3>2 DEF Counted
    <3> QED
      BY <2>8, <3>4, <3>5, <3>6 DEF Counted
  <2>10. /\ \A j \in Slots : SessionKnown(d, e, f.tunn.sessions[j])
         /\ CurrentKnown(d, e, f.tunn)
    BY <2>8 DEF TunnelKnown, CurrentKnown, CurrentSession
  <2>11. TunnelKnown(d, e, f.tunn, n + 1)
    BY <2>9, <2>10 DEF TunnelKnown
  <2> QED
    BY <2>3, <2>4, <2>11
<1> QED
  BY <1>2, <1>3

\* update_session_timers and the end of a connection forget only.
LEMMA ForgottenKnown ==
    ASSUME NEW d, NEW e \in Endpoints, NEW t \in TunnType, NEW n, TunnelKnown(d, e, t, n)
    PROVE  TunnelKnown(d, e, Aged(t), n) /\ TunnelKnown(d, e, GivenUp(t), n)
<1>1. Slot(t.current) \in Slots
  BY SlotType DEF TunnType
<1>2. SessionKnown(d, e, NoSession)
  BY DEF SessionKnown
<1>3. TunnelKnown(d, e, Aged(t), n)
  <2> DEFINE u == Aged(t)
  <2>1. /\ u.state = t.state /\ u.previous = t.previous /\ u.next_index = t.next_index
        /\ u.current = t.current
    BY DEF Aged, TunnType
  <2>2. \A i \in Slots : u.sessions[i] \in {t.sessions[i], NoSession}
    BY DEF Aged, TunnType
  <2> HIDE DEF u
  <2>3. \A i \in Slots : SessionKnown(d, e, u.sessions[i])
    BY <1>2, <2>2 DEF TunnelKnown
  <2>4. CurrentKnown(d, e, u)
    BY <1>1, <2>1, <2>2 DEF TunnelKnown, CurrentKnown, CurrentSession
  <2>5. Counted(u, n)
    BY <2>1, <2>2 DEF TunnelKnown, Counted
  <2> QED
    BY <2>3, <2>4, <2>5 DEF TunnelKnown, u
<1>4. TunnelKnown(d, e, GivenUp(t), n)
  <2> DEFINE u == GivenUp(t)
             v == SetExpired(t)
  <2>1. /\ v \in TunnType /\ v.state = Expired /\ v.previous = Expired
        /\ v.next_index = t.next_index /\ v.current = t.current
    BY StateType DEF SetExpired, TunnType
  <2>2. u = ClearAll(v)
    BY DEF GivenUp
  <2> HIDE DEF u, v
  <2>3. /\ u.state = Expired /\ u.previous = Expired
        /\ u.next_index = t.next_index /\ u.current = t.current
        /\ \A i \in Slots : u.sessions[i] = NoSession
    BY <2>1, <2>2 DEF ClearAll, TunnType
  <2>4. \A i \in Slots : SessionKnown(d, e, u.sessions[i])
    BY <1>2, <2>3
  <2>5. CurrentKnown(d, e, u)
    BY <1>1, <2>3 DEF CurrentKnown, CurrentSession
  <2>6. Counted(u, n)
    BY <2>3, StateType DEF TunnelKnown, Counted
  <2> QED
    BY <2>4, <2>5, <2>6 DEF TunnelKnown, u
<1> QED
  BY <1>3, <1>4

\* A session becomes current when its peer is known to have the key.
LEMMA CurrentSetKnown ==
    ASSUME NEW d, NEW e \in Endpoints, NEW t \in TunnType, NEW n, NEW index \in Indices,
           TunnelKnown(d, e, t, n),
           t.sessions[Slot(index)] # NoSession,
           t.sessions[Slot(index)].local = index,
           t.sessions[Slot(index)].key \in d[Peer(e)]
    PROVE  TunnelKnown(d, e, SetCurrent(t, index), n)
<1> DEFINE u == SetCurrent(t, index)
<1>1. Slot(index) \in Slots
  BY SlotType
<1>2. /\ u.state = t.state /\ u.previous = t.previous /\ u.next_index = t.next_index
      /\ u.sessions = t.sessions /\ u.current \in {t.current, index}
  BY DEF SetCurrent, TunnType
<1> HIDE DEF u
<1>3. CurrentKnown(d, e, u)
  BY <1>2 DEF TunnelKnown, CurrentKnown, CurrentSession
<1>4. Counted(u, n)
  BY <1>1, <1>2 DEF TunnelKnown, Counted
<1> QED
  BY <1>2, <1>3, <1>4 DEF TunnelKnown, u

\* A session goes into the slot of its index.
LEMMA StoredKnown ==
    ASSUME NEW d, NEW e \in Endpoints, NEW t \in TunnType, NEW n, NEW s \in SessionType,
           TunnelKnown(d, e, t, n), SessionKnown(d, e, s), s.local <= t.next_index,
           s.local # t.current \/ s.key \in d[Peer(e)]
    PROVE  TunnelKnown(d, e, StoreSession(t, s), n)
<1> DEFINE u == StoreSession(t, s)
<1>1. Slot(t.current) \in Slots
  BY SlotType DEF TunnType
<1>2. /\ u.state = t.state /\ u.previous = t.previous /\ u.next_index = t.next_index
      /\ u.current = t.current
      /\ \A i \in Slots : u.sessions[i] \in {t.sessions[i], s}
  BY DEF StoreSession, TunnType
<1> HIDE DEF u
<1>3. \A i \in Slots : SessionKnown(d, e, u.sessions[i])
  BY <1>2 DEF TunnelKnown
<1>4. CurrentKnown(d, e, u)
  BY <1>1, <1>2 DEF TunnelKnown, CurrentKnown, CurrentSession
<1>5. Counted(u, n)
  BY <1>2 DEF TunnelKnown, Counted
<1> QED
  BY <1>3, <1>4, <1>5 DEF TunnelKnown, u

\* A responder has a session that is not current.
LEMMA RespondedKnown ==
    ASSUME NEW c, NEW d, \A g \in Endpoints : c[g] \subseteq d[g],
           NEW e \in Endpoints, NEW t \in TunnType, NEW U, U \subseteq Ephemerals,
           MaxEphemerals < N_INDICES, TunnelKnown(c, e, t, Cardinality(U)),
           NEW m \in Message, m.type = "init", NEW k \in Ephemerals \ U,
           <<m.eph, k>> \in d[e]
    PROVE  /\ TunnelKnown(d, e, Responded(t, m, k).tunn, Cardinality(U \cup {k}))
           /\ QueueKnown(d[e], Responded(t, m, k).out)
<1> DEFINE i == IncIndex(t.next_index)
           n == Cardinality(U)
           s == [local |-> i, peer |-> m.sender, key |-> <<m.eph, k>>, initiator |-> FALSE]
           v == [t EXCEPT !.next_index = i, !.previous = t.state, !.state = None]
           u == StoreSession(v, s)
           reply == ResponseMsg(i, m.sender, m.eph, k)
           out == <<reply>>
<1>1. Responded(t, m, k).tunn = u /\ Responded(t, m, k).out = out
  BY DEF Responded, Result
<1>2. i \in Indices /\ m.sender \in Indices /\ m.eph \in Ephemerals
  BY IncIndexType DEF Message, TunnType
<1>3. n \in Nat /\ Cardinality(U \cup {k}) = n + 1 /\ n + 1 <= MaxEphemerals
  <2>1. U \cup {k} \subseteq Ephemerals
    OBVIOUS
  <2> QED
    BY <2>1, CountDrawn
<1>4. MaxEphemerals \in Nat /\ N_INDICES \in Nat
  BY TunnAssumption
<1>5. t.next_index \in Indices /\ t.next_index <= N_INDICES + n
  BY DEF TunnelKnown, Counted, TunnType
<1> HIDE DEF n
<1>6. i = t.next_index + 1
  BY <1>3, <1>4, <1>5, NextIndex
<1> HIDE DEF i
<1>7. TunnelKnown(d, e, t, n)
  BY <1>3, KnownGrows DEF n
<1>8. v \in TunnType
  BY <1>2, StateType DEF TunnType
<1>9. /\ v.state = None /\ v.previous = t.state /\ v.sessions = t.sessions
      /\ v.next_index = i /\ v.current = t.current
  BY DEF TunnType
<1>10. s \in SessionType /\ s.local = i /\ SessionKnown(d, e, s)
  BY <1>2 DEF SessionType, SessionKnown, Key
<1>11. QueueKnown(d[e], out)
  <2>1. DOMAIN out = {1} /\ out[1] = reply
    OBVIOUS
  <2>2. MessageKnown(d[e], reply)
    BY DEF MessageKnown, ResponseMsg
  <2> HIDE DEF out, reply
  <2> QED
    BY <2>1, <2>2 DEF QueueKnown
<1> HIDE DEF s, v, out
<1>12. TunnelKnown(d, e, v, n + 1)
  <2>1. Counted(t, n)
    BY <1>7 DEF TunnelKnown
  <2>2. /\ t.next_index \in Int /\ t.current \in Int
        /\ t.state.tag = "InitSent" => t.state.index \in Int
        /\ \A j \in Slots : t.sessions[j] # NoSession => t.sessions[j].local \in Int
    BY TunnAssumption, StateType DEF TunnType, Indices, HandshakeState, SessionType
  <2>3. \A h \in {v.state, v.previous} : h.tag = "InitSent" => h.index <= i
    BY <1>6, <1>9, <2>1, <2>2, StateType DEF Counted
  <2>4. \A j \in Slots : t.sessions[j] # NoSession => t.sessions[j].local <= i
    BY <1>6, <2>1, <2>2 DEF Counted
  <2>5. i <= N_INDICES + (n + 1) /\ t.current <= i
    BY <1>3, <1>4, <1>5, <1>6, <2>1, <2>2 DEF Counted
  <2>6. Counted(v, n + 1)
    BY <1>9, <2>3, <2>4, <2>5 DEF Counted
  <2>7. /\ \A j \in Slots : SessionKnown(d, e, v.sessions[j])
        /\ CurrentKnown(d, e, v)
    BY <1>7, <1>9 DEF TunnelKnown, CurrentKnown, CurrentSession
  <2> QED
    BY <2>6, <2>7 DEF TunnelKnown
<1>13. i <= v.next_index /\ i # v.current
  <2>1. t.current <= t.next_index /\ t.current \in Int /\ t.next_index \in Int
    BY <1>7, TunnAssumption DEF TunnelKnown, Counted, TunnType, Indices
  <2> QED
    BY <1>6, <1>9, <2>1
<1>14. TunnelKnown(d, e, u, n + 1)
  BY <1>8, <1>10, <1>12, <1>13, StoredKnown
<1> HIDE DEF u
<1> QED
  BY <1>1, <1>3, <1>11, <1>14 DEF n

\* An initiator's session is current when its responder has the key.
LEMMA EstablishedKnown ==
    ASSUME NEW c, NEW d, \A g \in Endpoints : c[g] \subseteq d[g],
           NEW e \in Endpoints, NEW t \in TunnType, NEW n \in Nat,
           TunnelKnown(c, e, t, n),
           NEW m \in Message, m.type = "response", Opens(t, m),
           <<m.answers, m.eph>> \in d[e], <<m.answers, m.eph>> \in d[Peer(e)]
    PROVE  /\ TunnelKnown(d, e, Established(t, m).tunn, n)
           /\ QueueKnown(d[e], Established(t, m).out)
<1> DEFINE s == [local |-> m.receiver, peer |-> m.sender,
                 key |-> <<m.answers, m.eph>>, initiator |-> TRUE]
           v == Answered(t, m)
           w == StoreSession(v, s)
           u == SetCurrent(w, s.local)
           hello == Seal(s, KeepAlive)
           out == <<hello>>
<1>1. Established(t, m).tunn = u /\ Established(t, m).out = out
  BY DEF Established, Result
<1>2. /\ m.receiver \in Indices /\ m.sender \in Indices
      /\ m.answers \in Ephemerals /\ m.eph \in Ephemerals
  BY DEF Message
<1>3. /\ s \in SessionType /\ s.local = m.receiver /\ s.key \in d[e] /\ s.key \in d[Peer(e)]
      /\ SessionKnown(d, e, s)
  BY <1>2 DEF SessionType, SessionKnown, Key
<1>4. hello.type = "data" /\ hello.key = s.key
  BY DEF Seal, DataMsg
<1> HIDE DEF s
<1>5. s # NoSession
  BY <1>3, NoSessionIsNone
<1>6. QueueKnown(d[e], out)
  <2>1. DOMAIN out = {1} /\ out[1] = hello
    OBVIOUS
  <2> HIDE DEF out, hello
  <2>2. MessageKnown(d[e], hello)
    BY <1>3, <1>4 DEF MessageKnown
  <2> QED
    BY <2>1, <2>2 DEF QueueKnown
<1>7. TunnelKnown(d, e, t, n)
  BY KnownGrows
<1>8. /\ v \in TunnType /\ v.sessions = t.sessions /\ v.next_index = t.next_index
      /\ v.current = t.current
      /\ v.state \in {t.state, None} /\ v.previous \in {t.previous, None}
      /\ m.receiver <= t.next_index
  <2>1. /\ v \in TunnType /\ v.sessions = t.sessions /\ v.next_index = t.next_index
        /\ v.current = t.current
        /\ v.state \in {t.state, None} /\ v.previous \in {t.previous, None}
    BY StateType DEF Answered, TunnType
  <2>2. \E h \in {t.state, t.previous} : h.tag = "InitSent" /\ h.index = m.receiver
    BY StateType DEF Opens, Awaited, IsSent
  <2> QED
    BY <1>7, <2>1, <2>2 DEF TunnelKnown, Counted
<1> HIDE DEF v, w, u, out
<1>9. TunnelKnown(d, e, v, n)
  <2>1. Counted(v, n)
    BY <1>7, <1>8, StateType DEF TunnelKnown, Counted
  <2> QED
    BY <1>7, <1>8, <2>1 DEF TunnelKnown, CurrentKnown, CurrentSession
<1>10. TunnelKnown(d, e, w, n)
  BY <1>3, <1>8, <1>9, StoredKnown DEF w
<1>11. w \in TunnType /\ w.sessions[Slot(s.local)] = s
  <2>1. Slot(s.local) \in Slots
    BY <1>2, <1>3, SlotType
  <2>2. v \in TunnType
    BY <1>8
  <2>3. w.sessions[Slot(s.local)] = s
    BY <2>1, <2>2 DEF w, StoreSession, TunnType
  <2> QED
    BY <1>3, <2>2, <2>3, StoreSessionType DEF w
<1>12. TunnelKnown(d, e, u, n)
  BY <1>2, <1>3, <1>5, <1>10, <1>11, CurrentSetKnown DEF u
<1> QED
  BY <1>1, <1>6, <1>12

\* What is known of messages under way is known of what is left of them.
LEMMA TakenKnown ==
    ASSUME NEW keys, NEW q \in Seq(Message), QueueKnown(keys, q), NEW i \in DOMAIN q, NEW copied
    PROVE  /\ QueueKnown(keys, Taken(q, i, copied))
           /\ QueueKnown(keys, Outdated(q, i))
<1>1. QueueKnown(keys, RemoveAt(q, i))
  <2> DEFINE o == RemoveAt(q, i)
             at(j) == IF j < i THEN j ELSE j + 1
  <2>1. /\ DOMAIN o = 1..(Len(q) - 1)
        /\ \A j \in 1..(Len(q) - 1) : o[j] = q[at(j)]
    BY RemoveAtParts
  <2>2. DOMAIN q = 1..Len(q) /\ Len(q) \in Nat
    BY LenProperties
  <2>3. \A j \in DOMAIN o : at(j) \in DOMAIN q
    BY <2>1, <2>2
  <2> HIDE DEF o, at
  <2>4. QueueKnown(keys, o)
    BY <2>1, <2>3 DEF QueueKnown
  <2> QED
    BY <2>4 DEF o
<1>2. QueueKnown(keys, Outdated(q, i))
  <2> SUFFICES ASSUME NEW j \in DOMAIN q PROVE MessageKnown(keys, Outdated(q, i)[j])
    BY DEF QueueKnown, Outdated
  <2>1. q[j] \in Message /\ MessageKnown(keys, q[j])
    BY ElementOfSeq, LenProperties DEF QueueKnown
  <2>2. CASE j <= i /\ q[j].type = "init"
    BY <2>1, <2>2 DEF Outdated, Message, MessageKnown
  <2>3. CASE ~(j <= i /\ q[j].type = "init")
    BY <2>1, <2>3 DEF Outdated
  <2> QED
    BY <2>2, <2>3
<1> QED
  BY <1>1, <1>2 DEF Taken

\* What is known of two parts of a queue is known of the whole.
LEMMA PostKnown ==
    ASSUME NEW keys, NEW q \in Seq(Message), NEW out \in Seq(Message),
           QueueKnown(keys, q), QueueKnown(keys, out)
    PROVE  QueueKnown(keys, Post(q, out))
BY PostParts DEF QueueKnown

LEMMA ConcatKnown ==
    ASSUME NEW keys, NEW x \in Seq(Message), NEW y \in Seq(Message),
           QueueKnown(keys, x), QueueKnown(keys, y)
    PROVE  QueueKnown(keys, x \o y)
<1> DEFINE z == x \o y
<1>1. /\ z \in Seq(Message) /\ Len(z) = Len(x) + Len(y)
      /\ \A i \in 1..Len(x) + Len(y) :
            z[i] = IF i <= Len(x) THEN x[i] ELSE y[i - Len(x)]
  BY ConcatProperties
<1>2. /\ DOMAIN x = 1..Len(x) /\ DOMAIN y = 1..Len(y) /\ DOMAIN z = 1..Len(z)
      /\ Len(x) \in Nat /\ Len(y) \in Nat
  BY <1>1, LenProperties
<1> HIDE DEF z
<1>3. ASSUME NEW i \in DOMAIN z PROVE MessageKnown(keys, z[i])
  <2>1. i \in 1..Len(x) + Len(y)
    BY <1>1, <1>2
  <2>2. CASE i <= Len(x)
    BY <1>1, <1>2, <2>1, <2>2 DEF QueueKnown
  <2>3. CASE ~(i <= Len(x))
    <3>1. i - Len(x) \in DOMAIN y /\ z[i] = y[i - Len(x)]
      BY <1>1, <1>2, <2>1, <2>3
    <3> QED
      BY <3>1 DEF QueueKnown
  <2> QED
    BY <2>2, <2>3
<1> QED
  BY <1>3 DEF QueueKnown, z

\* A step of e that leaves and sends only what is known keeps the invariant.
LEMMA StepShared ==
    ASSUME SharedInv, PairInv', NEW e \in Endpoints, NEW r, r.out \in Seq(Message),
           NEW mine, Becomes(e, r, mine),
           TunnelKnown(derived', e, r.tunn, Cardinality(used \cup DrawnIn(r.out))),
           QueueKnown(derived'[e], r.out),
           QueueKnown(derived[Peer(e)], mine),
           derived[e] \subseteq derived'[e], derived'[Peer(e)] = derived[Peer(e)]
    PROVE  SharedInv'
<1> DEFINE f == Peer(e)
           post == Post(net[f], r.out)
<1>1. f \in Endpoints /\ f # e /\ Peer(f) = e /\ \A g \in Endpoints : g = e \/ g = f
  BY TunnAssumption DEF Endpoints, Peer
<1>2. TypeOK /\ TypeOK'
  BY DEF SharedInv, PairInv, Inv
<1>3. /\ tunn \in [Endpoints -> TunnType] /\ net \in [Endpoints -> Seq(Message)]
      /\ used \subseteq Ephemerals /\ used' \subseteq Ephemerals
  BY <1>2 DEF TypeOK
<1>4. /\ tunn'[e] = r.tunn /\ tunn'[f] = tunn[f]
      /\ used' = used \cup DrawnIn(r.out)
  BY <1>1, <1>3 DEF Becomes
<1>5. net'[e] = mine /\ net'[f] = post
  <2>1. net' = [[net EXCEPT ![e] = mine] EXCEPT ![f] = post]
    BY <1>1, <1>3 DEF Becomes
  <2> HIDE DEF f, post
  <2> QED
    BY <1>1, <1>3, <2>1
<1> HIDE DEF f
<1>6. TunnelKnown(derived', f, tunn[f], Cardinality(used'))
  <2>1. TunnelKnown(derived, f, tunn[f], Cardinality(used)) /\ tunn[f] \in TunnType
    BY <1>1, <1>3 DEF SharedInv
  <2>2. \A g \in Endpoints : derived[g] \subseteq derived'[g]
    BY <1>1 DEF f
  <2>3. /\ Cardinality(used) \in Nat /\ Cardinality(used') \in Nat
        /\ Cardinality(used) <= Cardinality(used')
    <3>1. IsFiniteSet(Ephemerals)
      BY TunnAssumption, FS_Interval DEF Ephemerals
    <3>2. IsFiniteSet(used')
      BY <1>3, <3>1, FS_Subset
    <3>3. Cardinality(used) <= Cardinality(used')
      BY <1>4, <3>2, FS_Subset
    <3> QED
      BY <1>3, <3>3, CountDrawn
  <2> QED
    BY <1>1, <2>1, <2>2, <2>3, KnownGrows
<1>7. QueueKnown(derived'[e], post)
  <2>1. net[f] \in Seq(Message) /\ QueueKnown(derived[e], net[f])
    BY <1>1, <1>3 DEF SharedInv
  <2>2. QueueKnown(derived'[e], net[f])
    BY <2>1 DEF QueueKnown, MessageKnown
  <2> QED
    BY <2>1, <2>2, PostKnown
<1>8. ASSUME NEW g \in Endpoints
      PROVE  /\ TunnelKnown(derived', g, tunn'[g], Cardinality(used'))
             /\ QueueKnown(derived'[Peer(g)], net'[g])
  <2>1. CASE g = e
    BY <1>4, <1>5, <2>1
  <2>2. CASE g = f
    BY <1>1, <1>4, <1>5, <1>6, <1>7, <2>2
  <2> QED
    BY <1>1, <2>1, <2>2
<1> QED
  BY <1>8 DEF SharedInv

\* A step that derives no key.
LEMMA PlainShared ==
    ASSUME SharedInv, PairInv', MaxEphemerals < N_INDICES,
           NEW e \in Endpoints, NEW u \in TunnType,
           TunnelKnown(derived, e, u, Cardinality(used)),
           NEW k, NEW r, r.out \in Seq(Message),
           Quiet(u, r) \/ (k \in Drawn(Fresh) /\ Starts(u, r, k)),
           NEW mine, Becomes(e, r, mine), QueueKnown(derived[Peer(e)], mine),
           derived' = derived
    PROVE  SharedInv'
<1>1. used \subseteq Ephemerals /\ DrawnIn(r.out) \subseteq Ephemerals
  BY DEF SharedInv, PairInv, Inv, TypeOK, Becomes
<1>2. Quiet(u, r) \/ (Starts(u, r, k) /\ k \in Ephemerals \ used)
  <2> SUFFICES ASSUME k \in Drawn(Fresh), Starts(u, r, k) PROVE k \in Ephemerals \ used
    OBVIOUS
  <2>1. k \in Drawn(Fresh \ {})
    BY DEF Fresh
  <2>2. k \in DrawnIn(r.out)
    BY DEF Starts, DrawnIn, InitMsg
  <2> QED
    BY <1>1, <2>1, <2>2, DrawnFresh
<1>3. /\ TunnelKnown(derived, e, r.tunn, Cardinality(used \cup DrawnIn(r.out)))
      /\ QueueKnown(derived[e], r.out)
  BY <1>1, <1>2, SendsKnown
<1> QED
  BY <1>3, StepShared

\* One lemma per action.
LEMMA EncapsulateShared ==
    ASSUME SharedInv, PairInv', MaxEphemerals < N_INDICES,
           NEW e \in Endpoints, NEW p \in Packets, Encapsulate(e, p)
    PROVE  SharedInv'
<1> DEFINE t == tunn[e]
<1>1. /\ t \in TunnType /\ TunnelKnown(derived, e, t, Cardinality(used))
      /\ QueueKnown(derived[Peer(e)], net[e])
  BY DEF SharedInv, PairInv, Inv, TypeOK
<1>2. PICK k \in Drawn(Fresh) : Becomes(e, Encapsulated(t, p, k), net[e])
  BY DEF Encapsulate
<1>3. derived' = derived /\ p \in Payloads
  BY DEF Encapsulate, Payloads
<1> DEFINE r == Encapsulated(t, p, k)
<1> HIDE DEF t
<1>4. DrawnIn(r.out) \subseteq Ephemerals
  BY <1>2 DEF Becomes
<1>5. r.out \in Seq(Message) /\ (Quiet(t, r) \/ Starts(t, r, k))
  BY <1>1, <1>3, <1>4, EncapsulatedGood, EncapsulatedShape DEF Sendable
<1> HIDE DEF r
<1> QED
  BY <1>1, <1>2, <1>3, <1>5, PlainShared DEF r

LEMMA UpdateTimersShared ==
    ASSUME SharedInv, PairInv', MaxEphemerals < N_INDICES,
           NEW e \in Endpoints, UpdateTimers(e)
    PROVE  SharedInv'
<1> DEFINE t == Aged(tunn[e])
           n == Cardinality(used)
<1>1. /\ tunn[e] \in TunnType /\ Good(tunn[e]) /\ TunnelKnown(derived, e, tunn[e], n)
      /\ QueueKnown(derived[Peer(e)], net[e])
  BY InvIsGood DEF SharedInv, PairInv, Good
<1> HIDE DEF n
<1>2. t \in TunnType /\ TunnelKnown(derived, e, t, n)
  BY <1>1, AgedGood, ForgottenKnown DEF Good
<1> HIDE DEF t
<1>3. \A u : LET r == Result(u, <<>>) IN r.out \in Seq(Message) /\ Quiet(u, r)
  BY EmptySeq DEF Result, Quiet, SameTunnel
<1>4. CASE Idle(e)
  <2>1. Becomes(e, Result(t, <<>>), net[e]) /\ derived' = derived
    BY <1>4 DEF Idle, Ages, t
  <2> QED
    BY <1>1, <1>2, <1>3, <2>1, PlainShared DEF n
<1>5. CASE ConnectionExpired(e)
  <2> DEFINE u == GivenUp(t)
  <2>1. Becomes(e, Result(u, <<>>), net[e]) /\ derived' = derived
    BY <1>5 DEF ConnectionExpired, Ages, t
  <2>2. u \in TunnType /\ TunnelKnown(derived, e, u, n)
    BY <1>2, GivenUpGood, ForgottenKnown DEF Good
  <2> HIDE DEF u
  <2> QED
    BY <1>1, <1>3, <2>1, <2>2, PlainShared DEF n
<1>6. ASSUME NEW k \in Drawn(Fresh), Ages(e, StartHandshake(t, k))
      PROVE  SharedInv'
  <2> DEFINE r == StartHandshake(t, k)
  <2>1. Becomes(e, r, net[e]) /\ derived' = derived
    BY <1>6 DEF Ages
  <2>2. DrawnIn(r.out) \subseteq Ephemerals
    BY <2>1 DEF Becomes
  <2>3. r.out \in Seq(Message) /\ Starts(t, r, k)
    BY <1>2, <2>2, StartHandshakeGood, StartHandshakeStarts DEF Sendable
  <2> HIDE DEF r
  <2> QED
    BY <1>1, <1>2, <2>1, <2>3, PlainShared DEF n
<1>7. CASE RekeyTimeout(e)
  BY <1>6, <1>7 DEF RekeyTimeout, t
<1>8. CASE Rekey(e)
  BY <1>6, <1>8 DEF Rekey, t
<1>9. CASE SendKeepalive(e)
  <2>1. PICK k \in Drawn(Fresh) : Ages(e, Encapsulated(t, KeepAlive, k))
    BY <1>9 DEF SendKeepalive, t
  <2> DEFINE r == Encapsulated(t, KeepAlive, k)
  <2>2. Becomes(e, r, net[e]) /\ derived' = derived
    BY <2>1 DEF Ages
  <2>3. KeepAlive \in Payloads
    BY DEF Payloads
  <2>4. DrawnIn(r.out) \subseteq Ephemerals
    BY <2>2 DEF Becomes
  <2>5. r.out \in Seq(Message) /\ (Quiet(t, r) \/ Starts(t, r, k))
    BY <1>2, <2>3, <2>4, EncapsulatedGood, EncapsulatedShape DEF Sendable
  <2> HIDE DEF r
  <2> QED
    BY <1>1, <1>2, <2>1, <2>2, <2>5, PlainShared DEF n
<1> QED
  BY <1>4, <1>5, <1>7, <1>8, <1>9 DEF UpdateTimers

LEMMA ReceiveInitShared ==
    ASSUME SharedInv, PairInv', MaxEphemerals < N_INDICES,
           NEW e \in Endpoints, NEW i \in DOMAIN net[e],
           NEW copied \in BOOLEAN, ReceiveInit(e, i, copied)
    PROVE  SharedInv'
<1> DEFINE m == net[e][i]
           t == tunn[e]
           mine == Taken(Outdated(net[e], i), i, copied)
<1>1. /\ TypeOK /\ TunnelKnown(derived, e, t, Cardinality(used))
      /\ QueueKnown(derived[Peer(e)], net[e])
  BY DEF SharedInv, PairInv, Inv
<1>2. /\ net[e] \in Seq(Message) /\ t \in TunnType /\ used \subseteq Ephemerals
      /\ InPlace(t) /\ Apart(t)
  BY <1>1 DEF TypeOK, SharedInv, PairInv, Handshakes
<1>3. m \in Message /\ m.type = "init"
  BY <1>2, ElementOfSeq, LenProperties DEF ReceiveInit
<1>4. PICK k1 \in Drawn(Fresh) \ {0} :
        /\ \E r \in {ThenFlush(Responded(t, m, k1), k2) :
                        k2 \in Drawn(Fresh \ {k1})} : Becomes(e, r, mine)
        /\ Derives(e, <<m.eph, k1>>)
  BY DEF ReceiveInit
<1>5. PICK k2 \in Drawn(Fresh \ {k1}) : Becomes(e, ThenFlush(Responded(t, m, k1), k2), mine)
  BY <1>4
<1>6. k1 \in Ephemerals /\ k1 \notin used
  <2>1. k1 \in Drawn(Fresh \ {}) /\ k1 \in Ephemerals
    BY <1>4, DrawnType DEF Fresh
  <2> QED
    BY <2>1, DrawnFresh
<1>7. QueueKnown(derived[Peer(e)], mine)
  <2>1. /\ Outdated(net[e], i) \in Seq(Message)
        /\ i \in DOMAIN Outdated(net[e], i)
    BY <1>2, OutdatedType
  <2>2. QueueKnown(derived[Peer(e)], Outdated(net[e], i))
    BY <1>1, <1>2, TakenKnown
  <2> QED
    BY <2>1, <2>2, TakenKnown
<1> DEFINE r1 == Responded(t, m, k1)
           u == r1.tunn
           f == Flushed(u, k2)
           r == ThenFlush(r1, k2)
<1> HIDE DEF m, t, mine
<1>8. /\ <<m.eph, k1>> \in derived'[e]
      /\ derived[e] \subseteq derived'[e]
      /\ derived'[Peer(e)] = derived[Peer(e)]
      /\ \A g \in Endpoints : derived[g] \subseteq derived'[g]
  BY <1>1, <1>4, PeerType DEF Derives, TypeOK
<1>9. u \in TunnType /\ r1.out \in Seq(Message) /\ DrawnIn(r1.out) = {k1}
  <2>1. RespondedFits(e, t, m, k1)
    BY <1>2, <1>3, <1>6, RespondedClaims
  <2> QED
    BY <2>1 DEF RespondedFits
<1>10. /\ TunnelKnown(derived', e, u, Cardinality(used \cup {k1}))
       /\ QueueKnown(derived'[e], r1.out)
  BY <1>1, <1>2, <1>3, <1>6, <1>8, RespondedKnown
<1>11. FlushFits(r1, k2)
  <2>1. DrawnIn(r.out) \subseteq Ephemerals
    BY <1>5 DEF Becomes
  <2> HIDE DEF r1, u
  <2> QED
    BY <1>9, <2>1, FlushClaims DEF u
<1> HIDE DEF r1, u, r
<1>12. /\ r = Result(f.tunn, r1.out \o f.out)
       /\ r.out = r1.out \o f.out
       /\ r.out \in Seq(Message) /\ f.out \in Seq(Message)
       /\ DrawnIn(r.out) = DrawnIn(r1.out) \cup DrawnIn(f.out)
       /\ DrawnIn(f.out) \subseteq Ephemerals
       /\ Quiet(u, f) \/ Starts(u, f, k2)
  BY <1>11 DEF FlushFits, u, r
<1> HIDE DEF f
<1>13. Quiet(u, f) \/ (Starts(u, f, k2) /\ k2 \in Ephemerals \ (used \cup {k1}))
  <2> SUFFICES ASSUME Starts(u, f, k2) PROVE k2 \in Ephemerals \ (used \cup {k1})
    BY <1>12
  <2>1. k2 \in DrawnIn(f.out)
    BY DEF Starts, DrawnIn, InitMsg
  <2> QED
    BY <1>5, <1>12, <2>1, DrawnFresh
<1>14. /\ TunnelKnown(derived', e, f.tunn, Cardinality((used \cup {k1}) \cup DrawnIn(f.out)))
       /\ QueueKnown(derived'[e], f.out)
  <2>1. used \cup {k1} \subseteq Ephemerals
    BY <1>2, <1>6
  <2> QED
    BY <1>9, <1>10, <1>13, <2>1, SendsKnown
<1>15. (used \cup {k1}) \cup DrawnIn(f.out) = used \cup DrawnIn(r.out)
  BY <1>9, <1>12
<1>16. r.tunn = f.tunn /\ QueueKnown(derived'[e], r.out)
  BY <1>9, <1>10, <1>12, <1>14, ConcatKnown DEF Result
<1>17. Becomes(e, r, mine)
  BY <1>5 DEF r1, r
<1> QED
  BY <1>7, <1>8, <1>12, <1>14, <1>15, <1>16, <1>17, StepShared

LEMMA ReceiveResponseShared ==
    ASSUME SharedInv, PairInv', MaxEphemerals < N_INDICES,
           NEW e \in Endpoints, NEW i \in DOMAIN net[e],
           NEW copied \in BOOLEAN, ReceiveResponse(e, i, copied)
    PROVE  SharedInv'
<1> DEFINE m == net[e][i]
           t == tunn[e]
           n == Cardinality(used)
           mine == Taken(net[e], i, copied)
<1>1. /\ TypeOK /\ TunnelKnown(derived, e, t, n)
      /\ QueueKnown(derived[Peer(e)], net[e])
  BY DEF SharedInv, PairInv, Inv
<1>2. /\ net[e] \in Seq(Message) /\ t \in TunnType /\ used \subseteq Ephemerals
      /\ InPlace(t) /\ Apart(t)
  BY <1>1 DEF TypeOK, SharedInv, PairInv, Handshakes
<1>3. /\ m \in Message /\ m.type = "response" /\ Opens(t, m)
      /\ Derives(e, <<m.answers, m.eph>>)
  BY <1>2, ElementOfSeq, LenProperties DEF ReceiveResponse
<1>4. PICK k \in Drawn(Fresh) : Becomes(e, ThenFlush(Established(t, m), k), mine)
  BY DEF ReceiveResponse
<1>5. QueueKnown(derived[Peer(e)], mine)
  BY <1>1, <1>2, TakenKnown
<1>6. <<m.answers, m.eph>> \in derived[Peer(e)]
  BY <1>1, <1>3 DEF QueueKnown, MessageKnown
<1> DEFINE r1 == Established(t, m)
           u == r1.tunn
           f == Flushed(u, k)
           r == ThenFlush(r1, k)
<1> HIDE DEF m, t, mine
<1>7. /\ <<m.answers, m.eph>> \in derived'[e]
      /\ derived[e] \subseteq derived'[e]
      /\ derived'[Peer(e)] = derived[Peer(e)]
      /\ \A g \in Endpoints : derived[g] \subseteq derived'[g]
  BY <1>1, <1>3, PeerType DEF Derives, TypeOK
<1>8. u \in TunnType /\ r1.out \in Seq(Message) /\ DrawnIn(r1.out) = {}
  <2>1. EstablishedFits(e, t, m)
    BY <1>2, <1>3, EstablishedClaims
  <2> QED
    BY <2>1 DEF EstablishedFits, DrawnIn
<1>9. n \in Nat
  BY <1>2, CountDrawn
<1>10. /\ TunnelKnown(derived', e, u, n) /\ QueueKnown(derived'[e], r1.out)
  <2> HIDE DEF n
  <2> QED
    BY <1>1, <1>2, <1>3, <1>6, <1>7, <1>9, EstablishedKnown
<1>11. FlushFits(r1, k)
  <2>1. DrawnIn(r.out) \subseteq Ephemerals
    BY <1>4 DEF Becomes
  <2> HIDE DEF r1, u
  <2> QED
    BY <1>8, <2>1, FlushClaims DEF u
<1> HIDE DEF r1, u, r
<1>12. /\ r = Result(f.tunn, r1.out \o f.out)
       /\ r.out = r1.out \o f.out
       /\ r.out \in Seq(Message) /\ f.out \in Seq(Message)
       /\ DrawnIn(r.out) = DrawnIn(f.out)
       /\ DrawnIn(f.out) \subseteq Ephemerals
       /\ Quiet(u, f) \/ Starts(u, f, k)
  BY <1>8, <1>11 DEF FlushFits, u, r
<1> HIDE DEF f
<1>13. Quiet(u, f) \/ (Starts(u, f, k) /\ k \in Ephemerals \ used)
  <2> SUFFICES ASSUME Starts(u, f, k) PROVE k \in Ephemerals \ used
    BY <1>12
  <2>1. k \in DrawnIn(f.out)
    BY DEF Starts, DrawnIn, InitMsg
  <2>2. k \in Drawn(Fresh \ {})
    BY <1>4 DEF Fresh
  <2> QED
    BY <1>12, <2>1, <2>2, DrawnFresh
<1>14. /\ TunnelKnown(derived', e, f.tunn, Cardinality(used \cup DrawnIn(f.out)))
       /\ QueueKnown(derived'[e], f.out)
  BY <1>2, <1>8, <1>10, <1>13, SendsKnown
<1>15. r.tunn = f.tunn /\ QueueKnown(derived'[e], r.out)
  BY <1>8, <1>10, <1>12, <1>14, ConcatKnown DEF Result
<1>16. Becomes(e, r, mine)
  BY <1>4 DEF r1, r
<1> QED
  BY <1>5, <1>7, <1>12, <1>14, <1>15, <1>16, StepShared

LEMMA ReceiveDataShared ==
    ASSUME SharedInv, PairInv', MaxEphemerals < N_INDICES,
           NEW e \in Endpoints, NEW i \in DOMAIN net[e], ReceiveData(e, i)
    PROVE  SharedInv'
<1> DEFINE m == net[e][i]
           t == tunn[e]
           n == Cardinality(used)
           u == SetCurrent(t, m.receiver)
           r == Result(u, <<>>)
           mine == Taken(net[e], i, FALSE)
<1>1. /\ TypeOK /\ TunnelKnown(derived, e, t, n)
      /\ QueueKnown(derived[Peer(e)], net[e])
  BY DEF SharedInv, PairInv, Inv
<1>2. net[e] \in Seq(Message) /\ t \in TunnType
  BY <1>1 DEF TypeOK
<1>3. /\ m \in Message /\ m.type = "data" /\ Reads(t, m)
      /\ Becomes(e, r, mine) /\ derived' = derived
  BY <1>2, ElementOfSeq, LenProperties DEF ReceiveData
<1>4. m.receiver \in Indices
  BY <1>3 DEF Message
<1>5. QueueKnown(derived[Peer(e)], mine) /\ m.key \in derived[Peer(e)]
  BY <1>1, <1>2, <1>3, TakenKnown DEF QueueKnown, MessageKnown
<1> HIDE DEF m, t, mine, n
<1>6. u \in TunnType
  BY <1>2, <1>4, SetCurrentType
<1>7. TunnelKnown(derived, e, u, n)
  BY <1>1, <1>2, <1>3, <1>4, <1>5, CurrentSetKnown DEF Reads
<1> HIDE DEF u
<1>8. r.out \in Seq(Message) /\ Quiet(u, r)
  BY EmptySeq DEF Result, Quiet, SameTunnel
<1> HIDE DEF r
<1> QED
  BY <1>3, <1>5, <1>6, <1>7, <1>8, PlainShared DEF n

LEMMA LoseShared ==
    ASSUME SharedInv, PairInv', NEW e \in Endpoints, NEW i \in DOMAIN net[e], Lose(e, i)
    PROVE  SharedInv'
<1> DEFINE mine == RemoveAt(net[e], i)
<1>1. net \in [Endpoints -> Seq(Message)]
  BY DEF SharedInv, PairInv, Inv, TypeOK
<1>2. /\ net' = [net EXCEPT ![e] = mine] /\ tunn' = tunn /\ used' = used /\ derived' = derived
  BY DEF Lose, histories
<1>3. QueueKnown(derived[Peer(e)], mine)
  <2>1. QueueKnown(derived[Peer(e)], net[e]) /\ Taken(net[e], i, FALSE) = mine
    BY DEF SharedInv, Taken
  <2> QED
    BY <1>1, <2>1, TakenKnown
<1> HIDE DEF mine
<1>4. \A g \in Endpoints : QueueKnown(derived[Peer(g)], net'[g])
  BY <1>1, <1>2, <1>3 DEF SharedInv
<1> QED
  BY <1>2, <1>4 DEF SharedInv

LEMMA InitShared == Init => SharedInv
<1> SUFFICES ASSUME Init PROVE SharedInv
  OBVIOUS
<1>1. PairInv
  BY InitPair
<1>2. Cardinality(used) = 0
  BY FS_EmptySet DEF Init
<1>3. ASSUME NEW e \in Endpoints
      PROVE  /\ TunnelKnown(derived, e, tunn[e], Cardinality(used))
             /\ QueueKnown(derived[Peer(e)], net[e])
  <2> DEFINE t == tunn[e]
  <2>1. /\ t.state = None /\ t.previous = None
        /\ t.next_index = N_INDICES /\ t.current = 0
        /\ \A i \in Slots : t.sessions[i] = NoSession
    BY DEF Init, NewTunn
  <2>2. net[e] = <<>>
    BY DEF Init
  <2> HIDE DEF t
  <2>3. Slot(t.current) \in Slots
    BY <2>1, TunnAssumption DEF Slot, Slots
  <2>4. Counted(t, 0)
    BY <2>1, StateType, TunnAssumption DEF Counted
  <2>5. (\A i \in Slots : SessionKnown(derived, e, t.sessions[i])) /\ CurrentKnown(derived, e, t)
    BY <2>1, <2>3 DEF SessionKnown, CurrentKnown, CurrentSession
  <2>6. QueueKnown(derived[Peer(e)], <<>>)
    BY DEF QueueKnown
  <2> QED
    BY <1>2, <2>2, <2>4, <2>5, <2>6 DEF TunnelKnown, t
<1> QED
  BY <1>1, <1>3 DEF SharedInv

LEMMA NextShared ==
    ASSUME MaxEphemerals < N_INDICES
    PROVE  SharedInv /\ [Next]_vars => SharedInv'
<1> SUFFICES ASSUME SharedInv, [Next]_vars PROVE SharedInv'
  OBVIOUS
<1>1. PairInv'
  BY NextPair DEF SharedInv
<1>2. CASE UNCHANGED vars
  BY <1>1, <1>2 DEF vars, histories, SharedInv
<1>3. ASSUME NEW e \in Endpoints, NEW p \in Packets, Encapsulate(e, p)
      PROVE  SharedInv'
  BY <1>1, <1>3, EncapsulateShared
<1>4. ASSUME NEW e \in Endpoints, NEW i \in DOMAIN net[e], NEW copied \in BOOLEAN,
             Receive(e, i, copied)
      PROVE  SharedInv'
  BY <1>1, <1>4, ReceiveInitShared, ReceiveResponseShared, ReceiveDataShared DEF Receive
<1>5. ASSUME NEW e \in Endpoints, NEW i \in DOMAIN net[e], Lose(e, i)
      PROVE  SharedInv'
  BY <1>1, <1>5, LoseShared
<1>6. ASSUME NEW e \in Endpoints, UpdateTimers(e)
      PROVE  SharedInv'
  BY <1>1, <1>6, UpdateTimersShared
<1> QED
  BY <1>2, <1>3, <1>4, <1>5, <1>6 DEF Next

\* While no index has been used twice, an end sends under a key that the other end
\* has not derived only where a responder's session that is not confirmed has
\* taken the slot of the current one (handle_handshake_init).  Else an initiator
\* has the key from the response, and a responder waits until it has read data
\* under it (set_current_session, called from handle_handshake_response and
\* handle_data).
THEOREM CurrentShared ==
    MaxEphemerals < N_INDICES => (Spec => []CurrentIsShared)
<1> SUFFICES ASSUME MaxEphemerals < N_INDICES PROVE Spec => []CurrentIsShared
  OBVIOUS
<1>1. SharedInv /\ [Next]_vars => SharedInv'
  BY NextShared
<1>2. ASSUME SharedInv PROVE CurrentIsShared
  <2> SUFFICES ASSUME NEW e \in Endpoints, CurrentSession(tunn[e]) # NoSession
               PROVE  LET s == CurrentSession(tunn[e]) IN
                      \/ s.key \in derived[Peer(e)]
                      \/ s.local # tunn[e].current /\ ~s.initiator
    BY DEF CurrentIsShared
  <2> DEFINE s == CurrentSession(tunn[e])
  <2>1. TunnelKnown(derived, e, tunn[e], Cardinality(used))
    BY <1>2 DEF SharedInv
  <2>2. tunn[e].current \in Indices \cup {0}
    BY <1>2 DEF SharedInv, PairInv, Inv, TypeOK, TunnType
  <2>3. SessionKnown(derived, e, s)
    BY <2>1, <2>2, SlotType DEF TunnelKnown, CurrentSession
  <2>4. s.local = tunn[e].current => s.key \in derived[Peer(e)]
    BY <2>1 DEF TunnelKnown, CurrentKnown
  <2> QED
    BY <2>3, <2>4 DEF SessionKnown
<1> QED
  BY <1>1, <1>2, InitShared, PTL DEF Spec

-----------------------------------------------------------------------------
(* Where the packets are.  What an operation takes from the queue it seals   *)
(* (Conserves), and the network has no more of a packet than was sealed.     *)

ConservedInv ==
    /\ PairInv
    /\ PacketsConserved
    /\ \A e \in Endpoints : Len(tunn[e].packet_queue) <= MAX_QUEUE_DEPTH

\* How often p is in a set.
Once(p, S) == IF p \in S THEN 1 ELSE 0

\* The places of p, in terms of Count.
Accounted(e, p) ==
    /\ Count(tunn[e].packet_queue, {p}) + sealed[e][p] + Once(p, gave_up[e])
            = Once(p, submitted[e])
    /\ delivered[Peer(e)][p] + TimesSealed(net[Peer(e)], p) <= sealed[e][p]

LEMMA AccountedIs == PacketsConserved <=> \A e \in Endpoints : \A p \in Packets : Accounted(e, p)
<1>1. ASSUME NEW e \in Endpoints, NEW p
      PROVE  TimesQueued(e, p) = Count(tunn[e].packet_queue, {p})
  <2>1. {i \in DOMAIN tunn[e].packet_queue : tunn[e].packet_queue[i] = p}
            = Places(tunn[e].packet_queue, {p})
    BY DEF Places
  <2> QED
    BY <2>1 DEF TimesQueued, Count
<1> QED
  BY <1>1 DEF PacketsConserved, Accounted, TimesInFlight, Once

LEMMA AccountedNext ==
    (\A e \in Endpoints : \A p \in Packets : Accounted(e, p)') => PacketsConserved'
<1>1. ASSUME NEW e \in Endpoints, NEW p
      PROVE  TimesQueued(e, p)' = Count(tunn'[e].packet_queue, {p})
  <2>1. {i \in DOMAIN tunn'[e].packet_queue : tunn'[e].packet_queue[i] = p}
            = Places(tunn'[e].packet_queue, {p})
    BY DEF Places
  <2> QED
    BY <2>1 DEF TimesQueued, Count
<1> QED
  BY <1>1 DEF PacketsConserved, Accounted, TimesInFlight, Once

\* The types that the counts need.
LEMMA CountsTyped ==
    ASSUME TypeOK, NEW e \in Endpoints, NEW p \in Packets
    PROVE  /\ tunn[e] \in TunnType /\ tunn[e].packet_queue \in Seq(Payloads)
           /\ net[e] \in Seq(Message)
           /\ Count(tunn[e].packet_queue, {p}) \in Nat /\ TimesSealed(net[e], p) \in Nat
           /\ sealed[e][p] \in Nat /\ delivered[e][p] \in Nat
           /\ Once(p, gave_up[e]) \in {0, 1} /\ Once(p, submitted[e]) \in {0, 1}
<1>1. tunn[e] \in TunnType /\ net[e] \in Seq(Message)
  BY DEF TypeOK
<1>2. tunn[e].packet_queue \in Seq(Payloads)
  BY <1>1 DEF TunnType
<1>3. Count(tunn[e].packet_queue, {p}) \in Nat /\ TimesSealed(net[e], p) \in Nat
  BY <1>1, <1>2, CountType, TimesSealedType
<1>4. sealed[e][p] \in Nat /\ delivered[e][p] \in Nat
  BY DEF TypeOK
<1> QED
  BY <1>1, <1>2, <1>3, <1>4 DEF Once

\* The network may drop what is sent.
LEMMA PostCount ==
    ASSUME NEW q \in Seq(Message), NEW out \in Seq(Message), NEW p
    PROVE  TimesSealed(Post(q, out), p) <= TimesSealed(q, p) + TimesSealed(out, p)
<1> DEFINE all == q \o out
           W == Carriers(p)
<1>1. all \in Seq(Message) /\ Count(all, W) = Count(q, W) + Count(out, W)
  BY ConcatProperties, CountConcat
<1>2. Post(q, out) = IF Len(all) <= MaxInFlight THEN all ELSE SubSeq(all, 1, MaxInFlight)
  BY DEF Post
<1> HIDE DEF all, W
<1>3. /\ TimesSealed(q, p) = Count(q, W) /\ TimesSealed(out, p) = Count(out, W)
      /\ Count(q, W) \in Nat /\ Count(out, W) \in Nat /\ Count(all, W) \in Nat
  BY <1>1, TimesSealedIs, CountType DEF W
<1>4. Post(q, out) \in Seq(Message)
  BY PostType
<1>5. TimesSealed(Post(q, out), p) = Count(Post(q, out), W)
  BY <1>4, TimesSealedIs DEF W
<1>6. CASE Len(all) <= MaxInFlight
  BY <1>1, <1>2, <1>3, <1>5, <1>6
<1>7. CASE ~(Len(all) <= MaxInFlight) /\ MaxInFlight # 0
  <2>1. MaxInFlight \in 1..Len(all)
    BY <1>1, <1>7, NetworkAssumption, LenProperties
  <2>2. Count(SubSeq(all, 1, MaxInFlight), W) <= Count(all, W)
    BY <1>1, <2>1, CountPrefix
  <2> QED
    BY <1>1, <1>2, <1>3, <1>5, <1>7, <2>2
<1>8. CASE ~(Len(all) <= MaxInFlight) /\ MaxInFlight = 0
  <2>1. Post(q, out) = <<>>
    BY <1>2, <1>8, SubSeqEmpty
  <2>2. Count(Post(q, out), W) = 0
    BY <1>4, <2>1, CountType
  <2> QED
    BY <1>3, <1>5, <2>2
<1> QED
  BY <1>6, <1>7, <1>8

\* Taking a message from the network, and marking old initiations.
LEMMA TakenCount ==
    ASSUME NEW q \in Seq(Message), NEW i \in DOMAIN q, NEW copied, NEW p
    PROVE  /\ TimesSealed(Outdated(q, i), p) = TimesSealed(q, p)
           /\ TimesSealed(Taken(q, i, copied), p) <= TimesSealed(q, p)
           /\ TimesSealed(q, p) = TimesSealed(RemoveAt(q, i), p)
                    + (IF q[i].type = "data" /\ q[i].payload = p THEN 1 ELSE 0)
<1> DEFINE W == Carriers(p)
<1>1. \A j \in DOMAIN q : q[j] \in Message
  BY ElementOfSeq, LenProperties
<1>2. TimesSealed(Outdated(q, i), p) = TimesSealed(q, p)
  <2> DEFINE o == Outdated(q, i)
  <2>1. DOMAIN o = DOMAIN q
    BY OutdatedType
  <2>2. ASSUME NEW j \in DOMAIN q
        PROVE  (o[j].type = "data" /\ o[j].payload = p) <=> (q[j].type = "data" /\ q[j].payload = p)
    <3>1. CASE j <= i /\ q[j].type = "init"
      BY <1>1, <3>1 DEF Outdated, Message
    <3>2. CASE ~(j <= i /\ q[j].type = "init")
      BY <3>2 DEF Outdated
    <3> QED
      BY <3>1, <3>2
  <2> HIDE DEF o
  <2>3. {j \in DOMAIN o : o[j].type = "data" /\ o[j].payload = p} =
        {j \in DOMAIN q : q[j].type = "data" /\ q[j].payload = p}
    BY <2>1, <2>2
  <2> QED
    BY <2>3 DEF TimesSealed, o
<1>3. TimesSealed(q, p) = TimesSealed(RemoveAt(q, i), p)
                    + (IF q[i].type = "data" /\ q[i].payload = p THEN 1 ELSE 0)
  <2>1. RemoveAt(q, i) \in Seq(Message)
    BY RemoveAtType
  <2>2. TimesSealed(q, p) = Count(q, W) /\ TimesSealed(RemoveAt(q, i), p) = Count(RemoveAt(q, i), W)
    BY <2>1, TimesSealedIs
  <2>3. q[i] \in W <=> q[i].type = "data" /\ q[i].payload = p
    BY <1>1 DEF Carriers
  <2> HIDE DEF W
  <2>4. Count(q, W) = Count(RemoveAt(q, i), W) + (IF q[i] \in W THEN 1 ELSE 0)
    BY CountRemoveAt
  <2> QED
    BY <2>2, <2>3, <2>4
<1>4. TimesSealed(RemoveAt(q, i), p) \in Nat /\ TimesSealed(q, p) \in Nat
  BY RemoveAtType, TimesSealedType
<1>5. TimesSealed(Taken(q, i, copied), p) <= TimesSealed(q, p)
  BY <1>3, <1>4 DEF Taken
<1> QED
  BY <1>2, <1>3, <1>5

\* A step of e keeps its account: a packet that is taken waits, is sealed or is
\* given up, and one that is delivered is no longer under way.
Balances(e, r, mine) ==
    /\ Len(r.tunn.packet_queue) <= MAX_QUEUE_DEPTH
    /\ \A p \in Packets :
        /\ Count(r.tunn.packet_queue, {p}) + TimesSealed(r.out, p) + Once(p, gave_up'[e])
                + Once(p, submitted[e])
             = Count(tunn[e].packet_queue, {p}) + Once(p, gave_up[e]) + Once(p, submitted'[e])
        /\ delivered'[e][p] + TimesSealed(mine, p) <= delivered[e][p] + TimesSealed(net[e], p)
    /\ submitted'[Peer(e)] = submitted[Peer(e)]
    /\ gave_up'[Peer(e)] = gave_up[Peer(e)]
    /\ delivered'[Peer(e)] = delivered[Peer(e)]

\* Then the invariant is kept.
LEMMA StepConserved ==
    ASSUME ConservedInv, PairInv', NEW e \in Endpoints, NEW r, r.out \in Seq(Message),
           NEW mine, Becomes(e, r, mine), Balances(e, r, mine)
    PROVE  ConservedInv'
<1> DEFINE f == Peer(e)
           post == Post(net[f], r.out)
<1>1. f \in Endpoints /\ f # e /\ Peer(f) = e /\ \A g \in Endpoints : g = e \/ g = f
  BY TunnAssumption DEF Endpoints, Peer
<1>2. TypeOK /\ TypeOK' /\ \A g \in Endpoints : \A p \in Packets : Accounted(g, p)
  BY AccountedIs DEF ConservedInv, PairInv, Inv
<1>3. /\ tunn \in [Endpoints -> TunnType] /\ net \in [Endpoints -> Seq(Message)]
      /\ sealed \in [Endpoints -> [Packets -> Nat]]
  BY <1>2 DEF TypeOK
<1>4. /\ tunn'[e] = r.tunn /\ tunn'[f] = tunn[f] /\ sealed'[f] = sealed[f]
      /\ \A p \in Packets : sealed'[e][p] = sealed[e][p] + TimesSealed(r.out, p)
  BY <1>1, <1>3 DEF Becomes
<1>5. net'[e] = mine /\ net'[f] = post
  <2>1. net' = [[net EXCEPT ![e] = mine] EXCEPT ![f] = post]
    BY <1>1, <1>3 DEF Becomes
  <2> HIDE DEF f, post
  <2> QED
    BY <1>1, <1>3, <2>1
<1> HIDE DEF f
<1>6. ASSUME NEW p \in Packets PROVE Accounted(e, p)' /\ Accounted(f, p)'
  <2> DEFINE c == Count(tunn[e].packet_queue, {p})     c1 == Count(tunn'[e].packet_queue, {p})
             g == Once(p, gave_up[e])                  g1 == Once(p, gave_up'[e])
             u == Once(p, submitted[e])                u1 == Once(p, submitted'[e])
             d == delivered[e][p]                      d1 == delivered'[e][p]
             n == TimesSealed(net[e], p)               n1 == TimesSealed(net'[e], p)
             m == TimesSealed(net[f], p)               m1 == TimesSealed(net'[f], p)
             s == sealed[e][p]                         x == TimesSealed(r.out, p)
             df == delivered[f][p]                     sf == sealed[f][p]
  <2>1. Accounted(e, p) /\ Accounted(f, p)
    BY <1>1, <1>2
  <2>2. /\ c \in Nat /\ s \in Nat /\ g \in {0, 1} /\ u \in {0, 1} /\ df \in Nat /\ m \in Nat
        /\ d \in Nat /\ n \in Nat /\ sf \in Nat
    BY <1>1, <1>2, CountsTyped
  <2>3. c1 \in Nat /\ n1 \in Nat /\ m1 \in Nat /\ d1 \in Nat /\ g1 \in {0, 1} /\ u1 \in {0, 1}
    <3>1. /\ tunn'[e].packet_queue \in Seq(Payloads)
          /\ net'[e] \in Seq(Message) /\ net'[f] \in Seq(Message)
          /\ delivered'[e][p] \in Nat
      BY <1>1, <1>2 DEF TypeOK, TunnType
    <3> QED
      BY <3>1, CountType, TimesSealedType DEF Once
  <2>4. x \in Nat
    BY TimesSealedType
  <2>5. m1 <= m + x
    BY <1>1, <1>3, <1>5, PostCount
  <2>6. c1 + x + g1 + u = c + g + u1 /\ d1 + n1 <= d + n
    BY <1>4, <1>5 DEF Balances
  <2>7. c + s + g = u /\ df + m <= s /\ d + n <= sf
    BY <1>1, <2>1 DEF Accounted, f
  <2>8. sealed'[e][p] = s + x /\ sealed'[f][p] = sf /\ delivered'[f][p] = df
    BY <1>4 DEF Balances, f
  <2>9. Count(tunn'[f].packet_queue, {p}) + sf + Once(p, gave_up'[f]) = Once(p, submitted'[f])
    BY <1>4, <2>1 DEF Accounted, Balances, f
  <2> HIDE DEF c, c1, g, g1, u, u1, d, d1, n, n1, m, m1, s, x, df, sf
  <2>10. c1 + (s + x) + g1 = u1 /\ df + m1 <= s + x /\ d1 + n1 <= sf
    BY <2>2, <2>3, <2>4, <2>5, <2>6, <2>7
  <2>11. Accounted(e, p)'
    BY <2>8, <2>10 DEF Accounted, c1, g1, u1, m1, f
  <2>12. Accounted(f, p)'
    BY <1>1, <2>8, <2>9, <2>10 DEF Accounted, d1, n1
  <2> QED
    BY <2>11, <2>12
<1>7. PacketsConserved'
  BY <1>1, <1>6, AccountedNext
<1>8. ASSUME NEW g \in Endpoints PROVE Len(tunn'[g].packet_queue) <= MAX_QUEUE_DEPTH
  BY <1>1, <1>4, <1>8 DEF ConservedInv, Balances
<1> QED
  BY <1>7, <1>8 DEF ConservedInv

\* A step that only sends what waits, and takes nothing in.
LEMMA PlainConserved ==
    ASSUME ConservedInv, PairInv', NEW e \in Endpoints, NEW r, r.out \in Seq(Message),
           NEW mine, Becomes(e, r, mine),
           Len(r.tunn.packet_queue) <= MAX_QUEUE_DEPTH,
           \A p \in Packets : /\ Conserves(tunn[e], r, p, 0)
                              /\ TimesSealed(mine, p) <= TimesSealed(net[e], p)
                              /\ TimesSealed(mine, p) \in Nat,
           submitted' = submitted, gave_up' = gave_up, delivered' = delivered
    PROVE  ConservedInv'
<1>1. TypeOK
  BY DEF ConservedInv, PairInv, Inv
<1>2. ASSUME NEW p \in Packets
      PROVE  /\ Count(r.tunn.packet_queue, {p}) + TimesSealed(r.out, p) + Once(p, gave_up'[e])
                    + Once(p, submitted[e])
                 = Count(tunn[e].packet_queue, {p}) + Once(p, gave_up[e]) + Once(p, submitted'[e])
             /\ delivered'[e][p] + TimesSealed(mine, p) <= delivered[e][p] + TimesSealed(net[e], p)
  <2> DEFINE c == Count(tunn[e].packet_queue, {p})
             c1 == Count(r.tunn.packet_queue, {p}) + TimesSealed(r.out, p)
             g == Once(p, gave_up[e])
             u == Once(p, submitted[e])
             n == TimesSealed(net[e], p)
             n1 == TimesSealed(mine, p)
             d == delivered[e][p]
  <2>1. c \in Nat /\ g \in {0, 1} /\ u \in {0, 1} /\ n \in Nat /\ d \in Nat
    BY <1>1, CountsTyped
  <2>2. c1 = c + 0 /\ n1 <= n /\ n1 \in Nat
    BY DEF Conserves
  <2> HIDE DEF c, c1, g, u, n, n1, d
  <2>3. c1 + g + u = c + g + u /\ d + n1 <= d + n
    BY <2>1, <2>2
  <2> QED
    BY <2>3 DEF c, c1, g, u, n, n1, d
<1>3. Balances(e, r, mine)
  BY <1>2 DEF Balances
<1> QED
  BY <1>3, StepConserved

\* The messages under way to an end that sends of its own accord.
LEMMA NetCounted ==
    ASSUME TypeOK, NEW e \in Endpoints, NEW p
    PROVE  TimesSealed(net[e], p) <= TimesSealed(net[e], p) /\ TimesSealed(net[e], p) \in Nat
<1>1. TimesSealed(net[e], p) \in Nat
  BY TimesSealedType DEF TypeOK
<1> QED
  BY <1>1

\* An answer, and the flush loop after it, take nothing in.
LEMMA AnswerConserves ==
    ASSUME NEW t, NEW r, r.tunn \in TunnType, r.out \in Seq(Message),
           r.tunn.packet_queue = t.packet_queue, Len(t.packet_queue) <= MAX_QUEUE_DEPTH,
           NEW k, DrawnIn(ThenFlush(r, k).out) \subseteq Ephemerals,
           NEW p, TimesSealed(r.out, p) = 0
    PROVE  Conserves(t, ThenFlush(r, k), p, 0)
<1> DEFINE u == r.tunn
           f == Flushed(u, k)
           all == ThenFlush(r, k)
<1>1. FlushFits(r, k)
  BY FlushClaims
<1>2. /\ all = Result(f.tunn, r.out \o f.out) /\ all.out = r.out \o f.out
      /\ all.out \in Seq(Message) /\ f.out \in Seq(Message) /\ DrawnIn(f.out) \subseteq Ephemerals
  BY <1>1 DEF FlushFits
<1>3. all.tunn = f.tunn
  BY <1>2 DEF Result
<1>4. Conserves(u, f, p, 0)
  <2>1. u \in TunnType /\ Len(u.packet_queue) <= MAX_QUEUE_DEPTH
    OBVIOUS
  <2> HIDE DEF u
  <2> QED
    BY <1>2, <2>1, FlushedConserves
<1> HIDE DEF f, all
<1>5. TimesSealed(all.out, p) = TimesSealed(r.out, p) + TimesSealed(f.out, p)
  <2>1. Count(r.out \o f.out, Carriers(p)) = Count(r.out, Carriers(p)) + Count(f.out, Carriers(p))
    BY <1>2, CountConcat
  <2> QED
    BY <1>2, <2>1, TimesSealedIs
<1>6. TimesSealed(f.out, p) \in Nat
  BY <1>2, TimesSealedType
<1>7. TimesSealed(all.out, p) = TimesSealed(f.out, p)
  BY <1>5, <1>6
<1> QED
  BY <1>3, <1>4, <1>7 DEF Conserves, u, all

\* The tun handler takes a packet in: it waits, is sealed, or is given up.
LEMMA EncapsulateConserved ==
    ASSUME ConservedInv, PairInv', NEW e \in Endpoints, NEW p \in Packets, Encapsulate(e, p)
    PROVE  ConservedInv'
<1> DEFINE t == tunn[e]
           room == \/ CurrentSession(t) # NoSession
                   \/ Len(t.packet_queue) < MAX_QUEUE_DEPTH
<1>1. /\ TypeOK /\ t \in TunnType /\ Len(t.packet_queue) <= MAX_QUEUE_DEPTH
      /\ \A y \in Packets : Accounted(e, y)
  BY AccountedIs DEF ConservedInv, PairInv, Inv, TypeOK
<1>2. PICK k \in Drawn(Fresh) : Becomes(e, Encapsulated(t, p, k), net[e])
  BY DEF Encapsulate
<1> DEFINE r == Encapsulated(t, p, k)
<1>3. p \in Payloads /\ r.out \in Seq(Message)
  <2>1. p \in Payloads
    BY DEF Payloads
  <2>2. DrawnIn(r.out) \subseteq Ephemerals
    BY <1>2 DEF Becomes
  <2> HIDE DEF t
  <2> QED
    BY <1>1, <2>1, <2>2, EncapsulatedGood DEF Sendable
<1>4. \A y : Conserves(t, r, y, IF p = y /\ room THEN 1 ELSE 0)
  BY <1>1, <1>3, EncapsulatedConserves
<1>5. /\ p \notin submitted[e]
      /\ submitted' = [submitted EXCEPT ![e] = @ \cup {p}]
      /\ gave_up' = IF room THEN gave_up ELSE [gave_up EXCEPT ![e] = @ \cup {p}]
      /\ delivered' = delivered
  <2>1. Len(t.packet_queue) \in Nat /\ MAX_QUEUE_DEPTH \in Nat
    BY <1>1, TunnAssumption, LenProperties DEF TunnType
  <2> QED
    BY <2>1 DEF Encapsulate
<1> HIDE DEF r, room
<1>6. /\ submitted'[e] = submitted[e] \cup {p}
      /\ gave_up'[e] = IF room THEN gave_up[e] ELSE gave_up[e] \cup {p}
      /\ submitted'[Peer(e)] = submitted[Peer(e)] /\ gave_up'[Peer(e)] = gave_up[Peer(e)]
      /\ delivered'[Peer(e)] = delivered[Peer(e)] /\ delivered'[e] = delivered[e]
  BY <1>1, <1>5, PeerType DEF TypeOK
<1>7. ASSUME NEW y \in Packets
      PROVE  /\ Count(r.tunn.packet_queue, {y}) + TimesSealed(r.out, y) + Once(y, gave_up'[e])
                    + Once(y, submitted[e])
                 = Count(t.packet_queue, {y}) + Once(y, gave_up[e]) + Once(y, submitted'[e])
             /\ delivered'[e][y] + TimesSealed(net[e], y) <= delivered[e][y] + TimesSealed(net[e], y)
  <2> DEFINE c == Count(t.packet_queue, {y})
             c1 == Count(r.tunn.packet_queue, {y}) + TimesSealed(r.out, y)
             g == Once(y, gave_up[e])     g1 == Once(y, gave_up'[e])
             u == Once(y, submitted[e])   u1 == Once(y, submitted'[e])
             n == TimesSealed(net[e], y)
             d == delivered[e][y]
             s == sealed[e][y]
  <2>1. /\ c \in Nat /\ g \in {0, 1} /\ u \in {0, 1} /\ n \in Nat /\ d \in Nat /\ s \in Nat
    BY <1>1, CountsTyped
  <2>2. c1 = c + (IF p = y /\ room THEN 1 ELSE 0)
    BY <1>4 DEF Conserves
  <2>3. c + s + g = u
    BY <1>1 DEF Accounted
  <2>4. p # y => u1 = u /\ g1 = g
    BY <1>6 DEF Once
  <2>5. p = y => /\ u = 0 /\ u1 = 1
                 /\ g1 = IF room THEN g ELSE 1
    BY <1>5, <1>6 DEF Once
  <2> HIDE DEF c, c1, g, g1, u, u1, n, d, s
  <2>6. c1 + g1 + u = c + g + u1 /\ d + n <= d + n
    <3>1. CASE p # y
      BY <2>1, <2>2, <2>4, <3>1
    <3>2. CASE p = y /\ room
      BY <2>1, <2>2, <2>5, <3>2
    <3>3. CASE p = y /\ ~room
      BY <2>1, <2>2, <2>3, <2>5, <3>3
    <3> QED
      BY <3>1, <3>2, <3>3
  <2> QED
    BY <1>6, <2>6 DEF c, c1, g, g1, u, u1, n, d
<1>8. Balances(e, r, net[e])
  <2>1. Len(r.tunn.packet_queue) <= MAX_QUEUE_DEPTH
    BY <1>4 DEF Conserves
  <2> QED
    BY <1>6, <1>7, <2>1 DEF Balances
<1> QED
  BY <1>2, <1>3, <1>8, StepConserved DEF r

LEMMA ReceiveInitConserved ==
    ASSUME ConservedInv, PairInv', NEW e \in Endpoints, NEW i \in DOMAIN net[e],
           NEW copied \in BOOLEAN, ReceiveInit(e, i, copied)
    PROVE  ConservedInv'
<1> DEFINE m == net[e][i]
           t == tunn[e]
           o == Outdated(net[e], i)
           mine == Taken(o, i, copied)
<1>1. /\ TypeOK /\ t \in TunnType /\ Len(t.packet_queue) <= MAX_QUEUE_DEPTH
      /\ net[e] \in Seq(Message)
  BY DEF ConservedInv, PairInv, Inv, TypeOK
<1>2. m \in Message /\ m.type = "init"
  BY <1>1, ElementOfSeq, LenProperties DEF ReceiveInit
<1>3. PICK k1 \in Drawn(Fresh) \ {0} :
        \E r \in {ThenFlush(Responded(t, m, k1), k2) : k2 \in Drawn(Fresh \ {k1})} :
            Becomes(e, r, mine)
  BY DEF ReceiveInit
<1>4. PICK k2 \in Drawn(Fresh \ {k1}) : Becomes(e, ThenFlush(Responded(t, m, k1), k2), mine)
  BY <1>3
<1>5. k1 \in Ephemerals
  BY <1>3, DrawnType
<1>6. submitted' = submitted /\ gave_up' = gave_up /\ delivered' = delivered
  BY DEF ReceiveInit
<1>7. ASSUME NEW p
      PROVE  TimesSealed(mine, p) <= TimesSealed(net[e], p) /\ TimesSealed(mine, p) \in Nat
  <2>1. o \in Seq(Message) /\ i \in DOMAIN o /\ TimesSealed(o, p) = TimesSealed(net[e], p)
    BY <1>1, OutdatedType, TakenCount
  <2> HIDE DEF o
  <2>2. TimesSealed(mine, p) <= TimesSealed(o, p)
    BY <2>1, TakenCount
  <2>3. mine \in Seq(Message)
    BY <2>1, RemoveAtType DEF Taken
  <2> QED
    BY <2>1, <2>2, <2>3, TimesSealedType
<1> DEFINE a == Responded(t, m, k1)
           r == ThenFlush(a, k2)
<1> HIDE DEF m, t, mine
<1>8. Responds(t, a)
  BY <1>1, <1>2, <1>5, RespondedType
<1> HIDE DEF a
<1>9. DrawnIn(r.out) \subseteq Ephemerals /\ Becomes(e, r, mine)
  BY <1>4 DEF Becomes, a
<1>10. ASSUME NEW p PROVE Conserves(t, r, p, 0)
  <2>1. TimesSealed(a.out, p) = 0
    BY <1>8, TimesSealedIs DEF Responds
  <2> QED
    BY <1>1, <1>8, <1>9, <2>1, AnswerConserves DEF Responds
<1>11. r.out \in Seq(Message)
  BY <1>8, <1>9, AnswerFlushed DEF Responds, GoodResult, Sendable
<1> HIDE DEF r
<1>12. Len(r.tunn.packet_queue) <= MAX_QUEUE_DEPTH
  BY <1>10 DEF Conserves
<1> QED
  BY <1>6, <1>7, <1>9, <1>10, <1>11, <1>12, PlainConserved DEF t

LEMMA ReceiveResponseConserved ==
    ASSUME ConservedInv, PairInv', NEW e \in Endpoints, NEW i \in DOMAIN net[e],
           NEW copied \in BOOLEAN, ReceiveResponse(e, i, copied)
    PROVE  ConservedInv'
<1> DEFINE m == net[e][i]
           t == tunn[e]
           mine == Taken(net[e], i, copied)
<1>1. /\ TypeOK /\ t \in TunnType /\ Clean(t) /\ Len(t.packet_queue) <= MAX_QUEUE_DEPTH
      /\ net[e] \in Seq(Message)
  BY InvIsGood DEF ConservedInv, PairInv, TypeOK, Good
<1>2. m \in Message /\ m.type = "response" /\ Opens(t, m)
  BY <1>1, ElementOfSeq, LenProperties DEF ReceiveResponse
<1>3. PICK k \in Drawn(Fresh) : Becomes(e, ThenFlush(Established(t, m), k), mine)
  BY DEF ReceiveResponse
<1>4. submitted' = submitted /\ gave_up' = gave_up /\ delivered' = delivered
  BY DEF ReceiveResponse
<1>5. ASSUME NEW p
      PROVE  TimesSealed(mine, p) <= TimesSealed(net[e], p) /\ TimesSealed(mine, p) \in Nat
  <2>1. TimesSealed(mine, p) <= TimesSealed(net[e], p)
    BY <1>1, TakenCount
  <2>2. mine \in Seq(Message)
    BY <1>1, RemoveAtType DEF Taken
  <2> QED
    BY <2>1, <2>2, TimesSealedType
<1> DEFINE a == Established(t, m)
           r == ThenFlush(a, k)
<1> HIDE DEF m, t, mine
<1>6. Establishes(t, a)
  BY <1>1, <1>2, EstablishedType
<1> HIDE DEF a
<1>7. DrawnIn(r.out) \subseteq Ephemerals /\ Becomes(e, r, mine)
  BY <1>3 DEF Becomes, a
<1>8. ASSUME NEW p \in Packets PROVE Conserves(t, r, p, 0)
  <2>1. PICK s : a.out = <<Seal(s, KeepAlive)>>
    BY <1>6 DEF Establishes
  <2>2. TimesSealed(<<Seal(s, KeepAlive)>>, p) = IF KeepAlive = p THEN 1 ELSE 0
    BY TimesSealedIs, Zenon
  <2>3. TimesSealed(a.out, p) = 0
    BY <2>1, <2>2, PacketsAssumption
  <2> QED
    BY <1>1, <1>6, <1>7, <2>3, AnswerConserves DEF Establishes
<1>9. r.out \in Seq(Message)
  BY <1>6, <1>7, AnswerFlushed DEF Establishes, GoodResult, Sendable
<1>10. Len(r.tunn.packet_queue) <= MAX_QUEUE_DEPTH
  <2> DEFINE u == a.tunn
             f == Flushed(u, k)
  <2>1. u \in TunnType /\ Len(u.packet_queue) <= MAX_QUEUE_DEPTH
        /\ DrawnIn(f.out) \subseteq Ephemerals
    BY <1>1, <1>6, <1>7, AnswerFlushed DEF Establishes
  <2>2. r.tunn = f.tunn
    BY DEF ThenFlush, Result
  <2> HIDE DEF u
  <2>3. Conserves(u, f, KeepAlive, 0)
    BY <2>1, FlushedConserves
  <2> QED
    BY <2>2, <2>3 DEF Conserves
<1> HIDE DEF r
<1> QED
  BY <1>4, <1>5, <1>7, <1>8, <1>9, <1>10, PlainConserved DEF t

LEMMA ReceiveDataConserved ==
    ASSUME ConservedInv, PairInv', NEW e \in Endpoints, NEW i \in DOMAIN net[e],
           ReceiveData(e, i)
    PROVE  ConservedInv'
<1> DEFINE m == net[e][i]
           t == tunn[e]
           u == SetCurrent(t, m.receiver)
           r == Result(u, <<>>)
           mine == RemoveAt(net[e], i)
<1>1. /\ TypeOK /\ t \in TunnType /\ Len(t.packet_queue) <= MAX_QUEUE_DEPTH
      /\ net[e] \in Seq(Message)
  BY DEF ConservedInv, PairInv, Inv, TypeOK
<1>2. m \in Message /\ m.type = "data" /\ m.receiver \in Indices
  <2>1. m \in Message /\ m.type = "data"
    BY <1>1, ElementOfSeq, LenProperties DEF ReceiveData
  <2> QED
    BY <2>1 DEF Message
<1>3. Becomes(e, r, mine) /\ submitted' = submitted /\ gave_up' = gave_up
  BY DEF ReceiveData, Taken
<1>4. /\ delivered'[Peer(e)] = delivered[Peer(e)]
      /\ \A p \in Packets : delivered'[e][p] = delivered[e][p] + (IF p = m.payload THEN 1 ELSE 0)
  <2> HIDE DEF m
  <2>1. delivered \in [Endpoints -> [Packets -> Nat]]
    BY <1>1 DEF TypeOK
  <2>2. delivered' = [delivered EXCEPT
            ![e] = [p \in Packets |-> @[p] + (IF p = m.payload THEN 1 ELSE 0)]]
    BY DEF ReceiveData, m
  <2> QED
    BY <2>1, <2>2, PeerType
<1>5. r.tunn = u /\ r.out = <<>> /\ u.packet_queue = t.packet_queue /\ r.out \in Seq(Message)
  BY <1>1, <1>2, SetCurrentType, EmptySeq DEF Result
<1>6. ASSUME NEW p \in Packets
      PROVE  /\ Count(r.tunn.packet_queue, {p}) + TimesSealed(r.out, p) + Once(p, gave_up'[e])
                    + Once(p, submitted[e])
                 = Count(t.packet_queue, {p}) + Once(p, gave_up[e]) + Once(p, submitted'[e])
             /\ delivered'[e][p] + TimesSealed(mine, p) <= delivered[e][p] + TimesSealed(net[e], p)
  <2> DEFINE c == Count(t.packet_queue, {p})
             g == Once(p, gave_up[e])
             w == Once(p, submitted[e])
             n == TimesSealed(net[e], p)
             n1 == TimesSealed(mine, p)
             d == delivered[e][p]
             x == TimesSealed(r.out, p)
  <2>1. c \in Nat /\ g \in {0, 1} /\ w \in {0, 1} /\ n \in Nat /\ d \in Nat
    BY <1>1, CountsTyped
  <2>2. n = n1 + (IF m.type = "data" /\ m.payload = p THEN 1 ELSE 0)
    BY <1>1, TakenCount
  <2>3. n1 \in Nat
    BY <1>1, RemoveAtType, TimesSealedType
  <2>4. x = 0
    <3>1. NoData(r.out)
      BY <1>5 DEF NoData
    <3> QED
      BY <3>1, TimesSealedIs
  <2>5. delivered'[e][p] = d + (IF p = m.payload THEN 1 ELSE 0)
    BY <1>4
  <2> HIDE DEF c, g, w, n, n1, d, x, m
  <2>6. c + x + g + w = c + g + w /\ delivered'[e][p] + n1 <= d + n
    BY <1>2, <2>1, <2>2, <2>3, <2>4, <2>5
  <2> QED
    BY <1>3, <1>5, <2>6 DEF c, g, w, n, n1, d, x
<1> HIDE DEF r, mine, u
<1>7. Balances(e, r, mine)
  BY <1>1, <1>3, <1>4, <1>5, <1>6 DEF Balances
<1> QED
  BY <1>3, <1>5, <1>7, StepConserved

LEMMA LoseConserved ==
    ASSUME ConservedInv, PairInv', NEW e \in Endpoints, NEW i \in DOMAIN net[e], Lose(e, i)
    PROVE  ConservedInv'
<1> DEFINE mine == RemoveAt(net[e], i)
<1>1. /\ TypeOK /\ net \in [Endpoints -> Seq(Message)] /\ net[e] \in Seq(Message)
      /\ \A f \in Endpoints : \A p \in Packets : Accounted(f, p)
  BY AccountedIs DEF ConservedInv, PairInv, Inv, TypeOK
<1>2. /\ net' = [net EXCEPT ![e] = mine] /\ tunn' = tunn /\ submitted' = submitted
      /\ sealed' = sealed /\ gave_up' = gave_up /\ delivered' = delivered
  BY DEF Lose, histories
<1>3. \A p : TimesSealed(mine, p) <= TimesSealed(net[e], p) /\ TimesSealed(mine, p) \in Nat
  <2> SUFFICES ASSUME NEW p
               PROVE  TimesSealed(mine, p) <= TimesSealed(net[e], p) /\ TimesSealed(mine, p) \in Nat
    OBVIOUS
  <2>1. TimesSealed(Taken(net[e], i, FALSE), p) <= TimesSealed(net[e], p)
    BY <1>1, TakenCount
  <2> QED
    BY <1>1, <2>1, RemoveAtType, TimesSealedType DEF Taken
<1> HIDE DEF mine
<1>4. ASSUME NEW f \in Endpoints, NEW p \in Packets PROVE Accounted(f, p)'
  <2> DEFINE g == Peer(f)
             d == delivered[g][p]
             n == TimesSealed(net[g], p)
             n1 == TimesSealed(net'[g], p)
             s == sealed[f][p]
  <2>1. d \in Nat /\ n \in Nat /\ s \in Nat /\ d + n <= s
    BY <1>1, CountsTyped, PeerType DEF Accounted
  <2>2. n1 <= n /\ n1 \in Nat
    <3>1. CASE g = e
      BY <1>1, <1>2, <1>3, <3>1
    <3>2. CASE g # e
      BY <1>1, <1>2, <2>1, <3>2, PeerType
    <3> QED
      BY <3>1, <3>2
  <2> HIDE DEF d, n, n1, s
  <2>3. d + n1 <= s
    BY <2>1, <2>2
  <2> QED
    BY <1>1, <1>2, <2>3 DEF Accounted, d, n1, s
<1>5. PacketsConserved'
  BY <1>4, AccountedNext
<1> QED
  BY <1>2, <1>5 DEF ConservedInv

\* A tunnel that gives up drops the packets that wait, each of which is here
\* alone, and the keepalives.
LEMMA ConnectionExpiredConserved ==
    ASSUME ConservedInv, PairInv', NEW e \in Endpoints, ConnectionExpired(e)
    PROVE  ConservedInv'
<1> DEFINE t == tunn[e]
           q == t.packet_queue
           r == Result(GivenUp(Aged(t)), <<>>)
           dropped == ToSet(q) \ {KeepAlive}
<1>1. /\ TypeOK /\ Good(t) /\ q \in Seq(Payloads)
      /\ \A p \in Packets : Accounted(e, p)
  BY InvIsGood, AccountedIs DEF ConservedInv, PairInv, Inv, Good, TunnType
<1>2. Aged(t).packet_queue = q
  BY <1>1, AgedGood
<1>3. /\ Becomes(e, r, net[e]) /\ submitted' = submitted /\ delivered' = delivered
      /\ gave_up' = [gave_up EXCEPT ![e] = @ \cup dropped]
  BY <1>2 DEF ConnectionExpired, Ages
<1>4. gave_up'[e] = gave_up[e] \cup dropped /\ gave_up'[Peer(e)] = gave_up[Peer(e)]
  BY <1>1, <1>3, PeerType DEF TypeOK
<1>5. r.tunn.packet_queue = <<>> /\ r.out = <<>> /\ r.out \in Seq(Message) /\ NoData(r.out)
  <2>1. Good(Aged(t))
    BY <1>1, AgedGood
  <2>2. GivenUp(Aged(t)).packet_queue = <<>>
    BY <2>1 DEF Good, GivenUp, ClearAll, SetExpired, TunnType
  <2> QED
    BY <2>2, EmptySeq DEF Result, NoData
<1> HIDE DEF r, q, t
<1>6. ASSUME NEW p \in Packets
      PROVE  /\ Count(r.tunn.packet_queue, {p}) + TimesSealed(r.out, p) + Once(p, gave_up'[e])
                    + Once(p, submitted[e])
                 = Count(q, {p}) + Once(p, gave_up[e]) + Once(p, submitted'[e])
             /\ delivered'[e][p] + TimesSealed(net[e], p) <= delivered[e][p] + TimesSealed(net[e], p)
  <2> DEFINE c == Count(q, {p})
             g == Once(p, gave_up[e])     g1 == Once(p, gave_up'[e])
             u == Once(p, submitted[e])
             n == TimesSealed(net[e], p)
             d == delivered[e][p]
             s == sealed[e][p]
  <2>1. c \in Nat /\ g \in {0, 1} /\ u \in {0, 1} /\ n \in Nat /\ d \in Nat /\ s \in Nat
    BY <1>1, CountsTyped DEF q, t
  <2>2. c + s + g = u
    BY <1>1 DEF Accounted, q, t
  <2>3. c = 0 <=> p \notin dropped
    <3>1. IsFiniteSet(Places(q, {p}))
      BY <1>1, CountType
    <3>2. c = 0 <=> Places(q, {p}) = {}
      BY <3>1, FS_EmptySet DEF Count
    <3>3. p # KeepAlive
      BY PacketsAssumption
    <3> QED
      BY <3>2, <3>3 DEF Places, ToSet
  <2>4. g1 = IF p \in dropped THEN 1 ELSE g
    BY <1>4 DEF Once
  <2>5. Count(r.tunn.packet_queue, {p}) = 0 /\ TimesSealed(r.out, p) = 0
    BY <1>5, CountType, EmptySeq, TimesSealedIs
  <2> HIDE DEF c, g, g1, u, n, d, s, dropped
  <2>6. 0 + 0 + g1 + u = c + g + u /\ d + n <= d + n
    <3>1. CASE p \in dropped
      BY <2>1, <2>2, <2>3, <2>4, <3>1
    <3>2. CASE p \notin dropped
      BY <2>1, <2>3, <2>4, <3>2
    <3> QED
      BY <3>1, <3>2
  <2> QED
    BY <1>3, <2>5, <2>6 DEF c, g, g1, u, n, d
<1>7. Len(r.tunn.packet_queue) <= MAX_QUEUE_DEPTH
  BY <1>5, TunnAssumption, EmptySeq
<1>8. Balances(e, r, net[e])
  BY <1>3, <1>4, <1>6, <1>7 DEF Balances, q, t
<1> QED
  BY <1>3, <1>5, <1>8, StepConserved

\* The other outcomes of update_timers take nothing in.
LEMMA UpdateTimersConserved ==
    ASSUME ConservedInv, PairInv', NEW e \in Endpoints, UpdateTimers(e)
    PROVE  ConservedInv'
<1> DEFINE t == Aged(tunn[e])
<1>1. /\ TypeOK /\ Good(tunn[e]) /\ Len(tunn[e].packet_queue) <= MAX_QUEUE_DEPTH
  BY InvIsGood DEF ConservedInv, PairInv, Inv
<1>2. t \in TunnType /\ t.packet_queue = tunn[e].packet_queue
  BY <1>1, AgedGood DEF Good
<1>3. ASSUME NEW r, Ages(e, r), gave_up' = gave_up, r.out \in Seq(Message),
             Len(r.tunn.packet_queue) <= MAX_QUEUE_DEPTH,
             \A p \in Packets : Conserves(t, r, p, 0)
      PROVE  ConservedInv'
  <2>1. \A p \in Packets : Conserves(tunn[e], r, p, 0)
    BY <1>2, <1>3 DEF Conserves
  <2>2. \A p \in Packets : /\ TimesSealed(net[e], p) <= TimesSealed(net[e], p)
                           /\ TimesSealed(net[e], p) \in Nat
    BY <1>1, NetCounted
  <2> QED
    BY <1>3, <2>1, <2>2, PlainConserved DEF Ages
<1>4. ASSUME NEW r, r.tunn.packet_queue = t.packet_queue, NoData(r.out)
      PROVE  /\ Len(r.tunn.packet_queue) <= MAX_QUEUE_DEPTH
             /\ \A p \in Packets : Conserves(t, r, p, 0)
  <2> SUFFICES ASSUME NEW p \in Packets PROVE Conserves(t, r, p, 0)
    BY <1>1, <1>2, <1>4
  <2>1. TimesSealed(r.out, p) = 0
    BY <1>4, TimesSealedIs
  <2>2. Count(t.packet_queue, {p}) \in Nat
    BY <1>2, CountType DEF TunnType
  <2> HIDE DEF t
  <2> QED
    BY <1>1, <1>2, <1>4, <2>1, <2>2 DEF Conserves
<1> HIDE DEF t
<1>5. CASE Idle(e)
  <2> DEFINE r == Result(t, <<>>)
  <2>1. r.tunn.packet_queue = t.packet_queue /\ NoData(r.out) /\ r.out \in Seq(Message)
    BY EmptySeq DEF Result, NoData
  <2>2. Ages(e, r) /\ gave_up' = gave_up
    BY <1>5 DEF Idle, t
  <2> HIDE DEF r
  <2> QED
    BY <1>3, <1>4, <2>1, <2>2
<1>6. ASSUME NEW k, Ages(e, StartHandshake(t, k)), gave_up' = gave_up
      PROVE  ConservedInv'
  <2> DEFINE r == StartHandshake(t, k)
  <2>1. DrawnIn(r.out) \subseteq Ephemerals
    BY <1>6 DEF Ages, Becomes
  <2>2. r.tunn.packet_queue = t.packet_queue /\ r.out \in Seq(Message)
    BY <1>2, <2>1, StartHandshakeGood DEF Sendable
  <2>3. NoData(r.out)
    BY DEF NoData, StartHandshake, Result, InitMsg
  <2> HIDE DEF r
  <2> QED
    BY <1>3, <1>4, <1>6, <2>2, <2>3 DEF r
<1>7. CASE RekeyTimeout(e)
  BY <1>6, <1>7 DEF RekeyTimeout, t
<1>8. CASE Rekey(e)
  BY <1>6, <1>8 DEF Rekey, t
<1>9. CASE SendKeepalive(e)
  <2>1. PICK k \in Drawn(Fresh) : Ages(e, Encapsulated(t, KeepAlive, k))
    BY <1>9 DEF SendKeepalive, t
  <2> DEFINE r == Encapsulated(t, KeepAlive, k)
  <2>2. KeepAlive \in Payloads
    BY DEF Payloads
  <2>3. DrawnIn(r.out) \subseteq Ephemerals
    BY <2>1 DEF Ages, Becomes
  <2>4. r.out \in Seq(Message)
    BY <1>2, <2>2, <2>3, EncapsulatedGood DEF Sendable
  <2>5. \A p : Conserves(t, r, p,
                   IF KeepAlive = p /\ (\/ CurrentSession(t) # NoSession
                                        \/ Len(t.packet_queue) < MAX_QUEUE_DEPTH)
                   THEN 1 ELSE 0)
    BY <1>1, <1>2, <2>2, EncapsulatedConserves
  <2> HIDE DEF r
  <2>6. \A p \in Packets : Conserves(t, r, p, 0)
    BY <2>5, PacketsAssumption
  <2>7. Len(r.tunn.packet_queue) <= MAX_QUEUE_DEPTH
    BY <2>5 DEF Conserves
  <2>8. Ages(e, r) /\ gave_up' = gave_up
    BY <1>9, <2>1 DEF SendKeepalive, r
  <2> QED
    BY <1>3, <2>4, <2>6, <2>7, <2>8
<1> QED
  BY <1>5, <1>7, <1>8, <1>9, ConnectionExpiredConserved DEF UpdateTimers

LEMMA InitConserved == Init => ConservedInv
<1> SUFFICES ASSUME Init PROVE ConservedInv
  OBVIOUS
<1>1. PairInv
  BY InitPair
<1>2. ASSUME NEW e \in Endpoints
      PROVE  /\ tunn[e].packet_queue = <<>> /\ net[e] = <<>>
             /\ submitted[e] = {} /\ gave_up[e] = {}
             /\ \A p \in Packets : sealed[e][p] = 0 /\ delivered[e][p] = 0
  BY DEF Init, NewTunn
<1>3. ASSUME NEW p PROVE Count(<<>>, {p}) = 0 /\ TimesSealed(<<>>, p) = 0
  <2>1. NoData(<<>>)
    BY DEF NoData
  <2>2. <<>> \in Seq(Payloads)
    BY EmptySeq
  <2> QED
    BY <2>1, <2>2, CountType, TimesSealedIs
<1>4. ASSUME NEW e \in Endpoints, NEW p \in Packets PROVE Accounted(e, p)
  <2>1. Count(tunn[e].packet_queue, {p}) = 0 /\ TimesSealed(net[Peer(e)], p) = 0
    BY <1>2, <1>3, PeerType
  <2>2. /\ Once(p, gave_up[e]) = 0 /\ Once(p, submitted[e]) = 0
        /\ sealed[e][p] = 0 /\ delivered[Peer(e)][p] = 0
    BY <1>2, PeerType DEF Once
  <2> QED
    BY <2>1, <2>2 DEF Accounted
<1>5. \A e \in Endpoints : Len(tunn[e].packet_queue) <= MAX_QUEUE_DEPTH
  BY <1>2, TunnAssumption, EmptySeq
<1> QED
  BY <1>1, <1>4, <1>5, AccountedIs DEF ConservedInv

LEMMA NextConserved == ConservedInv /\ [Next]_vars => ConservedInv'
<1> SUFFICES ASSUME ConservedInv, [Next]_vars PROVE ConservedInv'
  OBVIOUS
<1>1. PairInv'
  BY NextPair DEF ConservedInv
<1>2. CASE UNCHANGED vars
  <2>1. \A e \in Endpoints : \A p \in Packets : Accounted(e, p)
    BY AccountedIs DEF ConservedInv
  <2>2. \A e \in Endpoints : \A p \in Packets : Accounted(e, p)'
    BY <1>2, <2>1 DEF Accounted, vars, histories
  <2> QED
    BY <1>1, <1>2, <2>2, AccountedNext DEF ConservedInv, vars
<1>3. ASSUME NEW e \in Endpoints, NEW p \in Packets, Encapsulate(e, p)
      PROVE  ConservedInv'
  BY <1>1, <1>3, EncapsulateConserved
<1>4. ASSUME NEW e \in Endpoints, NEW i \in DOMAIN net[e], NEW copied \in BOOLEAN,
             Receive(e, i, copied)
      PROVE  ConservedInv'
  BY <1>1, <1>4, ReceiveInitConserved, ReceiveResponseConserved, ReceiveDataConserved DEF Receive
<1>5. ASSUME NEW e \in Endpoints, NEW i \in DOMAIN net[e], Lose(e, i)
      PROVE  ConservedInv'
  BY <1>1, <1>5, LoseConserved
<1>6. ASSUME NEW e \in Endpoints, UpdateTimers(e)
      PROVE  ConservedInv'
  BY <1>1, <1>6, UpdateTimersConserved
<1> QED
  BY <1>2, <1>3, <1>4, <1>5, <1>6 DEF Next

\* A packet given to a tunnel waits, was sent once, or was dropped because the
\* queue was full or the connection expired (encapsulate, send_queued_packet,
\* clear_all); the flush loop, which puts a packet back at the end of the queue
\* when there is no session yet, neither loses nor repeats one.
THEOREM PacketsKept == Spec => []PacketsConserved
<1>1. ConservedInv => PacketsConserved
  BY DEF ConservedInv
<1> QED
  BY <1>1, InitConserved, NextConserved, PTL DEF Spec
=============================================================================
