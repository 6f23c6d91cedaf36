---------------------------- MODULE Device_proofs -----------------------------
(***************************************************************************)
(* Proofs about a device.  First its tables and sockets, Device: for every *)
(* set of keys, ports, addresses and networks and any number of peers and  *)
(* descriptors.  Then its threads and their lock, EventLoop: for any set   *)
(* of threads and of configuration events.                                 *)
(***************************************************************************)
EXTENDS Device, EventLoop, FiniteSetTheorems, TLAPS

-----------------------------------------------------------------------------
(* Least elements.                                                         *)

\* A set of numbers that is not empty has a least one: Min finds the lowest free
\* descriptor.
LEMMA LeastNatural ==
    ASSUME NEW S \in SUBSET Nat, S # {}
    PROVE  Min(S) \in S /\ \A n \in S : Min(S) <= n
<1> DEFINE T == {1..n : n \in S}
<1>1. T \subseteq FiniteSubsetsOf(Nat) /\ T # {}
  <2>1. ASSUME NEW n \in S
        PROVE  1..n \in SUBSET Nat /\ IsFiniteSet(1..n)
    <3>1. 1 \in Int /\ n \in Int
      OBVIOUS
    <3> QED
      BY <3>1, FS_Interval
  <2> QED
    BY <2>1 DEF FiniteSubsetsOf
<1>2. PICK x \in T : \A y \in T : ~(<<y, x>> \in StrictSubsetOrdering(Nat))
  BY <1>1, FS_StrictSubsetOrderingWellFounded, WFMin
<1>3. PICK m \in S : x = 1..m
  OBVIOUS
<1>4. ASSUME NEW n \in S, n < m
      PROVE  FALSE
  <2>1. 1..n \subseteq 1..m /\ m \in 1..m /\ m \notin 1..n
    BY <1>4
  <2>2. <<1..n, 1..m>> \in StrictSubsetOrdering(Nat)
    BY <2>1 DEF StrictSubsetOrdering
  <2> QED
    BY <1>2, <1>3, <2>2
<1>5. \E k \in S : \A n \in S : k <= n
  BY <1>4
<1> QED
  BY <1>5 DEF Min

\* Of the networks that hold one address, any set that is not empty has a smallest
\* one: AllowedIps::find always ends at the longest prefix.
LEMMA LeastNetwork ==
    ASSUME NEW H \in SUBSET Networks, H # {}, NEW d, \A n \in H : d \in n
    PROVE  \E n \in H : \A m \in H : n \subseteq m
<1>1. H \subseteq FiniteSubsetsOf(Destinations)
  BY DeviceAssumption DEF FiniteSubsetsOf, Destinations
<1>2. PICK n \in H : \A m \in H : ~(<<m, n>> \in StrictSubsetOrdering(Destinations))
  BY <1>1, FS_StrictSubsetOrderingWellFounded, WFMin
<1>3. ASSUME NEW m \in H
      PROVE  n \subseteq m
  <2>1. n \subseteq m \/ m \subseteq n
    BY DeviceAssumption
  <2>2. CASE m \subseteq n /\ m # n
    <3>1. m \in SUBSET Destinations /\ n \in SUBSET Destinations
      BY DEF Destinations
    <3>2. <<m, n>> \in StrictSubsetOrdering(Destinations)
      BY <2>2, <3>1 DEF StrictSubsetOrdering
    <3> QED
      BY <1>2, <3>2
  <2> QED
    BY <2>1, <2>2
<1> QED
  BY <1>3

-----------------------------------------------------------------------------
(* The kernel.                                                             *)

SocketRecord == [to : Addrs \cup {Nothing}, port : Ports \cup {Nothing}, shut : BOOLEAN]

Kernel == [fds : [Fd -> Socket \cup {0}], sockets : [Socket -> SocketRecord]]

Handlers == {UdpHandler, NoHandler} \cup {ConnHandler(i) : i \in Index}

\* 0 is no descriptor, no socket and no peer.
LEMMA ZeroIsNone ==
    /\ 0 \notin Fd /\ 0 \notin Socket /\ 0 \notin Index
    /\ Fd \subseteq Nat /\ Socket \subseteq Nat /\ Index \subseteq Nat
    /\ NoFd = 0 /\ NoIndex = 0 /\ Fd = Socket
BY DeviceAssumption DEF Fd, Socket, Index, NoFd, NoIndex

\* The three records of sockets that the code makes.
LEMMA SocketRecords ==
    /\ Closed \in SocketRecord /\ ShutDown \in SocketRecord /\ Listening \in SocketRecord
    /\ ShutDown.shut /\ ShutDown # Listening /\ ~Listening.shut /\ Listening.to = Nothing
BY DEF Closed, ShutDown, Listening, SocketRecord

\* The handlers of the listening socket, of a peer's socket, and none are told
\* apart, and those of two peers.
LEMMA HandlersDiffer ==
    /\ UdpHandler # NoHandler
    /\ \A i \in Index : ConnHandler(i) # UdpHandler /\ ConnHandler(i) # NoHandler
    /\ \A i, j \in Index : ConnHandler(i) = ConnHandler(j) => i = j
    /\ \A i \in Index : ConnHandler(i).kind = "conn" /\ ConnHandler(i).peer = i
    /\ UdpHandler.kind # "conn" /\ NoHandler.kind # "conn"
BY DEF UdpHandler, NoHandler, ConnHandler

\* What closing descriptors does: the others lead where they led.
LEMMA CloseFacts ==
    ASSUME NEW k \in Kernel, NEW fs \in SUBSET Fd
    PROVE  /\ Close(k, fs) \in Kernel
           /\ Close(k, fs).fds = [f \in Fd |-> IF f \in fs THEN 0 ELSE k.fds[f]]
           /\ \A f \in Fd \ fs : k.fds[f] # 0 =>
                  SocketAt(Close(k, fs), f) = SocketAt(k, f)
<1> DEFINE fds == [f \in Fd |-> IF f \in fs THEN 0 ELSE k.fds[f]]
           sockets == [s \in Socket |-> IF \E f \in Fd : fds[f] = s THEN k.sockets[s] ELSE Closed]
<1>1. k.fds \in [Fd -> Socket \cup {0}] /\ k.sockets \in [Socket -> SocketRecord]
  BY DEF Kernel
<1>2. fds \in [Fd -> Socket \cup {0}] /\ \A f \in Fd \ fs : fds[f] = k.fds[f]
  BY <1>1
<1>3. sockets \in [Socket -> SocketRecord]
  BY <1>1, SocketRecords
<1>4. Close(k, fs) = [fds |-> fds, sockets |-> sockets]
  BY DEF Close
<1>5. ASSUME NEW f \in Fd \ fs, k.fds[f] # 0
      PROVE  sockets[fds[f]] = k.sockets[k.fds[f]]
  BY <1>1, <1>2, <1>5
<1> HIDE DEF fds, sockets
<1>6. Close(k, fs).fds = fds /\ Close(k, fs).sockets = sockets
  BY <1>4
<1>7. Close(k, fs) \in Kernel
  BY <1>2, <1>3, <1>4 DEF Kernel
<1> QED
  BY <1>5, <1>6, <1>7 DEF SocketAt, fds

\* What shutting sockets down does: their descriptors are closed, and any other
\* that leads to one of them finds it shut.
LEMMA ShutFacts ==
    ASSUME NEW k \in Kernel, NEW fs \in SUBSET Fd
    PROVE  /\ Shut(k, fs) \in Kernel
           /\ Shut(k, fs).fds = [f \in Fd |-> IF f \in fs THEN 0 ELSE k.fds[f]]
           /\ \A f \in Fd \ fs : k.fds[f] # 0 =>
                  SocketAt(Shut(k, fs), f) = IF \E g \in fs : k.fds[g] = k.fds[f]
                                             THEN ShutDown ELSE SocketAt(k, f)
<1> DEFINE sockets == [s \in Socket |-> IF \E f \in fs : k.fds[f] = s THEN ShutDown
                                        ELSE k.sockets[s]]
           b == [k EXCEPT !.sockets = sockets]
<1>1. k.fds \in [Fd -> Socket \cup {0}] /\ k.sockets \in [Socket -> SocketRecord]
  BY DEF Kernel
<1>2. sockets \in [Socket -> SocketRecord]
  BY <1>1, SocketRecords
<1>3. Shut(k, fs) = Close(b, fs)
  BY DEF Shut
<1>4. \A f \in Fd : k.fds[f] # 0 =>
          sockets[k.fds[f]] = IF \E g \in fs : k.fds[g] = k.fds[f] THEN ShutDown
                              ELSE k.sockets[k.fds[f]]
  BY <1>1
<1> HIDE DEF sockets
<1>5. b \in Kernel /\ b.fds = k.fds /\ b.sockets = sockets
  BY <1>2 DEF Kernel
<1> HIDE DEF b
<1> QED
  BY <1>3, <1>4, <1>5, CloseFacts DEF SocketAt

\* There are finitely many descriptors.
LEMMA FdFinite == IsFiniteSet(Fd) /\ Cardinality(Fd) \in Nat
<1>1. 1 \in Int /\ MaxFd \in Int
  BY DeviceAssumption
<1>2. IsFiniteSet(Fd)
  BY <1>1, FS_Interval DEF Fd
<1> QED
  BY <1>2, FS_CardinalityType

\* The two free descriptors that a socket and its clone need, as the numbers that
\* the system gives.
LEMMA TwoFree ==
    ASSUME NEW k \in Kernel, HasFds(k, 2)
    PROVE  /\ FreeFd(k) \in Fd /\ k.fds[FreeFd(k)] = 0
           /\ \E g \in Fd : g # FreeFd(k) /\ k.fds[g] = 0
<1> DEFINE free == {f \in Fd : k.fds[f] = 0}
<1>1. Cardinality(free) >= 2 /\ free \in SUBSET Nat
  BY ZeroIsNone DEF HasFds
<1>2. IsFiniteSet(free)
  BY FdFinite, FS_Subset
<1>3. free # {}
  BY <1>1, FS_EmptySet
<1>4. FreeFd(k) \in free
  BY <1>1, <1>3, LeastNatural DEF FreeFd
<1>5. \E g \in free : g # FreeFd(k)
  <2> SUFFICES ASSUME free = {FreeFd(k)} PROVE FALSE
    BY <1>4
  <2>1. Cardinality({FreeFd(k)}) = 1
    BY FS_Singleton
  <2> QED
    BY <1>1, <2>1
<1> QED
  BY <1>4, <1>5

\* With a free descriptor there is a number for a new socket: fewer sockets are
\* open than there are descriptors.
LEMMA SocketFree ==
    ASSUME NEW k \in Kernel, NEW f \in Fd, k.fds[f] = 0
    PROVE  FreeSocket(k) \in Socket /\ \A g \in Fd : k.fds[g] # FreeSocket(k)
<1> DEFINE used == {g \in Fd : k.fds[g] # 0}
           open == {k.fds[g] : g \in used}
           free == {s \in Socket : \A g \in Fd : k.fds[g] # s}
           m == [g \in used |-> k.fds[g]]
<1>1. IsFiniteSet(Fd) /\ Cardinality(Fd) \in Nat
  BY FdFinite
<1>2. used \in SUBSET (Fd \ {f})
  OBVIOUS
<1>3. IsFiniteSet(Fd \ {f}) /\ Cardinality(Fd \ {f}) = Cardinality(Fd) - 1
  BY <1>1, FS_RemoveElement
<1>4. IsFiniteSet(used) /\ Cardinality(used) <= Cardinality(Fd) - 1
  BY <1>2, <1>3, FS_Subset
<1>5. m \in Surjection(used, open)
  BY DEF Surjection
<1>6. IsFiniteSet(open) /\ Cardinality(open) <= Cardinality(used)
  BY <1>4, <1>5, FS_Surjection
<1>7. Cardinality(used) \in Nat /\ Cardinality(open) \in Nat
  BY <1>4, <1>6, FS_CardinalityType
<1>8. free # {}
  <2> SUFFICES ASSUME free = {} PROVE FALSE
    OBVIOUS
  <2>1. Fd \subseteq open
    BY ZeroIsNone
  <2>2. Cardinality(Fd) <= Cardinality(open)
    BY <1>6, <2>1, FS_Subset
  <2> QED
    BY <1>1, <1>4, <1>6, <1>7, <2>2
<1>9. free \in SUBSET Nat
  BY ZeroIsNone
<1> QED
  BY <1>8, <1>9, LeastNatural DEF FreeSocket

\* n is k with one more socket s, at own and at clone, and nothing else changed.
Opens(k, n, own, clone, s) ==
    /\ own \in Fd /\ clone \in Fd /\ own # clone
    /\ k.fds[own] = 0 /\ k.fds[clone] = 0
    /\ s \in Socket /\ \A g \in Fd : k.fds[g] # s
    /\ n \in Kernel /\ n.fds = [k.fds EXCEPT ![own] = s, ![clone] = s]
    /\ \A g \in Fd : k.fds[g] # 0 => SocketAt(n, g) = SocketAt(k, g)

\* A new socket and its clone.
LEMMA OpenedFacts ==
    ASSUME NEW k \in Kernel, HasFds(k, 2), NEW socket \in SocketRecord,
           NEW own, own = FreeFd(k),
           NEW n, n = Opened(k, socket),
           NEW clone, clone = FreeFd(n)
    PROVE  /\ Opens(k, Cloned(n, own), own, clone, FreeSocket(k))
           /\ SocketAt(Cloned(n, own), own) = socket
           /\ SocketAt(Cloned(n, own), clone) = socket
<1> DEFINE s == FreeSocket(k)
           c == Cloned(n, own)
<1>1. own \in Fd /\ k.fds[own] = 0 /\ \E g \in Fd : g # own /\ k.fds[g] = 0
  BY TwoFree
<1>2. s \in Socket /\ \A g \in Fd : k.fds[g] # s
  BY <1>1, SocketFree
<1>3. k.fds \in [Fd -> Socket \cup {0}] /\ k.sockets \in [Socket -> SocketRecord]
  BY DEF Kernel
<1>4. n = [k EXCEPT !.fds = [k.fds EXCEPT ![own] = s],
                    !.sockets = [k.sockets EXCEPT ![s] = socket]]
  BY DEF Opened, Kernel
<1> HIDE DEF s
<1>5. /\ n \in Kernel
      /\ n.fds = [k.fds EXCEPT ![own] = s]
      /\ n.sockets = [k.sockets EXCEPT ![s] = socket]
  <2> DEFINE fds == [k.fds EXCEPT ![own] = s]
             sockets == [k.sockets EXCEPT ![s] = socket]
  <2>1. fds \in [Fd -> Socket \cup {0}] /\ sockets \in [Socket -> SocketRecord]
    BY <1>1, <1>2, <1>3
  <2>2. n = [k EXCEPT !.fds = fds, !.sockets = sockets]
    BY <1>4
  <2> HIDE DEF fds, sockets
  <2>3. n \in Kernel /\ n.fds = fds /\ n.sockets = sockets
    BY <2>1, <2>2 DEF Kernel
  <2> QED
    BY <2>3 DEF fds, sockets
<1>6. clone \in Fd /\ n.fds[clone] = 0
  <2> DEFINE free == {g \in Fd : n.fds[g] = 0}
  <2>1. free # {} /\ free \in SUBSET Nat
    BY <1>1, <1>3, <1>5, ZeroIsNone
  <2> QED
    BY <2>1, LeastNatural DEF FreeFd
<1>7. own # clone /\ k.fds[clone] = 0
  BY <1>1, <1>2, <1>3, <1>5, <1>6, ZeroIsNone
<1>8. c = [n EXCEPT !.fds = [n.fds EXCEPT ![clone] = n.fds[own]]]
  BY DEF Cloned, Kernel
<1>9. n.fds[own] = s
  BY <1>1, <1>3, <1>5
<1>10. /\ c.fds = [n.fds EXCEPT ![clone] = s]
       /\ c.sockets = n.sockets
       /\ c \in Kernel
  BY <1>2, <1>5, <1>6, <1>8, <1>9 DEF Kernel
<1> HIDE DEF c
<1>11. c.fds = [k.fds EXCEPT ![own] = s, ![clone] = s]
  BY <1>5, <1>10
<1>12. SocketAt(c, own) = socket /\ SocketAt(c, clone) = socket
  BY <1>1, <1>2, <1>3, <1>5, <1>6, <1>10, <1>11 DEF SocketAt
<1>13. ASSUME NEW g \in Fd, k.fds[g] # 0
       PROVE  SocketAt(c, g) = SocketAt(k, g)
  <2>1. g # own /\ g # clone /\ k.fds[g] # s /\ k.fds[g] \in Socket
    BY <1>1, <1>2, <1>3, <1>7, <1>13
  <2>2. c.fds[g] = k.fds[g]
    BY <1>3, <1>11, <2>1
  <2> QED
    BY <1>3, <1>5, <1>10, <2>1, <2>2 DEF SocketAt
<1> QED
  BY <1>1, <1>2, <1>6, <1>7, <1>10, <1>11, <1>12, <1>13 DEF Opens, c, s

-----------------------------------------------------------------------------
(* The owners of descriptors: k is a kernel, e the events, u the device's  *)
(* socket and c the peers' sockets.                                        *)

KernelTypes(k, e, u, c) ==
    /\ k \in Kernel
    /\ e \in [Fd -> Handlers]
    /\ u \in Fd \cup {NoFd}
    /\ c \in [Index -> Fd \cup {NoFd}]

\* An open descriptor has an owner, and no second one.
Owned(k, e, u, c) ==
    /\ \A f \in Fd : e[f] # NoHandler =>
           k.fds[f] # 0 /\ f # u /\ \A i \in Index : c[i] # f
    /\ u # NoFd => k.fds[u] # 0 /\ \A i \in Index : c[i] # u
    /\ \A i \in Index : c[i] # NoFd => k.fds[c[i]] # 0
    /\ \A i, j \in Index : c[i] = c[j] /\ c[i] # NoFd => i = j
    /\ \A f \in Fd : k.fds[f] # 0 =>
           e[f] # NoHandler \/ f = u \/ \E i \in Index : c[i] = f

\* A peer's socket is open and has a handler of that peer; the handler of a socket
\* that is not the peer's waits for the end of a socket that was shut down.
Heard(k, e, c) ==
    /\ \A f \in Fd : e[f] = UdpHandler => SocketAt(k, f) = Listening
    /\ \A f \in Fd, i \in Index : e[f] = ConnHandler(i) =>
           SocketAt(k, f).shut \/ (c[i] # NoFd /\ k.fds[c[i]] = k.fds[f])
    /\ \A i \in Index : c[i] # NoFd =>
           /\ ~SocketAt(k, c[i]).shut
           /\ SocketAt(k, c[i]) # Listening
           /\ \E f \in Fd : e[f] = ConnHandler(i) /\ k.fds[f] = k.fds[c[i]]
    /\ \A f, g \in Fd : e[f] # NoHandler /\ e[g] # NoHandler /\ k.fds[f] = k.fds[g] => f = g

Good(k, e, u, c) == KernelTypes(k, e, u, c) /\ Owned(k, e, u, c) /\ Heard(k, e, c)

\* The peers' sockets without those of P.
Without(c, P) == [i \in Index |-> IF i \in P THEN NoFd ELSE c[i]]

FdsOf(c, P) == {c[i] : i \in P} \ {NoFd}

\* A handler is the listening socket's or a peer's.
LEMMA HandlerKinds ==
    ASSUME NEW e \in [Fd -> Handlers], NEW f \in Fd, e[f] # NoHandler
    PROVE  e[f] = UdpHandler \/ \E i \in Index : e[f] = ConnHandler(i)
BY DEF Handlers

\* What leads to the same socket finds the same there.
LEMMA SameSocket ==
    ASSUME NEW k, NEW f, NEW g, k.fds[f] = k.fds[g]
    PROVE  SocketAt(k, f) = SocketAt(k, g)
BY DEF SocketAt

\* The start of open_listen_socket: the device's own descriptor is closed.
LEMMA OwnClosed ==
    ASSUME NEW k, NEW e, NEW u, NEW c, Good(k, e, u, c),
           NEW n, n = Close(k, {u} \ {NoFd})
    PROVE  /\ Good(n, e, NoFd, c)
           /\ \A i \in Index : c[i] # NoFd => SocketAt(n, c[i]) = SocketAt(k, c[i])
<1> DEFINE fs == {u} \ {NoFd}
<1>1. KernelTypes(k, e, u, c) /\ fs \in SUBSET Fd
  BY DEF Good, KernelTypes
<1>2. /\ n \in Kernel
      /\ n.fds = [f \in Fd |-> IF f \in fs THEN 0 ELSE k.fds[f]]
      /\ \A f \in Fd \ fs : k.fds[f] # 0 => SocketAt(n, f) = SocketAt(k, f)
  BY <1>1, CloseFacts DEF KernelTypes
<1>3. \A f \in Fd : f # u => n.fds[f] = k.fds[f]
  BY <1>2
<1>4. u # NoFd => n.fds[u] = 0
  BY <1>1, <1>2 DEF KernelTypes
<1>5. \A f \in Fd : e[f] # NoHandler => f \notin fs /\ k.fds[f] # 0 /\ n.fds[f] = k.fds[f]
  BY <1>3 DEF Good, Owned
<1>6. \A i \in Index : c[i] # NoFd =>
          c[i] \in Fd \ fs /\ k.fds[c[i]] # 0 /\ n.fds[c[i]] = k.fds[c[i]]
  BY <1>1, <1>3 DEF Good, Owned, KernelTypes
<1> HIDE DEF fs
<1>7. /\ \A f \in Fd : e[f] # NoHandler => SocketAt(n, f) = SocketAt(k, f)
      /\ \A i \in Index : c[i] # NoFd => SocketAt(n, c[i]) = SocketAt(k, c[i])
  BY <1>2, <1>5, <1>6
<1>8. KernelTypes(n, e, NoFd, c)
  BY <1>1, <1>2 DEF KernelTypes
<1>9. Owned(n, e, NoFd, c)
  <2>1. \A f \in Fd : n.fds[f] # 0 => f # u /\ k.fds[f] # 0
    BY <1>3, <1>4, ZeroIsNone
  <2>2. \A f \in Fd : f # NoFd
    BY ZeroIsNone
  <2> QED
    BY <1>5, <1>6, <2>1, <2>2 DEF Good, Owned
<1>10. Heard(n, e, c)
  <2>1. \A f \in Fd : e[f] = UdpHandler => SocketAt(n, f) = Listening
    BY <1>7, HandlersDiffer DEF Good, Heard
  <2>2. ASSUME NEW f \in Fd, NEW i \in Index, e[f] = ConnHandler(i)
        PROVE  SocketAt(n, f).shut \/ (c[i] # NoFd /\ n.fds[c[i]] = n.fds[f])
    <3>1. e[f] # NoHandler
      BY <2>2, HandlersDiffer
    <3>2. SocketAt(k, f).shut \/ (c[i] # NoFd /\ k.fds[c[i]] = k.fds[f])
      BY <2>2 DEF Good, Heard
    <3> QED
      BY <1>5, <1>6, <1>7, <3>1, <3>2
  <2>3. ASSUME NEW i \in Index, c[i] # NoFd
        PROVE  /\ ~SocketAt(n, c[i]).shut
               /\ SocketAt(n, c[i]) # Listening
               /\ \E f \in Fd : e[f] = ConnHandler(i) /\ n.fds[f] = n.fds[c[i]]
    <3>1. PICK f \in Fd : e[f] = ConnHandler(i) /\ k.fds[f] = k.fds[c[i]]
      BY <2>3 DEF Good, Heard
    <3>2. n.fds[f] = n.fds[c[i]]
      BY <1>5, <1>6, <2>3, <3>1, HandlersDiffer
    <3> QED
      BY <1>7, <2>3, <3>1, <3>2 DEF Good, Heard
  <2>4. \A f, g \in Fd : e[f] # NoHandler /\ e[g] # NoHandler /\ n.fds[f] = n.fds[g] => f = g
    BY <1>5 DEF Good, Heard
  <2> QED
    BY <2>1, <2>2, <2>3, <2>4 DEF Heard
<1> QED
  BY <1>7, <1>8, <1>9, <1>10 DEF Good

\* shutdown_endpoint of the peers P.
LEMMA ConnsShut ==
    ASSUME NEW k, NEW e, NEW u, NEW c, Good(k, e, u, c), NEW P \in SUBSET Index,
           NEW n, n = Shut(k, FdsOf(c, P))
    PROVE  /\ Good(n, e, u, Without(c, P))
           /\ \A i \in Index \ P : c[i] # NoFd => SocketAt(n, c[i]) = SocketAt(k, c[i])
<1> DEFINE fs == FdsOf(c, P)
           d == Without(c, P)
<1>1. KernelTypes(k, e, u, c) /\ fs \in SUBSET Fd
  BY DEF Good, KernelTypes, FdsOf
<1>2. /\ n \in Kernel
      /\ n.fds = [f \in Fd |-> IF f \in fs THEN 0 ELSE k.fds[f]]
      /\ \A f \in Fd \ fs : k.fds[f] # 0 =>
             SocketAt(n, f) = IF \E g \in fs : k.fds[g] = k.fds[f]
                              THEN ShutDown ELSE SocketAt(k, f)
  BY <1>1, ShutFacts DEF KernelTypes
<1>3. /\ d \in [Index -> Fd \cup {NoFd}]
      /\ \A i \in P : d[i] = NoFd
      /\ \A i \in Index \ P : d[i] = c[i]
  BY <1>1 DEF KernelTypes, Without
<1>4. \A f \in Fd : f \in fs <=> \E i \in P : c[i] = f /\ c[i] # NoFd
  BY ZeroIsNone DEF FdsOf
<1> HIDE DEF fs, d
<1>5. \A f \in Fd \ fs : n.fds[f] = k.fds[f]
  BY <1>2
<1>6. \A f \in fs : n.fds[f] = 0
  BY <1>1, <1>2
<1>7. \A f \in Fd : e[f] # NoHandler => f \in Fd \ fs /\ k.fds[f] # 0
  BY <1>4 DEF Good, Owned
<1>8. \A i \in Index \ P : c[i] # NoFd => c[i] \in Fd \ fs /\ k.fds[c[i]] # 0
  BY <1>1, <1>4 DEF Good, Owned, KernelTypes
<1>9. ASSUME NEW f \in Fd, e[f] = UdpHandler
      PROVE  SocketAt(n, f) = SocketAt(k, f)
  <2>1. f \in Fd \ fs /\ k.fds[f] # 0 /\ SocketAt(k, f) = Listening
    BY <1>7, <1>9, HandlersDiffer DEF Good, Heard
  <2>2. \A g \in fs : k.fds[g] # k.fds[f]
    BY <1>1, <1>4, <2>1, SameSocket DEF Good, Heard
  <2> QED
    BY <1>2, <2>1, <2>2
<1>10. ASSUME NEW i \in Index \ P, c[i] # NoFd
       PROVE  SocketAt(n, c[i]) = SocketAt(k, c[i])
  <2>1. c[i] \in Fd \ fs /\ k.fds[c[i]] # 0
    BY <1>8, <1>10
  <2>2. ASSUME NEW j \in P, c[j] # NoFd, k.fds[c[j]] = k.fds[c[i]]
        PROVE  FALSE
    <3>1. PICK f \in Fd : e[f] = ConnHandler(i) /\ k.fds[f] = k.fds[c[i]]
      BY <1>10 DEF Good, Heard
    <3>2. PICK g \in Fd : e[g] = ConnHandler(j) /\ k.fds[g] = k.fds[c[j]]
      BY <2>2 DEF Good, Heard
    <3>3. f = g
      BY <2>2, <3>1, <3>2, HandlersDiffer DEF Good, Heard
    <3> QED
      BY <2>2, <3>1, <3>2, <3>3, HandlersDiffer
  <2>3. \A g \in fs : k.fds[g] # k.fds[c[i]]
    BY <1>1, <1>4, <2>2
  <2> QED
    BY <1>2, <2>1, <2>3
<1>11. KernelTypes(n, e, u, d)
  BY <1>1, <1>2, <1>3 DEF KernelTypes
<1>12. Owned(n, e, u, d)
  <2>1. \A f \in Fd : e[f] # NoHandler => n.fds[f] # 0 /\ f # u /\ \A i \in Index : d[i] # f
    BY <1>3, <1>5, <1>7, ZeroIsNone DEF Good, Owned
  <2>2. u # NoFd => n.fds[u] # 0 /\ \A i \in Index : d[i] # u
    <3>1. u # NoFd => u \in Fd \ fs
      BY <1>1, <1>4 DEF Good, Owned, KernelTypes
    <3> QED
      BY <1>3, <1>5, <3>1 DEF Good, Owned
  <2>3. /\ \A i \in Index : d[i] # NoFd => n.fds[d[i]] # 0
        /\ \A i, j \in Index : d[i] = d[j] /\ d[i] # NoFd => i = j
    BY <1>3, <1>5, <1>8 DEF Good, Owned
  <2>4. ASSUME NEW f \in Fd, n.fds[f] # 0
        PROVE  e[f] # NoHandler \/ f = u \/ \E i \in Index : d[i] = f
    <3>1. f \notin fs /\ k.fds[f] # 0
      BY <1>5, <1>6, <2>4
    <3>2. ASSUME NEW i \in Index, c[i] = f
          PROVE  d[i] = f
      BY <1>3, <1>4, <3>1, <3>2, ZeroIsNone
    <3> QED
      BY <3>1, <3>2 DEF Good, Owned
  <2> QED
    BY <2>1, <2>2, <2>3, <2>4 DEF Owned
<1>13. Heard(n, e, d)
  <2>1. \A f \in Fd : e[f] = UdpHandler => SocketAt(n, f) = Listening
    BY <1>9 DEF Good, Heard
  <2>2. ASSUME NEW f \in Fd, NEW i \in Index, e[f] = ConnHandler(i)
        PROVE  SocketAt(n, f).shut \/ (d[i] # NoFd /\ n.fds[d[i]] = n.fds[f])
    <3>1. f \in Fd \ fs /\ k.fds[f] # 0
      BY <1>7, <2>2, HandlersDiffer
    <3>2. SocketAt(n, f) = ShutDown \/ SocketAt(n, f) = SocketAt(k, f)
      BY <1>2, <3>1
    <3>3. CASE SocketAt(k, f).shut
      BY <3>2, <3>3, SocketRecords
    <3>4. CASE c[i] # NoFd /\ k.fds[c[i]] = k.fds[f] /\ i \in P
      <4>1. c[i] \in fs
        BY <1>1, <1>4, <3>4 DEF KernelTypes
      <4>2. SocketAt(n, f) = ShutDown
        BY <1>2, <3>1, <3>4, <4>1
      <4> QED
        BY <4>2, SocketRecords
    <3>5. CASE c[i] # NoFd /\ k.fds[c[i]] = k.fds[f] /\ i \notin P
      BY <1>3, <1>5, <1>8, <3>1, <3>5
    <3> QED
      BY <2>2, <3>3, <3>4, <3>5 DEF Good, Heard
  <2>3. ASSUME NEW i \in Index, d[i] # NoFd
        PROVE  /\ ~SocketAt(n, d[i]).shut
               /\ SocketAt(n, d[i]) # Listening
               /\ \E f \in Fd : e[f] = ConnHandler(i) /\ n.fds[f] = n.fds[d[i]]
    <3>1. i \in Index \ P /\ d[i] = c[i]
      BY <1>3, <2>3
    <3>2. n.fds[c[i]] = k.fds[c[i]] /\ SocketAt(n, c[i]) = SocketAt(k, c[i])
      BY <1>5, <1>8, <1>10, <2>3, <3>1
    <3>3. PICK f \in Fd : e[f] = ConnHandler(i) /\ k.fds[f] = k.fds[c[i]]
      BY <2>3, <3>1 DEF Good, Heard
    <3>4. n.fds[f] = k.fds[f]
      BY <1>5, <1>7, <3>3, HandlersDiffer
    <3> QED
      BY <2>3, <3>1, <3>2, <3>3, <3>4 DEF Good, Heard
  <2>4. \A f, g \in Fd : e[f] # NoHandler /\ e[g] # NoHandler /\ n.fds[f] = n.fds[g] => f = g
    BY <1>5, <1>7 DEF Good, Heard
  <2> QED
    BY <2>1, <2>2, <2>3, <2>4 DEF Heard
<1> QED
  BY <1>10, <1>11, <1>12, <1>13 DEF Good, d

\* What every opening of a socket does to the others: they stay where they are.
LEMMA OpenedApart ==
    ASSUME NEW k, NEW e, NEW u, NEW c, Good(k, e, u, c),
           NEW n, NEW own, NEW clone, NEW s, Opens(k, n, own, clone, s)
    PROVE  /\ n.fds[own] = s /\ n.fds[clone] = s
           /\ e[own] = NoHandler /\ e[clone] = NoHandler
           /\ u # own /\ u # clone
           /\ \A i \in Index : c[i] # own /\ c[i] # clone
           /\ \A g \in Fd : g # own /\ g # clone => n.fds[g] = k.fds[g] /\ n.fds[g] # s
           /\ \A g \in Fd : e[g] # NoHandler => n.fds[g] = k.fds[g] /\ n.fds[g] # s
           /\ \A i \in Index : c[i] # NoFd =>
                  c[i] \in Fd /\ k.fds[c[i]] # 0 /\ n.fds[c[i]] = k.fds[c[i]] /\ n.fds[c[i]] # s
<1>1. KernelTypes(k, e, u, c) /\ Owned(k, e, u, c)
  BY DEF Good
<1>2. /\ k.fds \in [Fd -> Socket \cup {0}]
      /\ own \in Fd /\ clone \in Fd
      /\ k.fds[own] = 0 /\ k.fds[clone] = 0
      /\ \A g \in Fd : k.fds[g] # s
      /\ n.fds = [k.fds EXCEPT ![own] = s, ![clone] = s]
  BY <1>1 DEF KernelTypes, Kernel, Opens
<1>3. n.fds[own] = s /\ n.fds[clone] = s
  BY <1>2
<1>4. \A g \in Fd : g # own /\ g # clone => n.fds[g] = k.fds[g] /\ n.fds[g] # s
  BY <1>2
<1>5. e[own] = NoHandler /\ e[clone] = NoHandler /\ u # own /\ u # clone
  BY <1>1, <1>2, ZeroIsNone DEF Owned
<1>6. \A i \in Index : c[i] # own /\ c[i] # clone
  BY <1>1, <1>2, ZeroIsNone DEF Owned
<1>7. \A i \in Index : c[i] # NoFd => c[i] \in Fd /\ k.fds[c[i]] # 0
  BY <1>1 DEF Owned, KernelTypes
<1> QED
  BY <1>3, <1>4, <1>5, <1>6, <1>7

\* open_listen_socket: a listening socket at own, its clone with the handler.
LEMMA ListeningOpened ==
    ASSUME NEW k, NEW e, NEW c, Good(k, e, NoFd, c), HasFds(k, 2),
           NEW own, own = FreeFd(k),
           NEW clone, clone = FreeFd(Opened(k, Listening)),
           NEW n, n = Cloned(Opened(k, Listening), own)
    PROVE  /\ Good(n, [e EXCEPT ![clone] = UdpHandler], own, c)
           /\ \A i \in Index : c[i] # NoFd => SocketAt(n, c[i]) = SocketAt(k, c[i])
<1> DEFINE h == [e EXCEPT ![clone] = UdpHandler]
<1>1. KernelTypes(k, e, NoFd, c) /\ Listening \in SocketRecord
  BY SocketRecords DEF Good
<1> DEFINE s == FreeSocket(k)
<1>3. Opens(k, n, own, clone, s) /\ SocketAt(n, clone) = Listening
  BY <1>1, OpenedFacts DEF KernelTypes
<1> HIDE DEF s
<1>2. /\ own \in Fd /\ clone \in Fd /\ own # clone
      /\ n \in Kernel /\ s \in Socket
      /\ SocketAt(n, clone) = Listening
      /\ \A g \in Fd : k.fds[g] # 0 => SocketAt(n, g) = SocketAt(k, g)
  BY <1>3 DEF Opens
<1>4. /\ n.fds[own] = s /\ n.fds[clone] = s
      /\ e[own] = NoHandler /\ e[clone] = NoHandler
      /\ \A i \in Index : c[i] # own /\ c[i] # clone
      /\ \A g \in Fd : g # own /\ g # clone => n.fds[g] = k.fds[g] /\ n.fds[g] # s
      /\ \A g \in Fd : e[g] # NoHandler => n.fds[g] = k.fds[g] /\ n.fds[g] # s
      /\ \A i \in Index : c[i] # NoFd =>
             c[i] \in Fd /\ k.fds[c[i]] # 0 /\ n.fds[c[i]] = k.fds[c[i]] /\ n.fds[c[i]] # s
  BY <1>3, OpenedApart
<1>5. /\ h \in [Fd -> Handlers]
      /\ h[clone] = UdpHandler
      /\ \A g \in Fd : g # clone => h[g] = e[g]
  BY <1>1, <1>2 DEF KernelTypes, Handlers
<1>6. s # 0 /\ own # NoFd /\ own \in Fd \cup {NoFd}
  BY <1>2, ZeroIsNone
<1> HIDE DEF h
<1>7. \A g \in Fd : e[g] # NoHandler => k.fds[g] # 0
  BY DEF Good, Owned
<1>8. KernelTypes(n, h, own, c)
  BY <1>1, <1>2, <1>5, <1>6 DEF KernelTypes
<1>9. Owned(n, h, own, c)
  <2>1. \A f \in Fd : h[f] # NoHandler => n.fds[f] # 0 /\ f # own /\ \A i \in Index : c[i] # f
    BY <1>2, <1>4, <1>5, <1>6 DEF Good, Owned
  <2>2. \A f \in Fd : n.fds[f] # 0 => h[f] # NoHandler \/ f = own \/ \E i \in Index : c[i] = f
    BY <1>4, <1>5, HandlersDiffer, ZeroIsNone DEF Good, Owned
  <2>3. /\ \A i \in Index : c[i] # NoFd => n.fds[c[i]] # 0
        /\ \A i, j \in Index : c[i] = c[j] /\ c[i] # NoFd => i = j
    BY <1>4 DEF Good, Owned
  <2> QED
    BY <1>4, <1>6, <2>1, <2>2, <2>3 DEF Owned
<1>10. Heard(n, h, c)
  <2>1. \A f \in Fd : h[f] = UdpHandler => SocketAt(n, f) = Listening
    BY <1>2, <1>5, <1>7, HandlersDiffer DEF Good, Heard
  <2>2. ASSUME NEW f \in Fd, NEW i \in Index, h[f] = ConnHandler(i)
        PROVE  SocketAt(n, f).shut \/ (c[i] # NoFd /\ n.fds[c[i]] = n.fds[f])
    <3>1. e[f] = ConnHandler(i) /\ e[f] # NoHandler
      BY <1>5, <2>2, HandlersDiffer
    <3>2. SocketAt(k, f).shut \/ (c[i] # NoFd /\ k.fds[c[i]] = k.fds[f])
      BY <3>1 DEF Good, Heard
    <3> QED
      BY <1>2, <1>4, <1>7, <3>1, <3>2
  <2>3. ASSUME NEW i \in Index, c[i] # NoFd
        PROVE  /\ ~SocketAt(n, c[i]).shut
               /\ SocketAt(n, c[i]) # Listening
               /\ \E f \in Fd : h[f] = ConnHandler(i) /\ n.fds[f] = n.fds[c[i]]
    <3>1. PICK f \in Fd : e[f] = ConnHandler(i) /\ k.fds[f] = k.fds[c[i]]
      BY <2>3 DEF Good, Heard
    <3>2. h[f] = ConnHandler(i) /\ n.fds[f] = n.fds[c[i]]
      BY <1>4, <1>5, <2>3, <3>1, HandlersDiffer
    <3> QED
      BY <1>2, <1>4, <2>3, <3>2 DEF Good, Heard
  <2>4. \A f, g \in Fd : h[f] # NoHandler /\ h[g] # NoHandler /\ n.fds[f] = n.fds[g] => f = g
    BY <1>4, <1>5 DEF Good, Heard
  <2> QED
    BY <2>1, <2>2, <2>3, <2>4 DEF Heard
<1> QED
  BY <1>2, <1>4, <1>8, <1>9, <1>10 DEF Good, h

\* connect_endpoint: peer i has a socket at clone, and its handler at own.
LEMMA ConnOpened ==
    ASSUME NEW k, NEW e, NEW u, NEW c, Good(k, e, u, c), HasFds(k, 2),
           NEW i \in Index, c[i] = NoFd,
           NEW socket \in SocketRecord, ~socket.shut, socket # Listening,
           NEW own, own = FreeFd(k),
           NEW clone, clone = FreeFd(Opened(k, socket)),
           NEW n, n = Cloned(Opened(k, socket), own)
    PROVE  /\ own \in Fd /\ clone \in Fd
           /\ Good(n, [e EXCEPT ![own] = ConnHandler(i)], u, [c EXCEPT ![i] = clone])
           /\ SocketAt(n, clone) = socket
           /\ \A j \in Index : c[j] # NoFd => SocketAt(n, c[j]) = SocketAt(k, c[j])
<1> DEFINE h == [e EXCEPT ![own] = ConnHandler(i)]
           d == [c EXCEPT ![i] = clone]
<1>1. KernelTypes(k, e, u, c)
  BY DEF Good
<1> DEFINE s == FreeSocket(k)
<1>3. /\ Opens(k, n, own, clone, s)
      /\ SocketAt(n, own) = socket /\ SocketAt(n, clone) = socket
  BY <1>1, OpenedFacts DEF KernelTypes
<1> HIDE DEF s
<1>2. /\ own \in Fd /\ clone \in Fd /\ own # clone
      /\ n \in Kernel /\ s \in Socket
      /\ SocketAt(n, own) = socket /\ SocketAt(n, clone) = socket
      /\ \A g \in Fd : k.fds[g] # 0 => SocketAt(n, g) = SocketAt(k, g)
  BY <1>3 DEF Opens
<1>4. /\ n.fds[own] = s /\ n.fds[clone] = s
      /\ e[own] = NoHandler /\ e[clone] = NoHandler /\ u # own /\ u # clone
      /\ \A j \in Index : c[j] # own /\ c[j] # clone
      /\ \A g \in Fd : g # own /\ g # clone => n.fds[g] = k.fds[g] /\ n.fds[g] # s
      /\ \A g \in Fd : e[g] # NoHandler => n.fds[g] = k.fds[g] /\ n.fds[g] # s
      /\ \A j \in Index : c[j] # NoFd =>
             c[j] \in Fd /\ k.fds[c[j]] # 0 /\ n.fds[c[j]] = k.fds[c[j]] /\ n.fds[c[j]] # s
  BY <1>3, OpenedApart
<1>5. /\ h \in [Fd -> Handlers] /\ d \in [Index -> Fd \cup {NoFd}]
      /\ h[own] = ConnHandler(i)
      /\ \A g \in Fd : g # own => h[g] = e[g]
      /\ d[i] = clone
      /\ \A j \in Index : j # i => d[j] = c[j]
  BY <1>1, <1>2 DEF KernelTypes, Handlers
<1>6. s # 0 /\ own # NoFd /\ clone # NoFd
  BY <1>2, ZeroIsNone
<1> HIDE DEF h, d
<1>7. \A g \in Fd : e[g] # NoHandler => k.fds[g] # 0
  BY DEF Good, Owned
<1>8. KernelTypes(n, h, u, d)
  BY <1>1, <1>2, <1>5 DEF KernelTypes
<1>9. Owned(n, h, u, d)
  <2>1. \A f \in Fd : h[f] # NoHandler => n.fds[f] # 0 /\ f # u /\ \A j \in Index : d[j] # f
    BY <1>2, <1>4, <1>5, <1>6 DEF Good, Owned
  <2>2. u # NoFd => n.fds[u] # 0 /\ \A j \in Index : d[j] # u
    BY <1>1, <1>4, <1>5 DEF Good, Owned, KernelTypes
  <2>3. \A j \in Index : d[j] # NoFd => n.fds[d[j]] # 0
    BY <1>4, <1>5, <1>6
  <2>4. \A j, l \in Index : d[j] = d[l] /\ d[j] # NoFd => j = l
    BY <1>4, <1>5 DEF Good, Owned
  <2>5. ASSUME NEW f \in Fd, n.fds[f] # 0
        PROVE  h[f] # NoHandler \/ f = u \/ \E j \in Index : d[j] = f
    <3>1. CASE f = own
      BY <1>5, <3>1, HandlersDiffer
    <3>2. CASE f = clone
      BY <1>5, <3>2
    <3>3. CASE f # own /\ f # clone
      <4>1. k.fds[f] # 0 /\ h[f] = e[f] /\ f # NoFd
        BY <1>4, <1>5, <2>5, <3>3, ZeroIsNone
      <4>2. ASSUME NEW j \in Index, c[j] = f
            PROVE  d[j] = f
        BY <1>5, <4>1, <4>2
      <4> QED
        BY <4>1, <4>2 DEF Good, Owned
    <3> QED
      BY <3>1, <3>2, <3>3
  <2> QED
    BY <2>1, <2>2, <2>3, <2>4, <2>5 DEF Owned
<1>10. Heard(n, h, d)
  <2>1. \A f \in Fd : h[f] = UdpHandler => SocketAt(n, f) = Listening
    BY <1>2, <1>5, <1>7, HandlersDiffer DEF Good, Heard
  <2>2. ASSUME NEW f \in Fd, NEW j \in Index, h[f] = ConnHandler(j)
        PROVE  SocketAt(n, f).shut \/ (d[j] # NoFd /\ n.fds[d[j]] = n.fds[f])
    <3>1. CASE f = own
      <4>1. j = i
        BY <1>5, <2>2, <3>1, HandlersDiffer
      <4> QED
        BY <1>4, <1>5, <1>6, <3>1, <4>1
    <3>2. CASE f # own
      <4>1. e[f] = ConnHandler(j) /\ e[f] # NoHandler
        BY <1>5, <2>2, <3>2, HandlersDiffer
      <4>2. SocketAt(k, f).shut \/ (c[j] # NoFd /\ k.fds[c[j]] = k.fds[f])
        BY <4>1 DEF Good, Heard
      <4>3. SocketAt(n, f) = SocketAt(k, f) /\ n.fds[f] = k.fds[f]
        BY <1>2, <1>4, <1>7, <4>1
      <4> QED
        BY <1>4, <1>5, <4>2, <4>3
    <3> QED
      BY <3>1, <3>2
  <2>3. ASSUME NEW j \in Index, d[j] # NoFd
        PROVE  /\ ~SocketAt(n, d[j]).shut
               /\ SocketAt(n, d[j]) # Listening
               /\ \E f \in Fd : h[f] = ConnHandler(j) /\ n.fds[f] = n.fds[d[j]]
    <3>1. CASE j = i
      BY <1>2, <1>4, <1>5, <3>1
    <3>2. CASE j # i
      <4>1. d[j] = c[j] /\ c[j] # NoFd
        BY <1>5, <2>3, <3>2
      <4>2. PICK f \in Fd : e[f] = ConnHandler(j) /\ k.fds[f] = k.fds[c[j]]
        BY <4>1 DEF Good, Heard
      <4>3. h[f] = ConnHandler(j) /\ n.fds[f] = n.fds[c[j]]
        BY <1>4, <1>5, <4>1, <4>2, HandlersDiffer
      <4>4. SocketAt(n, c[j]) = SocketAt(k, c[j])
        BY <1>2, <1>4, <4>1
      <4> QED
        BY <4>1, <4>3, <4>4 DEF Good, Heard
    <3> QED
      BY <3>1, <3>2
  <2>4. \A f, g \in Fd : h[f] # NoHandler /\ h[g] # NoHandler /\ n.fds[f] = n.fds[g] => f = g
    BY <1>4, <1>5 DEF Good, Heard
  <2> QED
    BY <2>1, <2>2, <2>3, <2>4 DEF Heard
<1>11. \A j \in Index : c[j] # NoFd => SocketAt(n, c[j]) = SocketAt(k, c[j])
  BY <1>2, <1>4
<1> QED
  BY <1>2, <1>8, <1>9, <1>10, <1>11 DEF Good, h, d

\* The end of a socket that was shut down: its handler goes with its descriptor.
LEMMA HandlerEnded ==
    ASSUME NEW k, NEW e, NEW u, NEW c, Good(k, e, u, c),
           NEW f \in Fd, e[f] # NoHandler, SocketAt(k, f).shut,
           NEW n, n = Close(k, {f})
    PROVE  /\ Good(n, [e EXCEPT ![f] = NoHandler], u, c)
           /\ \A i \in Index : c[i] # NoFd => SocketAt(n, c[i]) = SocketAt(k, c[i])
<1> DEFINE h == [e EXCEPT ![f] = NoHandler]
<1>1. KernelTypes(k, e, u, c) /\ {f} \in SUBSET Fd
  BY DEF Good
<1>2. /\ n \in Kernel
      /\ n.fds = [g \in Fd |-> IF g \in {f} THEN 0 ELSE k.fds[g]]
      /\ \A g \in Fd \ {f} : k.fds[g] # 0 => SocketAt(n, g) = SocketAt(k, g)
  BY <1>1, CloseFacts DEF KernelTypes
<1>3. n.fds[f] = 0 /\ \A g \in Fd : g # f => n.fds[g] = k.fds[g]
  BY <1>2
<1>4. h \in [Fd -> Handlers] /\ h[f] = NoHandler /\ \A g \in Fd : g # f => h[g] = e[g]
  BY <1>1 DEF KernelTypes, Handlers
<1> HIDE DEF h
<1>5. f # u /\ \A i \in Index : c[i] # f
  BY DEF Good, Owned
<1>6. \A g \in Fd : h[g] # NoHandler =>
          g # f /\ e[g] = h[g] /\ k.fds[g] # 0 /\ n.fds[g] = k.fds[g] /\ SocketAt(n, g) = SocketAt(k, g)
  BY SMTT(20), <1>2, <1>3, <1>4 DEF Good, Owned
<1>7. \A i \in Index : c[i] # NoFd =>
          c[i] \in Fd /\ k.fds[c[i]] # 0 /\ n.fds[c[i]] = k.fds[c[i]] /\ SocketAt(n, c[i]) = SocketAt(k, c[i])
  BY <1>1, <1>2, <1>3, <1>5 DEF Good, Owned, KernelTypes
<1>8. KernelTypes(n, h, u, c)
  BY <1>1, <1>2, <1>4 DEF KernelTypes
<1>9. Owned(n, h, u, c)
  <2>1. u # NoFd => n.fds[u] # 0 /\ \A i \in Index : c[i] # u
    BY <1>1, <1>3, <1>5 DEF Good, Owned, KernelTypes
  <2>2. \A g \in Fd : n.fds[g] # 0 => h[g] # NoHandler \/ g = u \/ \E i \in Index : c[i] = g
    BY <1>3, <1>4 DEF Good, Owned
  <2>3. \A g \in Fd : h[g] # NoHandler => n.fds[g] # 0 /\ g # u /\ \A i \in Index : c[i] # g
    BY <1>6 DEF Good, Owned
  <2> QED
    BY <1>7, <2>1, <2>2, <2>3 DEF Good, Owned
<1>10. Heard(n, h, c)
  <2>1. \A g \in Fd : h[g] = UdpHandler => SocketAt(n, g) = Listening
    BY <1>6, HandlersDiffer DEF Good, Heard
  <2>2. ASSUME NEW g \in Fd, NEW i \in Index, h[g] = ConnHandler(i)
        PROVE  SocketAt(n, g).shut \/ (c[i] # NoFd /\ n.fds[c[i]] = n.fds[g])
    <3>1. h[g] # NoHandler /\ e[g] = ConnHandler(i)
      BY <1>6, <2>2, HandlersDiffer
    <3>2. SocketAt(k, g).shut \/ (c[i] # NoFd /\ k.fds[c[i]] = k.fds[g])
      BY <3>1 DEF Good, Heard
    <3> QED
      BY <1>6, <1>7, <3>1, <3>2
  <2>3. ASSUME NEW i \in Index, c[i] # NoFd
        PROVE  /\ ~SocketAt(n, c[i]).shut
               /\ SocketAt(n, c[i]) # Listening
               /\ \E g \in Fd : h[g] = ConnHandler(i) /\ n.fds[g] = n.fds[c[i]]
    <3>1. PICK g \in Fd : e[g] = ConnHandler(i) /\ k.fds[g] = k.fds[c[i]]
      BY <2>3 DEF Good, Heard
    <3>2. ~SocketAt(k, c[i]).shut /\ SocketAt(k, c[i]) # Listening
      BY <2>3 DEF Good, Heard
    <3>3. g # f
      BY <3>1, <3>2, SameSocket
    <3>4. h[g] = ConnHandler(i) /\ n.fds[g] = n.fds[c[i]]
      BY <1>3, <1>4, <1>7, <2>3, <3>1, <3>3
    <3> QED
      BY <1>7, <2>3, <3>2, <3>4
  <2>4. \A g, l \in Fd : h[g] # NoHandler /\ h[l] # NoHandler /\ n.fds[g] = n.fds[l] => g = l
    BY <1>6 DEF Good, Heard
  <2> QED
    BY <2>1, <2>2, <2>3, <2>4 DEF Heard
<1> QED
  BY <1>7, <1>8, <1>9, <1>10 DEF Good, h

-----------------------------------------------------------------------------
(* The invariant.                                                          *)

PeerRecord ==
    [key : Keys \cup {Nothing}, secret : Secrets \cup {Nothing}, allowed : SUBSET Networks,
     addr : Addrs \cup {Nothing}, conn : Fd \cup {NoFd}]

DeviceRecord ==
    [key_pair : Secrets \cup {Nothing}, listen_port : Ports, udp : Fd \cup {NoFd},
     peers : [Keys -> Index \cup {NoIndex}], peers_by_idx : SUBSET Index,
     peers_by_ip : [Networks -> Index \cup {NoIndex}], next_index : 1..(MaxIndex + 1)]

Request ==
    [section : {"idle", "device", "peer"}, key : Keys \cup {Nothing}, remove : BOOLEAN,
     endpoint : Addrs \cup {Nothing}, allowed : SUBSET Networks]

TypeOK ==
    /\ device \in DeviceRecord
    /\ peer \in [Index -> PeerRecord]
    /\ kernel \in Kernel
    /\ events \in [Fd -> Handlers]
    /\ request \in Request

Conns == [i \in Index |-> peer[i].conn]

\* The index of a new peer is in no table, and no socket is left under it.
IndexFresh ==
    /\ \A i \in Configured : i < device.next_index
    /\ \A i \in Index : i >= device.next_index => peer[i].conn = NoFd

\* A route leads to a peer that was given the network.
RoutesAllowed ==
    \A n \in Networks : device.peers_by_ip[n] # NoIndex =>
        n \in peer[device.peers_by_ip[n]].allowed

TablesGood ==
    TablesAgree /\ IndexFresh /\ RoutesAllowed /\ TunnelsUseDeviceKey

KernelGood == Good(kernel, events, device.udp, Conns) /\ ConnFits

IInv == TypeOK /\ TablesGood /\ KernelGood

\* The fields of the device's record.
LEMMA DeviceParts ==
    ASSUME NEW d \in DeviceRecord
    PROVE  /\ d.key_pair \in Secrets \cup {Nothing}
           /\ d.listen_port \in Ports
           /\ d.udp \in Fd \cup {NoFd}
           /\ d.peers \in [Keys -> Index \cup {NoIndex}]
           /\ d.peers_by_idx \in SUBSET Index
           /\ d.peers_by_ip \in [Networks -> Index \cup {NoIndex}]
           /\ d.next_index \in 1..(MaxIndex + 1)
BY DEF DeviceRecord

\* The fields of a peer's record.
LEMMA PeerParts ==
    ASSUME NEW p \in PeerRecord
    PROVE  /\ p.key \in Keys \cup {Nothing}
           /\ p.secret \in Secrets \cup {Nothing}
           /\ p.allowed \in SUBSET Networks
           /\ p.addr \in Addrs \cup {Nothing}
           /\ p.conn \in Fd \cup {NoFd}
BY DEF PeerRecord

\* The fields of a request.
LEMMA RequestParts ==
    ASSUME NEW r \in Request
    PROVE  /\ r.section \in {"idle", "device", "peer"}
           /\ r.key \in Keys \cup {Nothing}
           /\ r.remove \in BOOLEAN
           /\ r.endpoint \in Addrs \cup {Nothing}
           /\ r.allowed \in SUBSET Networks
BY DEF Request

\* The records a peer and a request begin with.
LEMMA EmptyRecords ==
    /\ NoPeer \in PeerRecord /\ NoPeer.conn = NoFd
    /\ NoRequest \in Request
BY DEF NoPeer, PeerRecord, NoRequest, Request

\* Opening and closing sockets touches neither the tables nor the keys.
TablesSame(d) ==
    /\ d.peers = device.peers /\ d.peers_by_idx = device.peers_by_idx
    /\ d.peers_by_ip = device.peers_by_ip /\ d.next_index = device.next_index
    /\ d.key_pair = device.key_pair

PeersSame(p) ==
    \A i \in Index :
        /\ p[i].key = peer[i].key /\ p[i].secret = peer[i].secret
        /\ p[i].allowed = peer[i].allowed
        /\ p[i].conn = NoFd \/ p[i].conn = peer[i].conn \/ i \in Configured

\* ... and with these two, what holds of the tables goes on.
LEMMA TablesKept ==
    ASSUME TypeOK, TablesGood, TablesSame(device'), PeersSame(peer'),
           request' = request \/ request' = NoRequest
    PROVE  TablesGood' /\ Configured' = Configured
<1>1. Configured' = Configured
  BY DEF Configured, TablesSame
<1>2. Configured \subseteq Index
  BY DeviceParts DEF Configured, TypeOK
<1>3. TablesAgree'
  BY <1>1, <1>2, DeviceParts DEF TablesGood, TablesAgree, TablesSame, PeersSame, TypeOK
<1>4. IndexFresh'
  <2>1. ASSUME NEW i \in Index, i >= device.next_index
        PROVE  peer'[i].conn = NoFd
    <3>1. device.next_index \in Nat /\ i \in Nat
      BY DeviceParts, ZeroIsNone DEF TypeOK
    <3>2. i \notin Configured /\ peer[i].conn = NoFd
      BY <2>1, <3>1 DEF TablesGood, IndexFresh
    <3> QED
      BY <3>2 DEF PeersSame
  <2> QED
    BY <1>1, <2>1 DEF TablesGood, IndexFresh, TablesSame
<1>5. RoutesAllowed'
  BY DeviceParts DEF TablesGood, RoutesAllowed, TablesSame, PeersSame, TypeOK
<1>6. TunnelsUseDeviceKey'
  BY <1>1, <1>2 DEF TablesGood, TunnelsUseDeviceKey, TablesSame, PeersSame
<1> QED
  BY <1>1, <1>3, <1>4, <1>5, <1>6 DEF TablesGood

\* A step that opens and closes nothing keeps what holds of the descriptors.
LEMMA KernelKept ==
    ASSUME KernelGood, UNCHANGED <<kernel, events>>,
           device'.udp = device.udp, device'.listen_port = device.listen_port,
           \A i \in Index : peer'[i].conn = peer[i].conn,
           \A i \in Configured' : peer'[i].conn # NoFd =>
               i \in Configured /\ i \in Index /\ peer'[i].addr = peer[i].addr
    PROVE  KernelGood'
<1>1. Conns' = Conns
  BY DEF Conns
<1>2. Good(kernel', events', device'.udp, Conns')
  BY <1>1 DEF KernelGood
<1>3. ConnFits'
  BY DEF KernelGood, ConnFits, SocketAt
<1> QED
  BY <1>2, <1>3 DEF KernelGood

-----------------------------------------------------------------------------
(* The lines of a request.                                                 *)

\* The first and the last line of a request.
LEMMA RequestLine ==
    ASSUME IInv, BeginRequest \/ EndRequest
    PROVE  IInv'
<1>1. UNCHANGED <<device, peer, kernel, events>>
  BY DEF BeginRequest, EndRequest
<1>2. request' \in Request
  <2>1. ASSUME NEW r \in Request
        PROVE  [r EXCEPT !.section = "device"] \in Request
    BY DEF Request
  <2> QED
    BY <2>1, EmptyRecords DEF BeginRequest, EndRequest
<1>3. TypeOK'
  BY <1>1, <1>2 DEF IInv, TypeOK
<1>4. TablesGood'
  BY <1>1, <1>2 DEF IInv, TablesGood, TablesAgree, Configured, IndexFresh, RoutesAllowed,
                    TunnelsUseDeviceKey
<1>5. KernelGood'
  BY <1>1 DEF IInv, KernelGood, Conns, ConnFits, Configured
<1> QED
  BY <1>3, <1>4, <1>5 DEF IInv

\* set_key gives the key to every tunnel.
LEMMA KeyLine ==
    ASSUME IInv, NEW s \in Secrets, PrivateKey(s)
    PROVE  IInv'
<1>1. /\ device' = [device EXCEPT !.key_pair = s]
      /\ peer' = [i \in Index |-> IF i \in Configured THEN [peer[i] EXCEPT !.secret = s]
                                  ELSE peer[i]]
      /\ UNCHANGED <<kernel, events, request>>
  BY DEF PrivateKey, SetKey
<1>2. /\ device' \in DeviceRecord /\ device'.key_pair = s
      /\ device'.udp = device.udp /\ device'.listen_port = device.listen_port
      /\ device'.peers = device.peers /\ device'.peers_by_idx = device.peers_by_idx
      /\ device'.peers_by_ip = device.peers_by_ip /\ device'.next_index = device.next_index
  BY <1>1 DEF IInv, TypeOK, DeviceRecord
<1>3. \A i \in Index :
        /\ peer'[i] \in PeerRecord
        /\ peer'[i].key = peer[i].key /\ peer'[i].allowed = peer[i].allowed
        /\ peer'[i].conn = peer[i].conn /\ peer'[i].addr = peer[i].addr
        /\ i \in Configured => peer'[i].secret = s
  BY <1>1 DEF IInv, TypeOK, PeerRecord
<1>4. peer' \in [Index -> PeerRecord]
  BY <1>1, <1>3
<1>5. Configured' = Configured /\ Configured \subseteq Index
  BY <1>2, DeviceParts DEF Configured, IInv, TypeOK
<1>6. TypeOK'
  BY <1>1, <1>2, <1>4 DEF IInv, TypeOK
<1>7. TablesAgree' /\ RoutesAllowed'
  BY <1>2, <1>3, <1>5, DeviceParts DEF IInv, TypeOK, TablesGood, TablesAgree, RoutesAllowed
<1>8. IndexFresh' /\ TunnelsUseDeviceKey'
  BY <1>1, <1>2, <1>3, <1>5
     DEF IInv, TablesGood, IndexFresh, TunnelsUseDeviceKey
<1>9. KernelGood'
  BY <1>1, <1>2, <1>3, <1>5, KernelKept DEF IInv
<1> QED
  BY <1>6, <1>7, <1>8, <1>9 DEF IInv, TablesGood

\* clear_peers empties all three tables.
LEMMA ReplaceLine ==
    ASSUME IInv, ReplacePeers
    PROVE  IInv'
<1>1. /\ device' = [device EXCEPT !.peers = [k \in Keys |-> NoIndex], !.peers_by_idx = {},
                                  !.peers_by_ip = [n \in Networks |-> NoIndex]]
      /\ peer' = Kept
      /\ UNCHANGED <<kernel, events, request>>
  BY DEF ReplacePeers, ClearPeers
<1>2. /\ device'.peers = [k \in Keys |-> NoIndex] /\ device'.peers_by_idx = {}
      /\ device'.peers_by_ip = [n \in Networks |-> NoIndex]
      /\ device'.udp = device.udp /\ device'.listen_port = device.listen_port
      /\ device'.key_pair = device.key_pair /\ device'.next_index = device.next_index
      /\ device' \in DeviceRecord
  BY <1>1 DEF IInv, TypeOK, DeviceRecord
<1>3. peer' \in [Index -> PeerRecord] /\ \A i \in Index :
        /\ peer'[i] = peer[i] \/ peer'[i] = NoPeer
        /\ peer'[i].conn = peer[i].conn
  BY <1>1, EmptyRecords DEF IInv, TypeOK, Kept
<1>4. Configured' = {}
  BY <1>2 DEF Configured
<1>5. TypeOK'
  BY <1>1, <1>2, <1>3 DEF IInv, TypeOK
<1>6. TablesAgree' /\ RoutesAllowed' /\ TunnelsUseDeviceKey'
  BY <1>2, <1>4 DEF TablesAgree, RoutesAllowed, TunnelsUseDeviceKey
<1>7. IndexFresh'
  BY <1>1, <1>2, <1>3, <1>4, EmptyRecords DEF IInv, TablesGood, IndexFresh
<1>8. KernelGood'
  BY <1>1, <1>2, <1>3, <1>4, KernelKept DEF IInv
<1> QED
  BY <1>5, <1>6, <1>7, <1>8 DEF IInv, TablesGood

\* What the device's descriptors and those of its peers are after the start of
\* open_listen_socket.
LEMMA EmptiedGood ==
    ASSUME IInv
    PROVE  /\ Good(Emptied, EventsEmptied, NoFd, Without(Conns, Configured))
           /\ Disconnected(Configured) \in [Index -> PeerRecord]
           /\ PeersSame(Disconnected(Configured))
           /\ \A i \in Index : Disconnected(Configured)[i].conn = Without(Conns, Configured)[i]
           /\ \A i \in Configured : Disconnected(Configured)[i].conn = NoFd
           /\ Configured \subseteq Index
<1> DEFINE k == Close(kernel, Own)
           p == Disconnected(Configured)
<1>1. Configured \subseteq Index
  BY DeviceParts DEF Configured, IInv, TypeOK
<1>2. Good(kernel, events, device.udp, Conns) /\ device.udp \in Fd \cup {NoFd}
  BY DeviceParts DEF IInv, TypeOK, KernelGood
<1>3. Good(k, events, NoFd, Conns)
  BY <1>2, OwnClosed DEF Own
<1>4. FdsOf(Conns, Configured) = ConnFds(Configured)
  BY <1>1 DEF FdsOf, ConnFds, Conns
<1>5. Emptied = Shut(k, FdsOf(Conns, Configured))
  BY <1>4 DEF Emptied
<1> HIDE DEF k
<1>6. Good(Emptied, events, NoFd, Without(Conns, Configured))
  BY <1>1, <1>3, <1>5, ConnsShut
<1>7. EventsEmptied = events
  <2>1. events \in [Fd -> Handlers]
    BY DEF IInv, TypeOK
  <2>2. device.udp # NoFd => events[device.udp] = NoHandler
    BY <1>2 DEF Good, Owned
  <2> QED
    BY <1>2, <2>1, <2>2 DEF EventsEmptied, EventCleared, Own
<1>8. \A i \in Index :
        /\ p[i] \in PeerRecord
        /\ p[i].key = peer[i].key /\ p[i].secret = peer[i].secret
        /\ p[i].allowed = peer[i].allowed
        /\ p[i].conn = IF i \in Configured THEN NoFd ELSE peer[i].conn
  BY DEF IInv, TypeOK, PeerRecord, Disconnected
<1>9. p \in [Index -> PeerRecord]
  BY <1>8 DEF Disconnected
<1> HIDE DEF p
<1>10. \A i \in Index : p[i].conn = Without(Conns, Configured)[i]
  BY <1>8 DEF Without, Conns
<1>11. PeersSame(p)
  BY <1>8 DEF PeersSame
<1> QED
  BY <1>1, <1>6, <1>7, <1>8, <1>9, <1>10, <1>11 DEF p

\* A good kernel with the peers' sockets c is good with them as the peers hold them.
LEMMA GoodConns ==
    ASSUME NEW k, NEW e, NEW u, NEW c, Good(k, e, u, c),
           NEW p, \A i \in Index : p[i].conn = c[i]
    PROVE  Good(k, e, u, [i \in Index |-> p[i].conn])
<1>1. [i \in Index |-> p[i].conn] = c
  BY DEF Good, KernelTypes
<1> QED
  BY <1>1

\* open_listen_socket, when its binds succeed.
LEMMA ListenLine ==
    ASSUME IInv, NEW port \in Ports \cup {Nothing}, ListenPort(port)
    PROVE  IInv'
<1>1. PICK q \in Ports : OpenListenSocket(q)
  BY DEF ListenPort, Assigned
<1>2. UNCHANGED request
  BY DEF ListenPort
<1> DEFINE f == FreeFd(Emptied)
           k == Opened(Emptied, Listening)
           c == Without(Conns, Configured)
<1>3. /\ HasFds(Emptied, 2)
      /\ kernel' = Cloned(k, f)
      /\ events' = [EventsEmptied EXCEPT ![FreeFd(k)] = UdpHandler]
      /\ device' = [device EXCEPT !.udp = f, !.listen_port = q]
      /\ peer' = Disconnected(Configured)
  BY <1>1 DEF OpenListenSocket, Registered
<1>4. Good(kernel', events', f, c) 
  BY <1>3, EmptiedGood, ListeningOpened
<1> HIDE DEF c
<1>5. f \in Fd \cup {NoFd} /\ kernel' \in Kernel /\ events' \in [Fd -> Handlers]
  BY <1>4 DEF Good, KernelTypes
<1> HIDE DEF f
<1>6. /\ device' \in DeviceRecord /\ device'.udp = f /\ device'.listen_port = q
      /\ TablesSame(device')
  BY <1>3, <1>5 DEF IInv, TypeOK, DeviceRecord, TablesSame
<1>7. TypeOK'
  BY <1>2, <1>3, <1>5, <1>6, EmptiedGood DEF IInv, TypeOK
<1>8. TablesGood' /\ Configured' = Configured
  BY <1>2, <1>3, <1>6, EmptiedGood, TablesKept DEF IInv
<1>9. KernelGood'
  <2>1. Good(kernel', events', device'.udp, Conns')
    BY <1>3, <1>4, <1>6, EmptiedGood, GoodConns DEF Conns, c
  <2>2. ConnFits'
    BY <1>3, <1>8, EmptiedGood DEF ConnFits
  <2> QED
    BY <2>1, <2>2 DEF KernelGood
<1> QED
  BY <1>7, <1>8, <1>9 DEF IInv

\* ... and when one of them fails: the device is left without a socket.
LEMMA ListenFailsLine ==
    ASSUME IInv, ListenPortFails
    PROVE  IInv'
<1> DEFINE c == Without(Conns, Configured)
<1>1. /\ kernel' = Emptied /\ events' = EventsEmptied
      /\ device' = [device EXCEPT !.udp = NoFd]
      /\ peer' = Disconnected(Configured)
      /\ request' = NoRequest
  BY DEF ListenPortFails
<1>2. Good(kernel', events', NoFd, c)
  BY <1>1, EmptiedGood
<1> HIDE DEF c
<1>3. kernel' \in Kernel /\ events' \in [Fd -> Handlers]
  BY <1>2 DEF Good, KernelTypes
<1>4. device' \in DeviceRecord /\ device'.udp = NoFd /\ TablesSame(device')
  BY <1>1 DEF IInv, TypeOK, DeviceRecord, TablesSame
<1>5. TypeOK'
  BY <1>1, <1>3, <1>4, EmptiedGood, EmptyRecords DEF IInv, TypeOK
<1>6. TablesGood' /\ Configured' = Configured
  BY <1>1, <1>4, EmptiedGood, TablesKept DEF IInv
<1>7. KernelGood'
  <2>1. Good(kernel', events', device'.udp, Conns')
    BY <1>1, <1>2, <1>4, EmptiedGood, GoodConns DEF Conns, c
  <2>2. ConnFits'
    BY <1>1, <1>6, EmptiedGood DEF ConnFits
  <2> QED
    BY <2>1, <2>2 DEF KernelGood
<1> QED
  BY <1>5, <1>6, <1>7 DEF IInv

\* A section from its public_key on: its request, as update_peer gets it.
Section(k, remove, endpoint, networks) ==
    [request EXCEPT !.key = k, !.remove = remove, !.endpoint = endpoint,
                    !.allowed = @ \cup networks]

\* It is a request, and so is what it leaves to the next section.
LEMMA SectionType ==
    ASSUME IInv, NEW k \in Keys, NEW remove \in BOOLEAN,
           NEW endpoint \in Addrs \cup {request.endpoint}, NEW networks \in Offers,
           NEW r, r = Section(k, remove, endpoint, networks)
    PROVE  r \in Request /\ r.key = k /\ Carried(r) \in Request
<1>1. request \in Request
  BY DEF IInv, TypeOK
<1>2. endpoint \in Addrs \cup {Nothing} /\ networks \in SUBSET Networks
  BY <1>1, RequestParts, DeviceAssumption
<1>3. r \in Request /\ r.key = k
  BY <1>1, <1>2 DEF Request, Section
<1>4. Carried(r) \in Request
  BY <1>3 DEF Carried, Request
<1> QED
  BY <1>3, <1>4

\* Device::remove_peer: the peer leaves the three tables, and its socket is shut.
LEMMA PeerRemoved ==
    ASSUME IInv, NEW k \in Keys, RemovePeer(k), UNCHANGED events,
           request' \in Request
    PROVE  IInv'
<1> DEFINE i == device.peers[k]
           ips == [n \in Networks |-> IF device.peers_by_ip[n] = i THEN NoIndex
                                      ELSE device.peers_by_ip[n]]
           c == Without(Conns, {i})
<1>1. i \in Index /\ i \in Configured /\ i # NoIndex
  BY DeviceParts DEF RemovePeer, Configured, IInv, TypeOK
<1>2. /\ kernel' = Shut(kernel, ConnFds({i}))
      /\ peer' = [peer EXCEPT ![i] = NoPeer]
      /\ device' = [device EXCEPT !.peers = [device.peers EXCEPT ![k] = NoIndex],
                                  !.peers_by_idx = device.peers_by_idx \ {i},
                                  !.peers_by_ip = ips]
  BY DEF RemovePeer, IInv, TypeOK, DeviceRecord
<1>3. /\ device.peers \in [Keys -> Index \cup {NoIndex}]
      /\ device.peers_by_ip \in [Networks -> Index \cup {NoIndex}]
      /\ device.peers_by_idx \in SUBSET Index
  BY DeviceParts DEF IInv, TypeOK
<1>4. /\ [device.peers EXCEPT ![k] = NoIndex] \in [Keys -> Index \cup {NoIndex}]
      /\ ips \in [Networks -> Index \cup {NoIndex}]
  BY <1>3
<1> HIDE DEF i
<1>5. /\ device' \in DeviceRecord
      /\ device'.peers = [device.peers EXCEPT ![k] = NoIndex]
      /\ device'.peers_by_idx = device.peers_by_idx \ {i}
      /\ device'.peers_by_ip = ips
      /\ device'.udp = device.udp /\ device'.listen_port = device.listen_port
      /\ device'.key_pair = device.key_pair /\ device'.next_index = device.next_index
  <2> DEFINE ps == [device.peers EXCEPT ![k] = NoIndex]
  <2>1. device' = [device EXCEPT !.peers = ps, !.peers_by_idx = device.peers_by_idx \ {i},
                                 !.peers_by_ip = ips]
    BY <1>2
  <2> HIDE DEF ps, ips
  <2> QED
    BY <1>3, <1>4, <2>1 DEF IInv, TypeOK, DeviceRecord, ps
<1>6. /\ peer' \in [Index -> PeerRecord] /\ peer'[i] = NoPeer
      /\ \A j \in Index \ {i} : peer'[j] = peer[j]
  BY <1>1, <1>2, EmptyRecords DEF IInv, TypeOK
<1>7. \A l \in Keys : device.peers[l] = i => l = k
  BY <1>1 DEF IInv, TablesGood, TablesAgree, i
<1>8. Configured' = Configured \ {i}
  <2>1. \A l \in Keys : device'.peers[l] = IF l = k THEN NoIndex ELSE device.peers[l]
    BY <1>3, <1>5
  <2> QED
    BY <1>7, <2>1 DEF Configured, i
<1>9. Configured \subseteq Index
  BY <1>3 DEF Configured
<1>10. TablesAgree'
  <2>1. Configured' = device'.peers_by_idx
    BY <1>5, <1>8 DEF IInv, TablesGood, TablesAgree
  <2>2. ASSUME NEW l \in Keys, device'.peers[l] # NoIndex
        PROVE  peer'[device'.peers[l]].key = l
    <3>1. device'.peers[l] = device.peers[l] /\ device.peers[l] \in Index \ {i}
      BY <1>3, <1>5, <1>7, <2>2
    <3> QED
      BY <1>6, <2>2, <3>1 DEF IInv, TablesGood, TablesAgree
  <2>3. \A n \in Networks : device'.peers_by_ip[n] \in Configured' \cup {NoIndex}
    BY <1>3, <1>5, <1>8 DEF IInv, TablesGood, TablesAgree
  <2> QED
    BY <2>1, <2>2, <2>3 DEF TablesAgree
<1>11. IndexFresh'
  BY <1>5, <1>6, <1>8, EmptyRecords DEF IInv, TablesGood, IndexFresh
<1>12. RoutesAllowed'
  BY <1>3, <1>5, <1>6 DEF IInv, TablesGood, RoutesAllowed
<1>13. TunnelsUseDeviceKey'
  BY <1>5, <1>6, <1>8, <1>9 DEF IInv, TablesGood, TunnelsUseDeviceKey
<1>15. /\ Good(kernel', events, device.udp, c)
       /\ \A j \in Index \ {i} : Conns[j] # NoFd =>
              SocketAt(kernel', Conns[j]) = SocketAt(kernel, Conns[j])
  <2>1. FdsOf(Conns, {i}) = ConnFds({i})
    BY <1>1 DEF FdsOf, ConnFds, Conns
  <2>2. Good(kernel, events, device.udp, Conns) /\ {i} \in SUBSET Index
    BY <1>1 DEF IInv, KernelGood
  <2>3. kernel' = Shut(kernel, FdsOf(Conns, {i}))
    BY <1>2, <2>1
  <2> QED
    BY <2>2, <2>3, ConnsShut
<1>16. \A j \in Index : peer'[j].conn = c[j]
  BY <1>6, EmptyRecords DEF Without, Conns
<1> HIDE DEF c
<1>17. Good(kernel', events', device'.udp, Conns')
  BY <1>5, <1>15, <1>16, GoodConns DEF Conns
<1>18. ConnFits'
  <2> SUFFICES ASSUME NEW j \in Configured', peer'[j].conn # NoFd
               PROVE  SocketAt(kernel', peer'[j].conn)
                        = Connected(peer'[j].addr, device'.listen_port)
    BY DEF ConnFits
  <2>1. j \in Configured /\ j \in Index \ {i} /\ peer'[j] = peer[j]
    BY <1>6, <1>8, <1>9
  <2>2. Conns[j] = peer[j].conn
    BY <2>1 DEF Conns
  <2> QED
    BY <1>5, <1>15, <2>1, <2>2 DEF IInv, KernelGood, ConnFits
<1>19. TypeOK'
  BY <1>5, <1>6, <1>15 DEF IInv, TypeOK, Good, KernelTypes
<1> QED
  BY <1>10, <1>11, <1>12, <1>13, <1>17, <1>18, <1>19 DEF IInv, TablesGood, KernelGood

\* update_peer for a new peer: it enters the three tables with the device's key
\* and the networks of the request.
LEMMA PeerAdded ==
    ASSUME IInv, NEW r \in Request, r.key \in Keys, AddPeer(r),
           UNCHANGED events, request' \in Request
    PROVE  IInv'
<1> DEFINE i == device.next_index
           new == [key |-> r.key, secret |-> device.key_pair, allowed |-> r.allowed,
                   addr |-> r.endpoint, conn |-> NoFd]
           ips == [n \in Networks |-> IF n \in r.allowed THEN i ELSE device.peers_by_ip[n]]
           ps == [device.peers EXCEPT ![r.key] = i]
<1>1. /\ device.peers \in [Keys -> Index \cup {NoIndex}]
      /\ device.peers_by_ip \in [Networks -> Index \cup {NoIndex}]
      /\ device.peers_by_idx \in SUBSET Index
      /\ i \in 1..(MaxIndex + 1)
  BY DeviceParts DEF IInv, TypeOK
<1>2. /\ i \in Index /\ i + 1 \in 1..(MaxIndex + 1) /\ i # NoIndex
      /\ device.peers[r.key] = NoIndex
      /\ i \in Nat /\ \A j \in Index : j >= i + 1 => j >= i /\ j # i
  BY <1>1, DeviceAssumption, ZeroIsNone DEF AddPeer, Index
<1>3. Configured \subseteq Index /\ \A j \in Configured : j < i /\ j # i
  BY <1>1, ZeroIsNone DEF Configured, IInv, TablesGood, IndexFresh
<1>4. UNCHANGED <<kernel, events>> /\ peer[i].conn = NoFd
  BY <1>2 DEF AddPeer, IInv, TablesGood, IndexFresh
<1>5. CASE device.key_pair = Nothing
  <2>1. device' = [device EXCEPT !.next_index = i + 1] /\ peer' = peer
    BY <1>5 DEF AddPeer
  <2> HIDE DEF i
  <2>2. /\ device' \in DeviceRecord /\ device'.next_index = i + 1
        /\ device'.peers = device.peers /\ device'.peers_by_idx = device.peers_by_idx
        /\ device'.peers_by_ip = device.peers_by_ip
        /\ device'.udp = device.udp /\ device'.listen_port = device.listen_port
        /\ device'.key_pair = device.key_pair
    BY <1>2, <2>1 DEF IInv, TypeOK, DeviceRecord
  <2>3. Configured' = Configured
    BY <2>2 DEF Configured
  <2>4. TypeOK'
    BY <1>4, <2>1, <2>2 DEF IInv, TypeOK
  <2>5. TablesAgree' /\ RoutesAllowed' /\ TunnelsUseDeviceKey'
    BY <2>1, <2>2, <2>3 DEF IInv, TablesGood, TablesAgree, RoutesAllowed, TunnelsUseDeviceKey
  <2>6. IndexFresh'
    <3>1. \A j \in Configured : j < i + 1
      BY <1>2, <1>3, ZeroIsNone
    <3>2. \A j \in Index : j >= i + 1 => peer[j].conn = NoFd
      BY <1>2 DEF IInv, TablesGood, IndexFresh, i
    <3> QED
      BY <2>1, <2>2, <2>3, <3>1, <3>2 DEF IndexFresh
  <2>7. KernelGood'
    BY <1>3, <1>4, <2>1, <2>2, <2>3, KernelKept DEF IInv
  <2> QED
    BY <2>4, <2>5, <2>6, <2>7 DEF IInv, TablesGood
<1>6. CASE device.key_pair # Nothing
  <2>1. /\ device' = [device EXCEPT !.next_index = i + 1, !.peers = ps,
                                    !.peers_by_idx = device.peers_by_idx \cup {i},
                                    !.peers_by_ip = ips]
        /\ peer' = [peer EXCEPT ![i] = new]
    BY <1>6 DEF AddPeer, IInv, TypeOK, DeviceRecord
  <2>2. /\ ps \in [Keys -> Index \cup {NoIndex}] /\ ps[r.key] = i
        /\ \A l \in Keys : l # r.key => ps[l] = device.peers[l]
        /\ ips \in [Networks -> Index \cup {NoIndex}]
        /\ \A n \in Networks : ips[n] = IF n \in r.allowed THEN i ELSE device.peers_by_ip[n]
        /\ device.peers_by_idx \cup {i} \in SUBSET Index
    BY <1>1, <1>2
  <2>3. new \in PeerRecord
    BY RequestParts, DeviceParts, ZeroIsNone DEF IInv, TypeOK, PeerRecord
  <2>4. /\ new.key = r.key /\ new.secret = device.key_pair /\ new.allowed = r.allowed
        /\ new.conn = NoFd
    OBVIOUS
  <2> HIDE DEF i, ps, ips, new
  <2>5. /\ device' \in DeviceRecord /\ device'.next_index = i + 1
        /\ device'.peers = ps /\ device'.peers_by_idx = device.peers_by_idx \cup {i}
        /\ device'.peers_by_ip = ips
        /\ device'.udp = device.udp /\ device'.listen_port = device.listen_port
        /\ device'.key_pair = device.key_pair
    BY <1>2, <2>1, <2>2 DEF IInv, TypeOK, DeviceRecord
  <2>6. /\ peer' \in [Index -> PeerRecord] /\ peer'[i] = new
        /\ \A j \in Index : j # i => peer'[j] = peer[j]
    BY <1>2, <2>1, <2>3 DEF IInv, TypeOK
  <2>7. Configured' = Configured \cup {i}
    <3>1. ASSUME NEW j \in Configured
          PROVE  j \in Configured'
      <4>1. PICK l \in Keys : device.peers[l] = j /\ j # NoIndex
        BY DEF Configured
      <4>2. device'.peers[l] = j
        BY <1>2, <2>2, <2>5, <4>1
      <4> QED
        BY <4>1, <4>2 DEF Configured
    <3>2. i \in Configured'
      BY <1>2, <2>2, <2>5 DEF Configured
    <3>3. Configured' \subseteq Configured \cup {i}
      BY <2>2, <2>5 DEF Configured
    <3> QED
      BY <3>1, <3>2, <3>3
  <2>8. TypeOK'
    BY <1>4, <2>5, <2>6 DEF IInv, TypeOK
  <2>9. TablesAgree'
    <3>1. Configured' = device'.peers_by_idx
      BY <2>5, <2>7 DEF IInv, TablesGood, TablesAgree
    <3>2. ASSUME NEW l \in Keys, device'.peers[l] # NoIndex
          PROVE  peer'[device'.peers[l]].key = l
      <4>1. CASE l = r.key
        BY <2>2, <2>4, <2>5, <2>6, <4>1
      <4>2. CASE l # r.key
        <5>1. device'.peers[l] = device.peers[l] /\ device.peers[l] \in Configured
          BY <2>2, <2>5, <3>2, <4>2 DEF Configured
        <5>2. peer'[device.peers[l]] = peer[device.peers[l]]
          BY <1>3, <2>6, <5>1
        <5> QED
          BY <3>2, <5>1, <5>2 DEF IInv, TablesGood, TablesAgree
      <4> QED
        BY <4>1, <4>2
    <3>3. \A n \in Networks : device'.peers_by_ip[n] \in Configured' \cup {NoIndex}
      BY <2>2, <2>5, <2>7 DEF IInv, TablesGood, TablesAgree
    <3> QED
      BY <3>1, <3>2, <3>3 DEF TablesAgree
  <2>10. IndexFresh'
    <3>1. \A j \in Configured \cup {i} : j < i + 1
      BY <1>2, <1>3, ZeroIsNone
    <3>2. \A j \in Index : j >= i + 1 => peer'[j].conn = NoFd
      BY <1>2, <2>6 DEF IInv, TablesGood, IndexFresh, i
    <3> QED
      BY <2>5, <2>7, <3>1, <3>2 DEF IndexFresh
  <2>11. RoutesAllowed'
    <3> SUFFICES ASSUME NEW n \in Networks, device'.peers_by_ip[n] # NoIndex
                 PROVE  n \in peer'[device'.peers_by_ip[n]].allowed
      BY DEF RoutesAllowed
    <3>1. CASE n \in r.allowed
      BY <2>2, <2>4, <2>5, <2>6, <3>1
    <3>2. CASE n \notin r.allowed
      <4>1. device'.peers_by_ip[n] = device.peers_by_ip[n]
        BY <2>2, <2>5, <3>2
      <4>2. device.peers_by_ip[n] \in Configured
        BY <4>1 DEF IInv, TablesGood, TablesAgree
      <4>3. peer'[device.peers_by_ip[n]] = peer[device.peers_by_ip[n]]
        BY <1>3, <2>6, <4>2
      <4> QED
        BY <4>1, <4>3 DEF IInv, TablesGood, RoutesAllowed
    <3> QED
      BY <3>1, <3>2
  <2>12. TunnelsUseDeviceKey'
    BY <1>3, <2>4, <2>5, <2>6, <2>7 DEF IInv, TablesGood, TunnelsUseDeviceKey
  <2>14. KernelGood'
    <3>1. \A j \in Index : peer'[j].conn = peer[j].conn
      BY <1>4, <2>4, <2>6 DEF i
    <3>2. \A j \in Configured' : peer'[j].conn # NoFd =>
              j \in Configured /\ j \in Index /\ peer'[j].addr = peer[j].addr
      BY <1>2, <1>3, <2>4, <2>6, <2>7
    <3> QED
      BY <1>4, <2>5, <3>1, <3>2, KernelKept DEF IInv
  <2> QED
    BY <2>8, <2>9, <2>10, <2>11, <2>12, <2>14 DEF IInv, TablesGood
<1> QED
  BY <1>5, <1>6

\* The section of a peer, with update_peer at its end.
LEMMA SectionLine ==
    ASSUME IInv, NEW k \in Keys, NEW remove \in BOOLEAN,
           NEW endpoint \in Addrs \cup {request.endpoint}, NEW networks \in Offers,
           PeerSection(k, remove, endpoint, networks)
    PROVE  IInv'
<1> DEFINE r == Section(k, remove, endpoint, networks)
<1>1. UpdatePeer(r) /\ request' = Carried(r) /\ UNCHANGED events
  BY DEF PeerSection, Section
<1>2. /\ r \in Request /\ r.key = k
      /\ Carried(r) \in Request
  BY SectionType
<1> HIDE DEF r
<1>3. CASE RemovePeer(r.key)
  BY <1>1, <1>2, <1>3, PeerRemoved
<1>4. CASE AddPeer(r)
  BY <1>1, <1>2, <1>4, PeerAdded
<1>5. CASE UNCHANGED <<device, peer, kernel>>
  <2>1. TypeOK'
    BY <1>1, <1>2, <1>5 DEF IInv, TypeOK
  <2>2. TablesGood'
    BY <1>1, <1>2, <1>5 DEF IInv, TablesGood, TablesAgree, Configured, IndexFresh, RoutesAllowed,
                            TunnelsUseDeviceKey
  <2>3. KernelGood'
    BY <1>1, <1>5 DEF IInv, KernelGood, Conns, ConnFits, Configured
  <2> QED
    BY <2>1, <2>2, <2>3 DEF IInv
<1> QED
  BY <1>1, <1>3, <1>4, <1>5 DEF UpdatePeer

-----------------------------------------------------------------------------
(* The handlers.                                                           *)

\* The tables hold indices of peers.
LEMMA ConfiguredIndex ==
    ASSUME IInv
    PROVE  Configured \subseteq Index
<1>1. device.peers \in [Keys -> Index \cup {NoIndex}]
  BY DeviceParts DEF IInv, TypeOK
<1> QED
  BY <1>1 DEF Configured

EndpointSet(i, a, f) == peer' = [peer EXCEPT ![i].addr = a, ![i].conn = f]

\* A peer's endpoint is set: what it does to the peers and, of the tables, nothing.
LEMMA PeerSet ==
    ASSUME TypeOK, NEW i \in Index, NEW a \in Addrs \cup {Nothing}, NEW f \in Fd \cup {NoFd},
           EndpointSet(i, a, f)
    PROVE  /\ peer' \in [Index -> PeerRecord]
           /\ peer'[i].addr = a /\ peer'[i].conn = f
           /\ \A j \in Index : j # i => peer'[j] = peer[j]
           /\ i \in Configured => PeersSame(peer')
<1> DEFINE q == [peer[i] EXCEPT !.addr = a, !.conn = f]
<1>1. peer \in [Index -> PeerRecord] /\ peer[i] \in PeerRecord
  BY DEF TypeOK
<1>3. peer' = [peer EXCEPT ![i] = q] /\ q = [peer[i] EXCEPT !.addr = a, !.conn = f]
  BY <1>1 DEF EndpointSet
<1> HIDE DEF q
<1>2. /\ q \in PeerRecord /\ q.addr = a /\ q.conn = f
      /\ q.key = peer[i].key /\ q.secret = peer[i].secret
      /\ q.allowed = peer[i].allowed
  <2> DEFINE p == peer[i]
  <2>1. p \in PeerRecord /\ q = [p EXCEPT !.addr = a, !.conn = f]
    BY <1>1, <1>3
  <2> HIDE DEF p
  <2>2. /\ q \in PeerRecord /\ q.addr = a /\ q.conn = f
        /\ q.key = p.key /\ q.secret = p.secret
        /\ q.allowed = p.allowed
    BY <2>1 DEF PeerRecord
  <2> QED
    BY <2>2 DEF p
<1>4. peer' \in [Index -> PeerRecord] /\ peer'[i] = q /\ \A j \in Index : j # i => peer'[j] = peer[j]
  BY <1>1, <1>2, <1>3
<1>5. ASSUME i \in Configured, NEW j \in Index
      PROVE  /\ peer'[j].key = peer[j].key /\ peer'[j].secret = peer[j].secret
             /\ peer'[j].allowed = peer[j].allowed
             /\ peer'[j].conn = NoFd \/ peer'[j].conn = peer[j].conn \/ j \in Configured
  <2>1. CASE j = i
    BY <1>2, <1>4, <1>5, <2>1
  <2>2. CASE j # i
    BY <1>4, <2>2
  <2> QED
    BY <2>1, <2>2
<1> QED
  BY <1>2, <1>4, <1>5 DEF PeersSame

\* One peer is disconnected: its socket is shut, the others stay connected.
LEMMA PeerShut ==
    ASSUME IInv, NEW i \in Configured, NEW k, k = Shut(kernel, ConnFds({i}))
    PROVE  /\ Good(k, events, device.udp, Without(Conns, {i}))
           /\ \A j \in Index \ {i} : Conns[j] # NoFd =>
                  SocketAt(k, Conns[j]) = SocketAt(kernel, Conns[j])
           /\ i \in Index
<1>1. i \in Index
  BY ConfiguredIndex
<1>2. FdsOf(Conns, {i}) = ConnFds({i})
  BY <1>1 DEF FdsOf, ConnFds, Conns
<1> DEFINE P == {i}
<1>3. Good(kernel, events, device.udp, Conns) /\ P \in SUBSET Index
  BY <1>1 DEF IInv, KernelGood
<1>4. k = Shut(kernel, FdsOf(Conns, P))
  BY <1>2
<1> HIDE DEF P
<1>5. /\ Good(k, events, device.udp, Without(Conns, P))
      /\ \A j \in Index \ P : Conns[j] # NoFd =>
             SocketAt(k, Conns[j]) = SocketAt(kernel, Conns[j])
  <2>1. Good(k, events, device.udp, Without(Conns, P))
    BY <1>3, <1>4, ConnsShut
  <2>2. \A j \in Index \ P : Conns[j] # NoFd => SocketAt(k, Conns[j]) = SocketAt(kernel, Conns[j])
    BY <1>3, <1>4, ConnsShut
  <2> QED
    BY <2>1, <2>2
<1> QED
  BY <1>1, <1>5 DEF P

\* The timer handler disconnects a peer.
LEMMA ExpireHandler ==
    ASSUME IInv, NEW i \in Index, Expire(i)
    PROVE  IInv'
<1> DEFINE c == Without(Conns, {i})
<1>1. /\ i \in Configured
      /\ kernel' = Shut(kernel, ConnFds({i}))
      /\ peer' = Disconnected({i})
      /\ UNCHANGED <<device, events, request>>
  BY DEF Expire
<1>2. /\ Good(kernel', events, device.udp, c)
      /\ \A j \in Index \ {i} : Conns[j] # NoFd =>
             SocketAt(kernel', Conns[j]) = SocketAt(kernel, Conns[j])
  BY <1>1, PeerShut
<1>3. \A j \in Index :
        /\ peer'[j] \in PeerRecord
        /\ peer'[j].key = peer[j].key /\ peer'[j].secret = peer[j].secret
        /\ peer'[j].allowed = peer[j].allowed
        /\ peer'[j].addr = peer[j].addr
        /\ peer'[j].conn = IF j = i THEN NoFd ELSE peer[j].conn
  BY <1>1 DEF IInv, TypeOK, PeerRecord, Disconnected
<1>4. peer' \in [Index -> PeerRecord]
  BY <1>1, <1>3 DEF Disconnected
<1>5. PeersSame(peer') /\ TablesSame(device')
  BY <1>1, <1>3 DEF PeersSame, TablesSame
<1>6. TablesGood' /\ Configured' = Configured
  BY <1>1, <1>5, TablesKept DEF IInv
<1>7. TypeOK'
  BY <1>1, <1>2, <1>4 DEF IInv, TypeOK, Good, KernelTypes
<1>8. \A j \in Index : peer'[j].conn = c[j]
  BY <1>3 DEF Without, Conns
<1> HIDE DEF c
<1>9. Good(kernel', events', device'.udp, Conns')
  <2>1. Good(kernel', events, device.udp, [j \in Index |-> peer'[j].conn])
    BY <1>2, <1>8, GoodConns
  <2>2. Conns' = [j \in Index |-> peer'[j].conn]
    BY DEF Conns
  <2> QED
    BY <1>1, <2>1, <2>2
<1>10. ConnFits'
  <2> SUFFICES ASSUME NEW j \in Configured', peer'[j].conn # NoFd
               PROVE  SocketAt(kernel', peer'[j].conn)
                        = Connected(peer'[j].addr, device'.listen_port)
    BY DEF ConnFits
  <2>1. j \in Configured /\ j \in Index
    BY <1>6, ConfiguredIndex
  <2>2. j # i /\ peer'[j].conn = peer[j].conn /\ peer'[j].addr = peer[j].addr
    BY <1>3, <2>1
  <2>3. Conns[j] = peer[j].conn
    BY <2>1 DEF Conns
  <2> QED
    BY <1>1, <1>2, <2>1, <2>2, <2>3 DEF IInv, KernelGood, ConnFits
<1> QED
  BY <1>6, <1>7, <1>9, <1>10 DEF IInv, KernelGood

\* A handler finds the end of a socket that was shut down.
LEMMA EofHandler ==
    ASSUME IInv, NEW f \in Fd, Eof(f)
    PROVE  IInv'
<1>1. /\ events[f] # NoHandler /\ SocketAt(kernel, f).shut
      /\ events' = [events EXCEPT ![f] = NoHandler]
      /\ kernel' = Close(kernel, {f})
      /\ UNCHANGED <<device, peer, request>>
  BY DEF Eof, EventCleared
<1>2. /\ Good(kernel', events', device.udp, Conns)
      /\ \A i \in Index : Conns[i] # NoFd =>
             SocketAt(kernel', Conns[i]) = SocketAt(kernel, Conns[i])
  <2>1. Good(kernel, events, device.udp, Conns)
    BY DEF IInv, KernelGood
  <2>2. /\ Good(kernel', [events EXCEPT ![f] = NoHandler], device.udp, Conns)
        /\ \A i \in Index : Conns[i] # NoFd =>
               SocketAt(kernel', Conns[i]) = SocketAt(kernel, Conns[i])
    <3>1. Good(kernel', [events EXCEPT ![f] = NoHandler], device.udp, Conns)
      BY <1>1, <2>1, HandlerEnded
    <3>2. \A i \in Index : Conns[i] # NoFd =>
              SocketAt(kernel', Conns[i]) = SocketAt(kernel, Conns[i])
      BY <1>1, <2>1, HandlerEnded
    <3> QED
      BY <3>1, <3>2
  <2> QED
    BY <1>1, <2>2
<1>3. TypeOK'
  BY <1>1, <1>2 DEF IInv, TypeOK, Good, KernelTypes
<1>4. TablesGood'
  BY <1>1 DEF IInv, TablesGood, TablesAgree, Configured, IndexFresh, RoutesAllowed,
              TunnelsUseDeviceKey
<1>5. Good(kernel', events', device'.udp, Conns') /\ Configured' = Configured
  BY <1>1, <1>2 DEF Conns, Configured
<1>6. ConnFits'
  <2> SUFFICES ASSUME NEW j \in Configured, peer[j].conn # NoFd
               PROVE  SocketAt(kernel', peer[j].conn)
                        = Connected(peer[j].addr, device.listen_port)
    BY <1>1, <1>5 DEF ConnFits
  <2>1. j \in Index
    BY ConfiguredIndex
  <2>2. Conns[j] = peer[j].conn
    BY <2>1 DEF Conns
  <2> QED
    BY <1>2, <2>1, <2>2 DEF IInv, KernelGood, ConnFits
<1> QED
  BY <1>3, <1>4, <1>5, <1>6 DEF IInv, KernelGood

\* set_endpoint: a peer that stays where it was keeps its socket; one that moved
\* has none.
LEMMA EndpointGood ==
    ASSUME IInv, NEW i \in Configured, NEW a \in Addrs,
           NEW s, s = SetEndpoint(i, a),
           NEW c, c = [Conns EXCEPT ![i] = s.conn]
    PROVE  /\ Good(s.kernel, events, device.udp, c)
           /\ \A j \in Index \ {i} : Conns[j] # NoFd =>
                  SocketAt(s.kernel, Conns[j]) = SocketAt(kernel, Conns[j])
           /\ s.conn # NoFd => SocketAt(s.kernel, s.conn) = Connected(a, device.listen_port)
           /\ s.conn \in Fd \cup {NoFd}
           /\ i \in Index
<1>1. i \in Index
  BY ConfiguredIndex
<1>2. CASE peer[i].addr = a
  <2>1. s.kernel = kernel /\ s.conn = peer[i].conn
    BY <1>2 DEF SetEndpoint
  <2>2. c = Conns
    BY <1>1, <2>1 DEF Conns
  <2>3. peer[i].conn \in Fd \cup {NoFd}
    BY <1>1, PeerParts DEF IInv, TypeOK
  <2> QED
    BY <1>1, <1>2, <2>1, <2>2, <2>3 DEF IInv, KernelGood, ConnFits
<1>3. CASE peer[i].addr # a
  <2>1. s.kernel = Shut(kernel, ConnFds({i})) /\ s.conn = NoFd
    BY <1>3 DEF SetEndpoint
  <2>2. c = Without(Conns, {i})
    BY <1>1, <2>1 DEF Conns, Without
  <2> QED
    BY <1>1, <2>1, <2>2, PeerShut
<1> QED
  BY <1>2, <1>3

\* The UDP handler: set_endpoint, and for a peer without a socket connect_endpoint.
LEMMA ReceiveHandler ==
    ASSUME IInv, NEW f \in Fd, NEW a \in Addrs, NEW i \in Index, UdpReceive(f, a, i)
    PROVE  IInv'
<1> DEFINE s == SetEndpoint(i, a)
           own == FreeFd(s.kernel)
           socket == Connected(a, device.listen_port)
           k == Opened(s.kernel, socket)
           c == [Conns EXCEPT ![i] = s.conn]
<1>1. /\ i \in Configured
      /\ UNCHANGED <<device, request>>
      /\ \/ /\ kernel' = s.kernel
            /\ peer' = [peer EXCEPT ![i].addr = a, ![i].conn = s.conn]
            /\ UNCHANGED events
         \/ /\ ConnectEndpoint(i, s.kernel, s.conn)
            /\ kernel' = Cloned(k, own)
            /\ peer' = [peer EXCEPT ![i].addr = a, ![i].conn = FreeFd(k)]
            /\ events' = Registered(events, own, ConnHandler(i))
  BY DEF UdpReceive, Found, IInv, TablesGood, TablesAgree
<1>2. /\ Good(s.kernel, events, device.udp, c)
      /\ \A j \in Index \ {i} : Conns[j] # NoFd =>
             SocketAt(s.kernel, Conns[j]) = SocketAt(kernel, Conns[j])
      /\ s.conn # NoFd => SocketAt(s.kernel, s.conn) = socket
      /\ s.conn \in Fd \cup {NoFd}
  BY <1>1, EndpointGood
<1> HIDE DEF s
<1>3. TypeOK /\ a \in Addrs \cup {Nothing} /\ Conns \in [Index -> Fd \cup {NoFd}]
  BY DEF IInv, KernelGood, Good, KernelTypes
<1>4. c[i] = s.conn /\ \A j \in Index : j # i => c[j] = Conns[j]
  BY <1>3
\* What both outcomes have to show.
<1>5. ASSUME NEW g \in Fd \cup {NoFd},
             peer' = [peer EXCEPT ![i].addr = a, ![i].conn = g],
             NEW d, Good(kernel', events', device.udp, d), d[i] = g,
             \A j \in Index : j # i => d[j] = Conns[j],
             \A j \in Index \ {i} : Conns[j] # NoFd =>
                 SocketAt(kernel', Conns[j]) = SocketAt(kernel, Conns[j]),
             g # NoFd => SocketAt(kernel', g) = socket
      PROVE  IInv'
  <2>1. /\ peer' \in [Index -> PeerRecord]
        /\ peer'[i].addr = a /\ peer'[i].conn = g
        /\ \A j \in Index : j # i => peer'[j] = peer[j]
        /\ PeersSame(peer')
    <3>1. i \in Configured /\ EndpointSet(i, a, g)
      BY <1>1, <1>5 DEF EndpointSet
    <3>2. TypeOK /\ i \in Index /\ a \in Addrs \cup {Nothing} /\ g \in Fd \cup {NoFd}
      BY <1>3, <1>5
    <3> QED
      BY ONLY <3>1, <3>2, PeerSet
  <2>2. TablesGood' /\ Configured' = Configured
    <3>1. TablesSame(device')
      BY <1>1 DEF TablesSame
    <3> QED
      BY <1>1, <2>1, <3>1, TablesKept DEF IInv
  <2>3. TypeOK'
    BY <1>1, <1>5, <2>1 DEF IInv, TypeOK, Good, KernelTypes
  <2>4. \A j \in Index : peer'[j].conn = d[j]
    BY <1>5, <2>1 DEF Conns
  <2>5. Good(kernel', events', device'.udp, Conns')
    <3>1. d \in [Index -> Fd \cup {NoFd}]
      BY <1>5 DEF Good, KernelTypes
    <3>2. Conns' = d
      BY <2>4, <3>1 DEF Conns
    <3> QED
      BY <1>1, <1>5, <3>2
  <2>6. ConnFits'
    <3> SUFFICES ASSUME NEW j \in Configured', peer'[j].conn # NoFd
                 PROVE  SocketAt(kernel', peer'[j].conn)
                          = Connected(peer'[j].addr, device'.listen_port)
      BY DEF ConnFits
    <3>1. CASE j = i
      <4>1. SocketAt(kernel', peer'[i].conn) = Connected(a, device.listen_port)
        BY <1>5, <2>1, <3>1
      <4> QED
        BY <1>1, <2>1, <3>1, <4>1
    <3>2. CASE j # i
      <4>1. j \in Configured /\ j \in Index
        BY <2>2, ConfiguredIndex
      <4>2. peer'[j] = peer[j] /\ Conns[j] = peer[j].conn
        BY <2>1, <3>2, <4>1 DEF Conns
      <4> QED
        BY <1>1, <1>5, <3>2, <4>1, <4>2 DEF IInv, KernelGood, ConnFits
    <3> QED
      BY <3>1, <3>2
  <2> QED
    BY <2>2, <2>3, <2>5, <2>6 DEF IInv, KernelGood
<1>6. CASE /\ kernel' = s.kernel
           /\ peer' = [peer EXCEPT ![i].addr = a, ![i].conn = s.conn]
           /\ UNCHANGED events
  <2> HIDE DEF c
  <2> QED
    BY <1>2, <1>4, <1>5, <1>6
<1>7. CASE /\ ConnectEndpoint(i, s.kernel, s.conn)
           /\ kernel' = Cloned(k, own)
           /\ peer' = [peer EXCEPT ![i].addr = a, ![i].conn = FreeFd(k)]
           /\ events' = Registered(events, own, ConnHandler(i))
  <2> DEFINE g == FreeFd(k)
             d == [c EXCEPT ![i] = g]
  <2>1. s.conn = NoFd /\ HasFds(s.kernel, 2) /\ c[i] = NoFd
    BY <1>4, <1>7 DEF ConnectEndpoint
  <2>2. socket \in SocketRecord /\ ~socket.shut /\ socket # Listening
    <3>1. device.listen_port \in Ports /\ a # Nothing
      BY <1>3, DeviceParts, NothingAssumption DEF TypeOK
    <3> QED
      BY <3>1 DEF Connected, SocketRecord, Listening, Closed
  <2>3. /\ events' = [events EXCEPT ![own] = ConnHandler(i)]
        /\ own = FreeFd(s.kernel) /\ g = FreeFd(Opened(s.kernel, socket))
        /\ kernel' = Cloned(Opened(s.kernel, socket), own)
        /\ d = [c EXCEPT ![i] = g]
    BY <1>7 DEF Registered
  <2> HIDE DEF c, socket, own, k, g, d
  <2>4. /\ g \in Fd
        /\ Good(kernel', events', device.udp, d)
        /\ SocketAt(kernel', g) = socket
        /\ \A j \in Index : c[j] # NoFd => SocketAt(kernel', c[j]) = SocketAt(s.kernel, c[j])
    <3>1. Good(s.kernel, events, device.udp, c)
      BY <1>2
    <3>2. HasFds(s.kernel, 2) /\ c[i] = NoFd /\ i \in Index
      BY <2>1
    <3>3. kernel' = Cloned(Opened(s.kernel, socket), own)
      BY <2>3
    <3>4. own = FreeFd(s.kernel) /\ g = FreeFd(Opened(s.kernel, socket))
      BY <2>3
    <3>5. Good(kernel', [events EXCEPT ![own] = ConnHandler(i)], device.udp, [c EXCEPT ![i] = g])
      BY <2>2, <3>1, <3>2, <3>3, <3>4, ConnOpened
    <3>6. g \in Fd /\ SocketAt(kernel', g) = socket
      BY <2>2, <3>1, <3>2, <3>3, <3>4, <3>5, ConnOpened
    <3>7. \A j \in Index : c[j] # NoFd => SocketAt(kernel', c[j]) = SocketAt(s.kernel, c[j])
      BY <2>2, <3>1, <3>2, <3>3, <3>4, <3>5, ConnOpened
    <3> QED
      BY <2>3, <3>5, <3>6, <3>7
  <2>5. c \in [Index -> Fd \cup {NoFd}]
    BY <1>2 DEF Good, KernelTypes
  <2>6. d[i] = g /\ \A j \in Index : j # i => d[j] = Conns[j]
    BY <1>4, <2>3, <2>5
  <2>7. \A j \in Index \ {i} : Conns[j] # NoFd =>
            SocketAt(kernel', Conns[j]) = SocketAt(kernel, Conns[j])
    BY <1>2, <1>4, <2>4
  <2> QED
    BY <1>5, <1>7, <2>4, <2>6, <2>7 DEF g, k
<1> QED
  BY <1>1, <1>6, <1>7

-----------------------------------------------------------------------------
(* The invariant holds.                                                    *)

\* What the device starts with: its socket at 1 and the handler's clone at 2.
LEMMA InitKernel ==
    ASSUME Init
    PROVE  KernelTypes(kernel, events, device.udp, Conns) /\ KernelGood /\ Configured = {}
<1>1. 1 \in Fd /\ 2 \in Fd /\ 1 \in Socket
  BY DeviceAssumption DEF Fd, Socket
<1>2. /\ device.udp = 1
      /\ kernel.fds = [f \in Fd |-> IF f \in {1, 2} THEN 1 ELSE 0]
      /\ kernel.sockets = [s \in Socket |-> Listening]
      /\ kernel = [fds |-> kernel.fds, sockets |-> kernel.sockets]
      /\ \A k \in Keys : device.peers[k] = NoIndex
  BY DEF Init
<1>3. \A i \in Index : Conns[i] = NoFd
  BY EmptyRecords DEF Init, Conns
<1>4. events = [f \in Fd |-> IF f = 2 THEN UdpHandler ELSE NoHandler]
  BY DEF Init
<1>5. \A f \in Fd : events[f] # NoHandler => f = 2 /\ events[f] = UdpHandler
  BY <1>4
<1>6. KernelTypes(kernel, events, device.udp, Conns)
  <2>1. kernel \in Kernel
    BY <1>1, <1>2, SocketRecords DEF Kernel
  <2>2. events \in [Fd -> Handlers]
    BY <1>4 DEF Handlers
  <2>3. Conns \in [Index -> Fd \cup {NoFd}]
    BY <1>3 DEF Conns
  <2> QED
    BY <1>1, <1>2, <2>1, <2>2, <2>3 DEF KernelTypes
<1>7. Owned(kernel, events, device.udp, Conns)
  <2>1. \A f \in Fd : f # NoFd /\ (kernel.fds[f] # 0 <=> f = 1 \/ f = 2)
    BY <1>1, <1>2, ZeroIsNone
  <2>2. events[2] # NoHandler
    BY <1>1, <1>4, HandlersDiffer
  <2> QED
    BY <1>1, <1>2, <1>3, <1>5, <2>1, <2>2 DEF Owned
<1>8. Heard(kernel, events, Conns)
  <2>1. SocketAt(kernel, 2) = Listening
    BY <1>1, <1>2 DEF SocketAt
  <2>2. \A f \in Fd, i \in Index : events[f] # ConnHandler(i)
    BY <1>5, HandlersDiffer
  <2> QED
    BY <1>3, <1>5, <2>1, <2>2, HandlersDiffer DEF Heard
<1>9. Configured = {}
  BY <1>2 DEF Configured
<1> QED
  BY <1>6, <1>7, <1>8, <1>9 DEF KernelGood, Good, ConnFits

\* It starts without peers.
LEMMA InitInv == Init => IInv
<1> SUFFICES ASSUME Init PROVE IInv
  OBVIOUS
<1>1. KernelTypes(kernel, events, device.udp, Conns) /\ KernelGood /\ Configured = {}
  BY InitKernel
<1>2. device \in DeviceRecord
  <2>1. 1 \in Fd /\ 1 \in 1..(MaxIndex + 1)
    BY DeviceAssumption DEF Fd
  <2>2. [k \in Keys |-> NoIndex] \in [Keys -> Index \cup {NoIndex}]
    OBVIOUS
  <2>3. [n \in Networks |-> NoIndex] \in [Networks -> Index \cup {NoIndex}]
    OBVIOUS
  <2>4. PICK port \in Ports : device =
            [key_pair |-> Nothing, listen_port |-> port, udp |-> 1,
             peers |-> [k \in Keys |-> NoIndex], peers_by_idx |-> {},
             peers_by_ip |-> [n \in Networks |-> NoIndex], next_index |-> 1]
    BY DEF Init, Assigned
  <2> QED
    BY <2>1, <2>2, <2>3, <2>4 DEF DeviceRecord
<1>3. TypeOK
  BY <1>1, <1>2, EmptyRecords DEF Init, TypeOK, KernelTypes
<1>4. /\ device.peers_by_idx = {}
      /\ \A k \in Keys : device.peers[k] = NoIndex
      /\ \A n \in Networks : device.peers_by_ip[n] = NoIndex
      /\ \A i \in Index : peer[i] = NoPeer
  BY EmptyRecords DEF Init
<1>5. TablesGood
  BY <1>1, <1>4, EmptyRecords
     DEF TablesGood, TablesAgree, IndexFresh, RoutesAllowed, TunnelsUseDeviceKey
<1> QED
  BY <1>1, <1>3, <1>5 DEF IInv

\* Every line of a request keeps it.
LEMMA LineInv ==
    ASSUME IInv, Line
    PROVE  IInv'
BY KeyLine, ListenLine, ListenFailsLine, ReplaceLine, SectionLine, RequestLine DEF Line

\* Every handler keeps it.
LEMMA HandlerInv ==
    ASSUME IInv, Handler
    PROVE  IInv'
BY ReceiveHandler, EofHandler, ExpireHandler DEF Handler

\* The invariant is inductive.
LEMMA NextInv == IInv /\ [Next]_vars => IInv'
<1> SUFFICES ASSUME IInv, [Next]_vars PROVE IInv'
  OBVIOUS
<1>1. CASE Next
  BY <1>1, RequestLine, LineInv, HandlerInv DEF Next
<1>2. CASE UNCHANGED vars
  <2>1. UNCHANGED <<device, peer, kernel, events, request>>
    BY <1>2 DEF vars
  <2>2. TypeOK'
    BY <2>1 DEF IInv, TypeOK
  <2>3. TablesGood'
    BY <2>1 DEF IInv, TablesGood, TablesAgree, Configured, IndexFresh, RoutesAllowed,
                TunnelsUseDeviceKey
  <2>4. KernelGood'
    BY <2>1 DEF IInv, KernelGood, Conns, ConnFits, Configured
  <2> QED
    BY <2>2, <2>3, <2>4 DEF IInv
<1> QED
  BY <1>1, <1>2

\* IInv holds throughout.
LEMMA Invariance == Spec => []IInv
BY InitInv, NextInv, PTL DEF Spec

-----------------------------------------------------------------------------
(* The properties.                                                         *)

\* The device, its peers, the kernel's descriptors, the events and the request
\* keep their types.
THEOREM TypeCorrect == Spec => []TypeOK
BY Invariance, PTL DEF IInv

\* All tunnels speak with the device's key, in whatever order keys and peers come.
THEOREM KeysAgree == Spec => []TunnelsUseDeviceKey
BY Invariance, PTL DEF IInv, TablesGood

\* AllowedIps::find ends at one network, whose peer is configured and is given the
\* address: for any laminar family of finite networks.
THEOREM RoutesAgree == Spec => []CryptokeyRouting
<1>1. ASSUME IInv, NEW d \in Destinations, Find(d) # NoIndex
      PROVE  Find(d) \in Configured /\ IsAllowedIp(Find(d), d)
  <2> DEFINE holding == {n \in Networks : d \in n /\ device.peers_by_ip[n] # NoIndex}
             longest == CHOOSE n \in holding : \A m \in holding : n \subseteq m
  <2>1. holding # {} /\ Find(d) = device.peers_by_ip[longest]
    BY <1>1 DEF Find
  <2>2. \E n \in holding : \A m \in holding : n \subseteq m
    <3>1. holding \in SUBSET Networks /\ \A n \in holding : d \in n
      OBVIOUS
    <3> HIDE DEF holding
    <3> QED
      BY <2>1, <3>1, LeastNetwork
  <2>3. longest \in holding
    BY <2>2
  <2>4. longest \in Networks /\ d \in longest /\ device.peers_by_ip[longest] # NoIndex
    BY <2>3
  <2> HIDE DEF longest, holding
  <2>5. Find(d) \in Configured
    BY <1>1, <2>1, <2>4 DEF IInv, TablesGood, TablesAgree
  <2>6. longest \in peer[Find(d)].allowed
    BY <1>1, <2>1, <2>4 DEF IInv, TablesGood, RoutesAllowed
  <2> QED
    BY <2>4, <2>5, <2>6 DEF IsAllowedIp
<1>2. IInv => CryptokeyRouting
  BY <1>1 DEF CryptokeyRouting, IInv, TablesGood
<1> QED
  BY <1>2, Invariance, PTL

\* A peer that has a socket has one descriptor that a handler reads for it.
LEMMA HeardOnce ==
    ASSUME IInv, NEW i \in Index, NEW heard,
           heard = {f \in Fd : events[f] = ConnHandler(i) /\ ~SocketAt(kernel, f).shut}
    PROVE  IF peer[i].conn = NoFd THEN heard = {}
           ELSE /\ Cardinality(heard) = 1
                /\ \A f \in heard : kernel.fds[f] = kernel.fds[peer[i].conn]
<1>1. Heard(kernel, events, Conns) /\ Conns[i] = peer[i].conn
  BY DEF IInv, KernelGood, Good, Conns
<1>2. CASE peer[i].conn = NoFd
  BY <1>1, <1>2 DEF Heard
<1>3. CASE peer[i].conn # NoFd
  <2>1. PICK f \in Fd : events[f] = ConnHandler(i) /\ kernel.fds[f] = kernel.fds[peer[i].conn]
    BY <1>1, <1>3 DEF Heard
  <2>2. ~SocketAt(kernel, peer[i].conn).shut
    BY <1>1, <1>3 DEF Heard
  <2>3. ~SocketAt(kernel, f).shut
    BY <2>1, <2>2 DEF SocketAt
  <2>4. \A g \in heard : kernel.fds[g] = kernel.fds[peer[i].conn]
    BY <1>1, <1>3 DEF Heard
  <2>5. \A g \in heard : g = f
    BY <1>1, <2>1, <2>4, HandlersDiffer DEF Heard
  <2>6. heard = {f}
    BY <2>1, <2>3, <2>5
  <2> QED
    BY <1>3, <2>4, <2>6, FS_Singleton
<1> QED
  BY <1>2, <1>3

\* Whatever a peer was and however it moves, its socket leads to its endpoint from
\* the device's present port, one handler reads it, and none reads another for it.
THEOREM ConnsHeard == Spec => []ConnSockets
<1>1. IInv => ConnFits
  BY DEF IInv, KernelGood
<1>2. ASSUME IInv
      PROVE  ConnIsHeard
  <2>1. \A i \in Configured : i \in Index
    BY <1>2, ConfiguredIndex
  <2> QED
    BY <1>2, <2>1, HeardOnce DEF ConnIsHeard
<1>3. ASSUME IInv, NEW f \in Fd, events[f].kind = "conn", peer[events[f].peer] = NoPeer
      PROVE  SocketAt(kernel, f).shut
  <2>1. events \in [Fd -> Handlers]
    BY <1>3 DEF IInv, TypeOK
  <2>2. PICK i \in Index : events[f] = ConnHandler(i)
    BY <1>3, <2>1, HandlerKinds, HandlersDiffer
  <2>3. peer[i].conn = NoFd
    BY <1>3, <2>2, HandlersDiffer, EmptyRecords
  <2> QED
    BY <1>3, <2>2, <2>3 DEF IInv, KernelGood, Good, Heard, Conns
<1>4. IInv => ConnSockets
  BY <1>1, <1>2, <1>3 DEF ConnSockets, RemovedAreSilent
<1> QED
  BY <1>4, Invariance, PTL

\* An open descriptor has one owner, the handler, the device or a peer; and a
\* handler's is open, for the listening socket exactly if the handler is the UDP one.
THEOREM DescriptorsOwnedOnce == Spec => []DescriptorsOwned
<1>1. ASSUME IInv, NEW f \in Fd, events[f] # NoHandler
      PROVE  kernel.fds[f] # 0 /\ (SocketAt(kernel, f) = Listening <=> events[f] = UdpHandler)
  <2>1. Good(kernel, events, device.udp, Conns) /\ events \in [Fd -> Handlers]
    BY <1>1 DEF IInv, KernelGood, Good, KernelTypes
  <2>2. kernel.fds[f] # 0
    BY <1>1, <2>1 DEF Good, Owned
  <2>3. CASE events[f] = UdpHandler
    BY <2>1, <2>2, <2>3 DEF Good, Heard
  <2>4. CASE events[f] # UdpHandler
    <3>1. PICK i \in Index : events[f] = ConnHandler(i)
      BY <1>1, <2>1, <2>4, HandlerKinds
    <3>2. CASE SocketAt(kernel, f).shut
      BY <2>2, <2>4, <3>2, SocketRecords
    <3>3. CASE ~SocketAt(kernel, f).shut
      <4>1. Conns[i] # NoFd /\ kernel.fds[Conns[i]] = kernel.fds[f]
        BY <2>1, <3>1, <3>3 DEF Good, Heard
      <4>2. SocketAt(kernel, Conns[i]) # Listening
        BY <2>1, <4>1 DEF Good, Heard
      <4> QED
        BY <2>2, <2>4, <4>1, <4>2 DEF SocketAt
    <3> QED
      BY <3>2, <3>3
  <2> QED
    BY <2>3, <2>4
<1>2. ASSUME IInv, NEW f \in Fd, kernel.fds[f] # 0
      PROVE  Cardinality({o \in {"handler", "device"} :
                              \/ o = "handler" /\ events[f] # NoHandler
                              \/ o = "device" /\ device.udp = f}
                          \cup {i \in Index : peer[i].conn = f}) = 1
  <2> DEFINE fixed == {o \in {"handler", "device"} :
                           \/ o = "handler" /\ events[f] # NoHandler
                           \/ o = "device" /\ device.udp = f}
             peers == {i \in Index : peer[i].conn = f}
  <2>1. /\ Owned(kernel, events, device.udp, Conns)
        /\ \A i \in Index : Conns[i] = peer[i].conn
        /\ f # NoFd
    BY <1>2, ZeroIsNone DEF IInv, KernelGood, Good, Conns
  <2>2. \E x : fixed \cup peers = {x}
    <3>1. CASE events[f] # NoHandler
      <4>1. device.udp # f /\ peers = {}
        BY <2>1, <3>1 DEF Owned
      <4>2. fixed = {"handler"}
        BY <3>1, <4>1
      <4> QED
        BY <4>1, <4>2
    <3>2. CASE events[f] = NoHandler /\ device.udp = f
      <4>1. peers = {}
        BY <2>1, <3>2 DEF Owned
      <4>2. fixed = {"device"}
        BY <3>2
      <4> QED
        BY <4>1, <4>2
    <3>3. CASE events[f] = NoHandler /\ device.udp # f
      <4>1. PICK i \in Index : peer[i].conn = f
        BY <1>2, <2>1, <3>3 DEF Owned
      <4>2. \A j \in Index : peer[j].conn = f => j = i
        BY <2>1, <4>1 DEF Owned
      <4>3. peers = {i} /\ fixed = {}
        BY <3>3, <4>1, <4>2
      <4> QED
        BY <4>3
    <3> QED
      BY <3>1, <3>2, <3>3
  <2> QED
    BY <2>2, FS_Singleton
<1>3. IInv => DescriptorsOwned
  BY <1>1, <1>2 DEF DescriptorsOwned
<1> QED
  BY <1>3, Invariance, PTL

-----------------------------------------------------------------------------
(* The threads and the lock: EventLoop.  The safety properties follow from  *)
(* one inductive invariant, that each part of the lock and the yield notice *)
(* says where the threads are.                                             *)

\* The owner of the handle reads and never writes.
OwnerOnlyReads ==
    pc[Owner] \in {"idle", "outside", "entering", "entry_parked", "polling", "gone"}

\* The mutex is held from a check of wants_write to what follows from it.
MutexMatches ==
    \A t \in Actors : mutex = t <=> pc[t] \in {"entering", "claiming"}

\* The write lock excludes the read locks.
WriterMatches ==
    /\ \A t \in Threads : writer = t <=> pc[t] = "writing"
    /\ writer # NoOne => readers = {}

\* The yield notice stands from prep_func to mut_func.
YieldMatches ==
    yield_notice <=> \E t \in Threads : pc[t] \in {"want", "wanting", "writing"}

Inv ==
    /\ LoopTypeOK
    /\ OwnerOnlyReads
    /\ LockMatchesThreads
    /\ MutexMatches
    /\ WriterMatches
    /\ YieldMatches

\* At the start everybody is outside the lock.
LEMMA Initial == LoopInit => Inv
<1>. SUFFICES ASSUME LoopInit PROVE Inv
    OBVIOUS
<1>. USE ActorAssumption DEF LoopInit, Actors
<1>1. LoopTypeOK
  <2>1. pc \in [Actors -> PCs]
    BY DEF PCs
  <2>2. handling \in [Threads -> Apis \cup {NoEvent}]
    OBVIOUS
  <2>3. told \in BOOLEAN /\ wants_write \in BOOLEAN
    BY Zenon
  <2>4. yield_notice \in BOOLEAN /\ exit_notice \in BOOLEAN
    BY Zenon
  <2>5. requests \in 0..MaxRequests
    OBVIOUS
  <2>. QED BY <2>1, <2>2, <2>3, <2>4, <2>5 DEF LoopTypeOK
<1>2. OwnerOnlyReads
    BY DEF OwnerOnlyReads
<1>3. \A t \in Actors : pc[t] \in {"idle", "outside"}
    OBVIOUS
<1>4. LockMatchesThreads
    BY <1>3 DEF LockMatchesThreads, Reading, Marked
<1>5. MutexMatches
    BY <1>3 DEF MutexMatches
<1>6. WriterMatches
    BY <1>3 DEF WriterMatches
<1>7. YieldMatches
    BY <1>3 DEF YieldMatches
<1>. QED BY <1>1, <1>2, <1>4, <1>5, <1>6, <1>7 DEF Inv

\* A reader takes the mutex.
LEMMA EnterLockKeeps ==
    ASSUME Inv, NEW t \in Actors, EnterLock(t)
    PROVE  Inv'
<1>. USE ActorAssumption DEF Inv, EnterLock, Goes, lock, notices, other, Actors, PCs
<1>1. LoopTypeOK'
    BY DEF LoopTypeOK
<1>2. OwnerOnlyReads'
    BY DEF LoopTypeOK, OwnerOnlyReads
<1>3. LockMatchesThreads'
    BY DEF LoopTypeOK, OwnerOnlyReads, LockMatchesThreads, MutexMatches, WriterMatches, Reading, Marked
<1>4. MutexMatches'
    BY DEF LoopTypeOK, MutexMatches
<1>5. WriterMatches'
    BY DEF LoopTypeOK, LockMatchesThreads, OwnerOnlyReads, WriterMatches, Reading, Marked
<1>6. YieldMatches'
    BY DEF LoopTypeOK, OwnerOnlyReads, LockMatchesThreads, YieldMatches, Reading, Marked
<1>. QED BY <1>1, <1>2, <1>3, <1>4, <1>5, <1>6

\* A reader waits for the writer to go away.
LEMMA EnterParkKeeps ==
    ASSUME Inv, NEW t \in Actors, EnterPark(t)
    PROVE  Inv'
<1>. USE ActorAssumption DEF Inv, EnterPark, Goes, lock, notices, other, Actors, PCs
<1>1. LoopTypeOK'
    BY DEF LoopTypeOK
<1>2. OwnerOnlyReads'
    BY DEF LoopTypeOK, OwnerOnlyReads
<1>3. LockMatchesThreads'
    BY DEF LoopTypeOK, OwnerOnlyReads, LockMatchesThreads, MutexMatches, WriterMatches, Reading, Marked
<1>4. MutexMatches'
    BY DEF LoopTypeOK, MutexMatches
<1>5. WriterMatches'
    BY DEF LoopTypeOK, LockMatchesThreads, OwnerOnlyReads, WriterMatches, Reading, Marked
<1>6. YieldMatches'
    BY DEF LoopTypeOK, OwnerOnlyReads, LockMatchesThreads, YieldMatches, Reading, Marked
<1>. QED BY <1>1, <1>2, <1>3, <1>4, <1>5, <1>6

\* A reader that found no writer takes the read lock: the writer's side is idle.
LEMMA EnterReadKeeps ==
    ASSUME Inv, NEW t \in Actors, EnterRead(t)
    PROVE  Inv'
<1>. USE ActorAssumption DEF Inv, EnterRead, Goes, CanRead, lock, notices, other, Actors, PCs
<1>1. LoopTypeOK'
    BY DEF LoopTypeOK
<1>2. OwnerOnlyReads'
    BY DEF LoopTypeOK, OwnerOnlyReads
<1>3. LockMatchesThreads'
    BY DEF LoopTypeOK, OwnerOnlyReads, LockMatchesThreads, MutexMatches, WriterMatches, Reading, Marked
<1>4. MutexMatches'
    BY DEF LoopTypeOK, MutexMatches
<1>5. WriterMatches'
    BY DEF LoopTypeOK, LockMatchesThreads, OwnerOnlyReads, WriterMatches, Reading, Marked
<1>6. YieldMatches'
    BY DEF LoopTypeOK, OwnerOnlyReads, LockMatchesThreads, YieldMatches, Reading, Marked
<1>. QED BY <1>1, <1>2, <1>3, <1>4, <1>5, <1>6

\* A handler begins.
LEMMA BeginHandlerKeeps ==
    ASSUME Inv, NEW t \in Threads, BeginHandler(t)
    PROVE  Inv'
<1>. USE ActorAssumption DEF Inv, BeginHandler, Goes, lock, notices, other, Actors, PCs
<1>1. LoopTypeOK'
    BY DEF LoopTypeOK
<1>2. OwnerOnlyReads'
    BY DEF LoopTypeOK, OwnerOnlyReads
<1>3. LockMatchesThreads'
    BY DEF LoopTypeOK, OwnerOnlyReads, LockMatchesThreads, MutexMatches, WriterMatches, Reading, Marked
<1>4. MutexMatches'
    BY DEF LoopTypeOK, MutexMatches
<1>5. WriterMatches'
    BY DEF LoopTypeOK, LockMatchesThreads, OwnerOnlyReads, WriterMatches, Reading, Marked
<1>6. YieldMatches'
    BY DEF LoopTypeOK, OwnerOnlyReads, LockMatchesThreads, YieldMatches, Reading, Marked
<1>. QED BY <1>1, <1>2, <1>3, <1>4, <1>5, <1>6

\* A handler ends.
LEMMA EndHandlerKeeps ==
    ASSUME Inv, NEW t \in Threads, EndHandler(t)
    PROVE  Inv'
<1>. USE ActorAssumption DEF Inv, EndHandler, Goes, lock, notices, other, Actors, PCs
<1>1. LoopTypeOK'
    BY DEF LoopTypeOK
<1>2. OwnerOnlyReads'
    BY DEF LoopTypeOK, OwnerOnlyReads
<1>3. LockMatchesThreads'
    BY DEF LoopTypeOK, OwnerOnlyReads, LockMatchesThreads, MutexMatches, WriterMatches, Reading, Marked
<1>4. MutexMatches'
    BY DEF LoopTypeOK, MutexMatches
<1>5. WriterMatches'
    BY DEF LoopTypeOK, LockMatchesThreads, OwnerOnlyReads, WriterMatches, Reading, Marked
<1>6. YieldMatches'
    BY DEF LoopTypeOK, OwnerOnlyReads, LockMatchesThreads, YieldMatches, Reading, Marked
<1>. QED BY <1>1, <1>2, <1>3, <1>4, <1>5, <1>6

\* A handler makes its thread leave.
LEMMA HandlerExitsKeeps ==
    ASSUME Inv, NEW t \in Threads, HandlerExits(t)
    PROVE  Inv'
<1>. USE ActorAssumption DEF Inv, HandlerExits, Goes, lock, notices, other, Actors, PCs
<1>1. LoopTypeOK'
    BY DEF LoopTypeOK
<1>2. OwnerOnlyReads'
    BY DEF LoopTypeOK, OwnerOnlyReads
<1>3. LockMatchesThreads'
    BY DEF LoopTypeOK, OwnerOnlyReads, LockMatchesThreads, MutexMatches, WriterMatches, Reading, Marked
<1>4. MutexMatches'
    BY DEF LoopTypeOK, MutexMatches
<1>5. WriterMatches'
    BY DEF LoopTypeOK, LockMatchesThreads, OwnerOnlyReads, WriterMatches, Reading, Marked
<1>6. YieldMatches'
    BY DEF LoopTypeOK, OwnerOnlyReads, LockMatchesThreads, YieldMatches, Reading, Marked
<1>. QED BY <1>1, <1>2, <1>3, <1>4, <1>5, <1>6

\* A thread yields.
LEMMA TakeYieldKeeps ==
    ASSUME Inv, NEW t \in Threads, TakeYield(t)
    PROVE  Inv'
<1>. USE ActorAssumption DEF Inv, TakeYield, Goes, lock, notices, other, Actors, PCs
<1>1. LoopTypeOK'
    BY DEF LoopTypeOK
<1>2. OwnerOnlyReads'
    BY DEF LoopTypeOK, OwnerOnlyReads
<1>3. LockMatchesThreads'
    BY DEF LoopTypeOK, OwnerOnlyReads, LockMatchesThreads, MutexMatches, WriterMatches, Reading, Marked
<1>4. MutexMatches'
    BY DEF LoopTypeOK, MutexMatches
<1>5. WriterMatches'
    BY DEF LoopTypeOK, LockMatchesThreads, OwnerOnlyReads, WriterMatches, Reading, Marked
<1>6. YieldMatches'
    BY DEF LoopTypeOK, OwnerOnlyReads, LockMatchesThreads, YieldMatches, Reading, Marked
<1>. QED BY <1>1, <1>2, <1>3, <1>4, <1>5, <1>6

\* A thread leaves.
LEMMA TakeExitKeeps ==
    ASSUME Inv, NEW t \in Threads, TakeExit(t)
    PROVE  Inv'
<1>. USE ActorAssumption DEF Inv, TakeExit, Goes, lock, notices, other, Actors, PCs
<1>1. LoopTypeOK'
    BY DEF LoopTypeOK
<1>2. OwnerOnlyReads'
    BY DEF LoopTypeOK, OwnerOnlyReads
<1>3. LockMatchesThreads'
    BY DEF LoopTypeOK, OwnerOnlyReads, LockMatchesThreads, MutexMatches, WriterMatches, Reading, Marked
<1>4. MutexMatches'
    BY DEF LoopTypeOK, MutexMatches
<1>5. WriterMatches'
    BY DEF LoopTypeOK, LockMatchesThreads, OwnerOnlyReads, WriterMatches, Reading, Marked
<1>6. YieldMatches'
    BY DEF LoopTypeOK, OwnerOnlyReads, LockMatchesThreads, YieldMatches, Reading, Marked
<1>. QED BY <1>1, <1>2, <1>3, <1>4, <1>5, <1>6

\* A configuration request is taken up.
LEMMA TakeRequestKeeps ==
    ASSUME Inv, NEW t \in Threads, TakeRequest(t)
    PROVE  Inv'
<1>. USE ActorAssumption DEF Inv, TakeRequest, Goes, lock, notices, other, Actors, PCs
<1>1. LoopTypeOK'
    BY DEF LoopTypeOK
<1>2. OwnerOnlyReads'
    BY DEF LoopTypeOK, OwnerOnlyReads
<1>3. LockMatchesThreads'
    BY DEF LoopTypeOK, OwnerOnlyReads, LockMatchesThreads, MutexMatches, WriterMatches, Reading, Marked
<1>4. MutexMatches'
    BY DEF LoopTypeOK, MutexMatches
<1>5. WriterMatches'
    BY DEF LoopTypeOK, LockMatchesThreads, OwnerOnlyReads, WriterMatches, Reading, Marked
<1>6. YieldMatches'
    BY DEF LoopTypeOK, OwnerOnlyReads, LockMatchesThreads, YieldMatches, Reading, Marked
<1>. QED BY <1>1, <1>2, <1>3, <1>4, <1>5, <1>6

\* The writer takes the mutex.
LEMMA ClaimLockKeeps ==
    ASSUME Inv, NEW t \in Threads, ClaimLock(t)
    PROVE  Inv'
<1>. USE ActorAssumption DEF Inv, ClaimLock, Goes, lock, notices, other, Actors, PCs
<1>1. LoopTypeOK'
    BY DEF LoopTypeOK
<1>2. OwnerOnlyReads'
    BY DEF LoopTypeOK, OwnerOnlyReads
<1>3. LockMatchesThreads'
    BY DEF LoopTypeOK, OwnerOnlyReads, LockMatchesThreads, MutexMatches, WriterMatches, Reading, Marked
<1>4. MutexMatches'
    BY DEF LoopTypeOK, MutexMatches
<1>5. WriterMatches'
    BY DEF LoopTypeOK, LockMatchesThreads, OwnerOnlyReads, WriterMatches, Reading, Marked
<1>6. YieldMatches'
    BY DEF LoopTypeOK, OwnerOnlyReads, LockMatchesThreads, YieldMatches, Reading, Marked
<1>. QED BY <1>1, <1>2, <1>3, <1>4, <1>5, <1>6

\* The writer waits for another one.
LEMMA ClaimParkKeeps ==
    ASSUME Inv, NEW t \in Threads, ClaimPark(t)
    PROVE  Inv'
<1>. USE ActorAssumption DEF Inv, ClaimPark, Goes, lock, notices, other, Actors, PCs
<1>1. LoopTypeOK'
    BY DEF LoopTypeOK
<1>2. OwnerOnlyReads'
    BY DEF LoopTypeOK, OwnerOnlyReads
<1>3. LockMatchesThreads'
    BY DEF LoopTypeOK, OwnerOnlyReads, LockMatchesThreads, MutexMatches, WriterMatches, Reading, Marked
<1>4. MutexMatches'
    BY DEF LoopTypeOK, MutexMatches
<1>5. WriterMatches'
    BY DEF LoopTypeOK, LockMatchesThreads, OwnerOnlyReads, WriterMatches, Reading, Marked
<1>6. YieldMatches'
    BY DEF LoopTypeOK, OwnerOnlyReads, LockMatchesThreads, YieldMatches, Reading, Marked
<1>. QED BY <1>1, <1>2, <1>3, <1>4, <1>5, <1>6

\* The writer marks its wish: no other thread has marked one.
LEMMA ClaimKeeps ==
    ASSUME Inv, NEW t \in Threads, Claim(t)
    PROVE  Inv'
<1>. USE ActorAssumption DEF Inv, Claim, Goes, lock, notices, other, Actors, PCs
<1>1. LoopTypeOK'
    BY DEF LoopTypeOK
<1>2. OwnerOnlyReads'
    BY DEF LoopTypeOK, OwnerOnlyReads
<1>3. LockMatchesThreads'
    BY DEF LoopTypeOK, OwnerOnlyReads, LockMatchesThreads, MutexMatches, WriterMatches, Reading, Marked
<1>4. MutexMatches'
    BY DEF LoopTypeOK, MutexMatches
<1>5. WriterMatches'
    BY DEF LoopTypeOK, LockMatchesThreads, OwnerOnlyReads, WriterMatches, Reading, Marked
<1>6. YieldMatches'
    BY DEF LoopTypeOK, OwnerOnlyReads, LockMatchesThreads, YieldMatches, Reading, Marked
<1>. QED BY <1>1, <1>2, <1>3, <1>4, <1>5, <1>6

\* The writer takes its read lock again before prep_func.
LEMMA RelockKeeps ==
    ASSUME Inv, NEW t \in Threads, Relock(t)
    PROVE  Inv'
<1>. USE ActorAssumption DEF Inv, Relock, Goes, CanRead, lock, notices, other, Actors, PCs
<1>1. LoopTypeOK'
    BY DEF LoopTypeOK
<1>2. OwnerOnlyReads'
    BY DEF LoopTypeOK, OwnerOnlyReads
<1>3. LockMatchesThreads'
    BY DEF LoopTypeOK, OwnerOnlyReads, LockMatchesThreads, MutexMatches, WriterMatches, Reading, Marked
<1>4. MutexMatches'
    BY DEF LoopTypeOK, MutexMatches
<1>5. WriterMatches'
    BY DEF LoopTypeOK, LockMatchesThreads, OwnerOnlyReads, WriterMatches, Reading, Marked
<1>6. YieldMatches'
    BY DEF LoopTypeOK, OwnerOnlyReads, LockMatchesThreads, YieldMatches, Reading, Marked
<1>. QED BY <1>1, <1>2, <1>3, <1>4, <1>5, <1>6

\* The writer asks the others to yield.
LEMMA PrepKeeps ==
    ASSUME Inv, NEW t \in Threads, Prep(t)
    PROVE  Inv'
<1>. USE ActorAssumption DEF Inv, Prep, Goes, lock, notices, other, Actors, PCs
<1>1. LoopTypeOK'
    BY DEF LoopTypeOK
<1>2. OwnerOnlyReads'
    BY DEF LoopTypeOK, OwnerOnlyReads
<1>3. LockMatchesThreads'
    BY DEF LoopTypeOK, OwnerOnlyReads, LockMatchesThreads, MutexMatches, WriterMatches, Reading, Marked
<1>4. MutexMatches'
    BY DEF LoopTypeOK, MutexMatches
<1>5. WriterMatches'
    BY DEF LoopTypeOK, LockMatchesThreads, OwnerOnlyReads, WriterMatches, Reading, Marked
<1>6. YieldMatches'
    BY DEF LoopTypeOK, OwnerOnlyReads, LockMatchesThreads, YieldMatches, Reading, Marked
<1>. QED BY <1>1, <1>2, <1>3, <1>4, <1>5, <1>6

\* The writer gives up its read lock.
LEMMA ReleaseKeeps ==
    ASSUME Inv, NEW t \in Threads, Release(t)
    PROVE  Inv'
<1>. USE ActorAssumption DEF Inv, Release, Goes, lock, notices, other, Actors, PCs
<1>1. LoopTypeOK'
    BY DEF LoopTypeOK
<1>2. OwnerOnlyReads'
    BY DEF LoopTypeOK, OwnerOnlyReads
<1>3. LockMatchesThreads'
    BY DEF LoopTypeOK, OwnerOnlyReads, LockMatchesThreads, MutexMatches, WriterMatches, Reading, Marked
<1>4. MutexMatches'
    BY DEF LoopTypeOK, MutexMatches
<1>5. WriterMatches'
    BY DEF LoopTypeOK, LockMatchesThreads, OwnerOnlyReads, WriterMatches, Reading, Marked
<1>6. YieldMatches'
    BY DEF LoopTypeOK, OwnerOnlyReads, LockMatchesThreads, YieldMatches, Reading, Marked
<1>. QED BY <1>1, <1>2, <1>3, <1>4, <1>5, <1>6

\* The writer takes the write lock.
LEMMA TakeWriteKeeps ==
    ASSUME Inv, NEW t \in Threads, TakeWrite(t)
    PROVE  Inv'
<1>. USE ActorAssumption DEF Inv, TakeWrite, Goes, lock, notices, other, Actors, PCs
<1>1. LoopTypeOK'
    BY DEF LoopTypeOK
<1>2. OwnerOnlyReads'
    BY DEF LoopTypeOK, OwnerOnlyReads
<1>3. LockMatchesThreads'
    BY DEF LoopTypeOK, OwnerOnlyReads, LockMatchesThreads, MutexMatches, WriterMatches, Reading, Marked
<1>4. MutexMatches'
    BY DEF LoopTypeOK, MutexMatches
<1>5. WriterMatches'
    BY DEF LoopTypeOK, LockMatchesThreads, OwnerOnlyReads, WriterMatches, Reading, Marked
<1>6. YieldMatches'
    BY DEF LoopTypeOK, OwnerOnlyReads, LockMatchesThreads, YieldMatches, Reading, Marked
<1>. QED BY <1>1, <1>2, <1>3, <1>4, <1>5, <1>6

\* The writer is the one that asked for the yield it takes back.
LEMMA MutateKeeps ==
    ASSUME Inv, NEW t \in Threads, Mutate(t)
    PROVE  Inv'
<1>. USE ActorAssumption DEF Inv, Mutate, Goes, lock, notices, other, Actors, PCs
<1>1. LoopTypeOK'
    BY DEF LoopTypeOK
<1>2. OwnerOnlyReads'
    BY DEF LoopTypeOK, OwnerOnlyReads
<1>3. LockMatchesThreads'
    BY DEF LoopTypeOK, OwnerOnlyReads, LockMatchesThreads, MutexMatches, WriterMatches, Reading, Marked
<1>4. MutexMatches'
    BY DEF LoopTypeOK, MutexMatches
<1>5. WriterMatches'
    BY DEF LoopTypeOK, LockMatchesThreads, OwnerOnlyReads, WriterMatches, Reading, Marked
<1>6. YieldMatches'
    BY DEF LoopTypeOK, OwnerOnlyReads, LockMatchesThreads, YieldMatches, Reading, Marked
<1>. QED BY <1>1, <1>2, <1>3, <1>4, <1>5, <1>6

\* The writer takes its read lock again after mut_func.
LEMMA RelockAfterKeeps ==
    ASSUME Inv, NEW t \in Threads, RelockAfter(t)
    PROVE  Inv'
<1>. USE ActorAssumption DEF Inv, RelockAfter, Goes, CanRead, lock, notices, other, Actors, PCs
<1>1. LoopTypeOK'
    BY DEF LoopTypeOK
<1>2. OwnerOnlyReads'
    BY DEF LoopTypeOK, OwnerOnlyReads
<1>3. LockMatchesThreads'
    BY DEF LoopTypeOK, OwnerOnlyReads, LockMatchesThreads, MutexMatches, WriterMatches, Reading, Marked
<1>4. MutexMatches'
    BY DEF LoopTypeOK, MutexMatches
<1>5. WriterMatches'
    BY DEF LoopTypeOK, LockMatchesThreads, OwnerOnlyReads, WriterMatches, Reading, Marked
<1>6. YieldMatches'
    BY DEF LoopTypeOK, OwnerOnlyReads, LockMatchesThreads, YieldMatches, Reading, Marked
<1>. QED BY <1>1, <1>2, <1>3, <1>4, <1>5, <1>6

\* The writer clears the mark, which was its own.
LEMMA ClearKeeps ==
    ASSUME Inv, NEW t \in Threads, Clear(t)
    PROVE  Inv'
<1>. USE ActorAssumption DEF Inv, Clear, Notified, lock, notices, other, Actors, PCs
<1>1. LoopTypeOK'
    BY DEF LoopTypeOK
<1>2. OwnerOnlyReads'
    BY DEF LoopTypeOK, OwnerOnlyReads
<1>3. LockMatchesThreads'
    BY DEF LoopTypeOK, OwnerOnlyReads, LockMatchesThreads, MutexMatches, WriterMatches, Reading, Marked
<1>4. MutexMatches'
    BY DEF LoopTypeOK, MutexMatches
<1>5. WriterMatches'
    BY DEF LoopTypeOK, LockMatchesThreads, OwnerOnlyReads, WriterMatches, Reading, Marked
<1>6. YieldMatches'
    BY DEF LoopTypeOK, OwnerOnlyReads, LockMatchesThreads, YieldMatches, Reading, Marked
<1>. QED BY <1>1, <1>2, <1>3, <1>4, <1>5, <1>6

\* The owner begins to drop the handle.
LEMMA BeginDropKeeps ==
    ASSUME Inv, BeginDrop
    PROVE  Inv'
<1>. USE ActorAssumption DEF Inv, BeginDrop, Goes, lock, notices, other, Actors, PCs
<1>1. LoopTypeOK'
    BY DEF LoopTypeOK
<1>2. OwnerOnlyReads'
    BY DEF LoopTypeOK, OwnerOnlyReads
<1>3. LockMatchesThreads'
    BY DEF LoopTypeOK, OwnerOnlyReads, LockMatchesThreads, MutexMatches, WriterMatches, Reading, Marked
<1>4. MutexMatches'
    BY DEF LoopTypeOK, MutexMatches
<1>5. WriterMatches'
    BY DEF LoopTypeOK, LockMatchesThreads, OwnerOnlyReads, WriterMatches, Reading, Marked
<1>6. YieldMatches'
    BY DEF LoopTypeOK, OwnerOnlyReads, LockMatchesThreads, YieldMatches, Reading, Marked
<1>. QED BY <1>1, <1>2, <1>3, <1>4, <1>5, <1>6

\* The owner triggers the exit notice.
LEMMA TellExitKeeps ==
    ASSUME Inv, TellExit
    PROVE  Inv'
<1>. USE ActorAssumption DEF Inv, TellExit, Goes, lock, notices, other, Actors, PCs
<1>1. LoopTypeOK'
    BY DEF LoopTypeOK
<1>2. OwnerOnlyReads'
    BY DEF LoopTypeOK, OwnerOnlyReads
<1>3. LockMatchesThreads'
    BY DEF LoopTypeOK, OwnerOnlyReads, LockMatchesThreads, MutexMatches, WriterMatches, Reading, Marked
<1>4. MutexMatches'
    BY DEF LoopTypeOK, MutexMatches
<1>5. WriterMatches'
    BY DEF LoopTypeOK, LockMatchesThreads, OwnerOnlyReads, WriterMatches, Reading, Marked
<1>6. YieldMatches'
    BY DEF LoopTypeOK, OwnerOnlyReads, LockMatchesThreads, YieldMatches, Reading, Marked
<1>. QED BY <1>1, <1>2, <1>3, <1>4, <1>5, <1>6

\* The owner leaves.
LEMMA EndDropKeeps ==
    ASSUME Inv, EndDrop
    PROVE  Inv'
<1>. USE ActorAssumption DEF Inv, EndDrop, Goes, lock, notices, other, Actors, PCs
<1>1. LoopTypeOK'
    BY DEF LoopTypeOK
<1>2. OwnerOnlyReads'
    BY DEF LoopTypeOK, OwnerOnlyReads
<1>3. LockMatchesThreads'
    BY DEF LoopTypeOK, OwnerOnlyReads, LockMatchesThreads, MutexMatches, WriterMatches, Reading, Marked
<1>4. MutexMatches'
    BY DEF LoopTypeOK, MutexMatches
<1>5. WriterMatches'
    BY DEF LoopTypeOK, LockMatchesThreads, OwnerOnlyReads, WriterMatches, Reading, Marked
<1>6. YieldMatches'
    BY DEF LoopTypeOK, OwnerOnlyReads, LockMatchesThreads, YieldMatches, Reading, Marked
<1>. QED BY <1>1, <1>2, <1>3, <1>4, <1>5, <1>6

\* Every step keeps the invariant.
LEMMA Inductive == Inv /\ [LoopNext]_loopVars => Inv'
<1>. SUFFICES ASSUME Inv, [LoopNext]_loopVars PROVE Inv'
    OBVIOUS
<1>1. CASE \E t \in Actors : Enter(t)
    BY <1>1, EnterLockKeeps, EnterParkKeeps, EnterReadKeeps DEF Enter
<1>2. CASE \E t \in Threads : Loop(t)
    BY <1>2, BeginHandlerKeeps, EndHandlerKeeps, HandlerExitsKeeps,
       TakeYieldKeeps, TakeExitKeeps, TakeRequestKeeps DEF Loop
<1>3. CASE \E t \in Threads : TryWriteable(t)
    BY <1>3, ClaimLockKeeps, ClaimParkKeeps, ClaimKeeps, RelockKeeps, PrepKeeps,
       ReleaseKeeps, TakeWriteKeeps, MutateKeeps, RelockAfterKeeps, ClearKeeps
       DEF TryWriteable
<1>4. CASE BeginDrop \/ TellExit \/ EndDrop
    BY <1>4, BeginDropKeeps, TellExitKeeps, EndDropKeeps
<1>5. CASE UNCHANGED loopVars
    BY <1>5 DEF loopVars, Inv, LoopTypeOK, OwnerOnlyReads, LockMatchesThreads,
       MutexMatches, WriterMatches, YieldMatches, Reading, Marked, Actors, PCs
<1>. QED BY <1>1, <1>2, <1>3, <1>4, <1>5 DEF LoopNext, Terminated

LEMMA LoopInvariance == LoopSpec => []Inv
BY Initial, Inductive, PTL DEF LoopSpec

\* The variables of the threads and of the lock keep their types.
THEOREM LoopTypeCorrect == LoopSpec => []LoopTypeOK
<1>1. Inv => LoopTypeOK
    BY DEF Inv
<1>. QED BY <1>1, LoopInvariance, PTL

\* A read lock is held only in an event loop, and wants_write stands for exactly
\* one writer (Lock::read, try_writeable).
THEOREM LockIsFaithful == LoopSpec => []LockMatchesThreads
<1>1. Inv => LockMatchesThreads
    BY DEF Inv
<1>. QED BY <1>1, LoopInvariance, PTL

\* mut_func runs while no other thread is in an event loop (try_writeable).
THEOREM Exclusion == LoopSpec => []WriterAlone
<1>1. Inv => WriterAlone
    BY ActorAssumption DEF Inv, LoopTypeOK, OwnerOnlyReads, LockMatchesThreads, WriterMatches,
       WriterAlone, Reading, Actors
<1>. QED BY <1>1, LoopInvariance, PTL

\* A writer that waits for the write lock has the others' attention: cancel_yield
\* of one writer never takes back the yield another one asked for.
THEOREM YieldHeld == LoopSpec => []YieldIsAsked
<1>1. Inv => YieldIsAsked
    BY DEF Inv, YieldMatches, YieldIsAsked
<1>. QED BY <1>1, LoopInvariance, PTL

\* A yield notice ends with the change it was for (trigger_yield, cancel_yield).
THEOREM YieldEnds == LoopSpec => []NoStaleYield
<1>1. Inv => NoStaleYield
    BY DEF Inv, YieldMatches, LockMatchesThreads, NoStaleYield, Marked
<1>. QED BY <1>1, LoopInvariance, PTL

\* Lock::read takes the inner lock with the mutex held, and never waits there.
THEOREM MutexBrief == LoopSpec => []MutexIsBrief
<1>1. Inv => MutexIsBrief
    BY ActorAssumption DEF Inv, LoopTypeOK, OwnerOnlyReads, LockMatchesThreads, WriterMatches,
       MutexIsBrief, CanRead, Marked, Actors
<1>. QED BY <1>1, LoopInvariance, PTL
==============================================================================
