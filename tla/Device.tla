------------------------------- MODULE Device --------------------------------
(***************************************************************************)
(* The device of the data plane in UDP mode: its three tables of peers, the *)
(* configuration protocol that writes them line by line (device/api.rs),    *)
(* its sockets and those connected to a peer, and the queue of events that  *)
(* the sockets' handlers are registered with (device/mod.rs, peer.rs,       *)
(* epoll.rs).                                                               *)
(*                                                                          *)
(* A request holds the write lock, so no handler runs between two of its    *)
(* lines (module EventLoop).  udp4 and udp6, which are opened, registered   *)
(* and dropped together, are one socket.  A network is the set of its       *)
(* addresses.  A peer is named by its index.                                *)
(***************************************************************************)
EXTENDS Naturals, FiniteSets, FiniteSetsExt

CONSTANTS
    Keys,           \* public keys of peers
    Secrets,        \* private keys of the device
    Ports,          \* listen_port
    Addrs,          \* addresses of peers
    Networks,       \* what allowed_ip may name
    Offers,         \* the sets of networks that sections name
    MaxIndex,       \* bound: peers ever added
    MaxFd           \* bound: descriptors

ASSUME DeviceAssumption ==
    /\ MaxIndex \in Nat /\ MaxFd \in Nat \ {0, 1}
    /\ Offers \subseteq SUBSET Networks
    /\ \A n \in Networks : IsFiniteSet(n)
    /\ \A n, m \in Networks : n \subseteq m \/ m \subseteq n \/ n \cap m = {}

Index == 1..MaxIndex
Fd == 1..MaxFd
Socket == 1..MaxFd
Destinations == UNION Networks

CONSTANT Nothing
ASSUME NothingAssumption == Nothing \notin Keys \cup Secrets \cup Ports \cup Addrs

VARIABLES
    device,     \* the fields of Device
    peer,       \* Index -> the fields of Peer
    kernel,     \* the descriptors and what they are open for
    events,     \* Fd -> the handler in EventPoll.events
    request     \* the configuration request in progress, and its section

vars == <<device, peer, kernel, events, request>>

NoFd == 0
NoIndex == 0
Closed == [to |-> Nothing, port |-> Nothing, shut |-> FALSE]
ShutDown == [Closed EXCEPT !.shut = TRUE]
Listening == Closed
UdpHandler == [kind |-> "udp", peer |-> NoIndex]
ConnHandler(i) == [kind |-> "conn", peer |-> i]
NoHandler == [kind |-> "none", peer |-> NoIndex]
NoPeer == [key |-> Nothing, secret |-> Nothing, allowed |-> {}, addr |-> Nothing,
           conn |-> NoFd]
NoRequest == [section |-> "idle", key |-> Nothing, remove |-> FALSE, endpoint |-> Nothing,
              allowed |-> {}]

Configured == {device.peers[k] : k \in Keys} \ {NoIndex}

Busy == request.section # "idle"

-----------------------------------------------------------------------------
(* Descriptors and sockets: k is a kernel.  Of a connected socket that is   *)
(* open it says where it leads and from which port.                         *)

FreeFd(k) == Min({f \in Fd : k.fds[f] = 0})
HasFds(k, n) == Cardinality({f \in Fd : k.fds[f] = 0}) >= n
FreeSocket(k) == Min({s \in Socket : \A f \in Fd : k.fds[f] # s})
SocketAt(k, f) == k.sockets[k.fds[f]]

\* A socket is gone with its last descriptor.
Close(k, fs) ==
    LET fds == [f \in Fd |-> IF f \in fs THEN 0 ELSE k.fds[f]] IN
    [fds |-> fds,
     sockets |-> [s \in Socket |->
        IF \E f \in Fd : fds[f] = s THEN k.sockets[s] ELSE Closed]]

\* shutdown of the sockets at fs, and their descriptors dropped.
Shut(k, fs) ==
    Close([k EXCEPT !.sockets = [s \in Socket |->
              IF \E f \in fs : k.fds[f] = s THEN ShutDown ELSE @[s]]], fs)

\* Socket::new: the descriptor is FreeFd(k).
Opened(k, socket) ==
    LET s == FreeSocket(k) IN
    [k EXCEPT !.fds[FreeFd(k)] = s, !.sockets[s] = socket]

Connected(to, port) == [to |-> to, port |-> port, shut |-> FALSE]

\* try_clone.
Cloned(k, f) == [k EXCEPT !.fds[FreeFd(k)] = k.fds[f]]

\* new_event at f; EventPoll::insert_at puts it in the place of any other.
Registered(e, f, h) == [e EXCEPT ![f] = h]

\* Mutant: the event stays in the vector.
EventKept(e, f) == e

\* clear_event_by_fd.
EventCleared(e, f) == [e EXCEPT ![f] = NoHandler]

-----------------------------------------------------------------------------
(* Peers.                                                                  *)

ConnFds(P) == {peer[i].conn : i \in P} \ {NoFd}

\* Peer::shutdown_endpoint of the peers P: what is left of peer.
Disconnected(P) ==
    [i \in Index |-> IF i \in P THEN [peer[i] EXCEPT !.conn = NoFd] ELSE peer[i]]

\* Mutant: the peer's socket stays open.
RemovePeerOnly(k) ==
    LET i == device.peers[k] IN
    /\ i # NoIndex
    /\ kernel' = kernel
    /\ peer' = [peer EXCEPT ![i] = NoPeer]
    /\ device' = [device EXCEPT !.peers[k] = NoIndex, !.peers_by_idx = @ \ {i},
                                !.peers_by_ip = [n \in Networks |-> IF @[n] = i THEN NoIndex ELSE @[n]]]

\* Device::remove_peer.  What a handler still holds of the peer sends nothing.
RemovePeer(k) ==
    LET i == device.peers[k] IN
    /\ i # NoIndex
    /\ kernel' = Shut(kernel, ConnFds({i}))
    /\ peer' = [peer EXCEPT ![i] = NoPeer]
    /\ device' = [device EXCEPT !.peers[k] = NoIndex, !.peers_by_idx = @ \ {i},
                                !.peers_by_ip = [n \in Networks |-> IF @[n] = i THEN NoIndex ELSE @[n]]]

\* update_peer for a peer that is not there: with the device's key it enters the
\* three tables; its networks come from whoever had them.
AddPeer(r) ==
    LET i == device.next_index IN
    /\ device.peers[r.key] = NoIndex
    /\ i <= MaxIndex
    /\ IF device.key_pair = Nothing
       THEN /\ device' = [device EXCEPT !.next_index = i + 1]
            /\ UNCHANGED peer
       ELSE /\ device' = [device EXCEPT
                    !.next_index = i + 1, !.peers[r.key] = i, !.peers_by_idx = @ \cup {i},
                    !.peers_by_ip = [n \in Networks |-> IF n \in r.allowed THEN i ELSE @[n]]]
            /\ peer' = [peer EXCEPT ![i] =
                    [key |-> r.key, secret |-> device.key_pair, allowed |-> r.allowed,
                     addr |-> r.endpoint, conn |-> NoFd]]
    /\ UNCHANGED kernel

\* Device::update_peer.  A peer that is there is not changed.
UpdatePeer(r) ==
    \/ r.remove /\ RemovePeer(r.key)
    \/ ~r.remove /\ AddPeer(r)
    \/ /\ r.remove <=> device.peers[r.key] = NoIndex
       /\ UNCHANGED <<device, peer, kernel>>

-----------------------------------------------------------------------------
(* The lines of a request: first those of the device, each of which takes  *)
(* effect when it is read, then sections of peers, at their end.           *)

DeviceSection == request.section = "device"

\* "set=1", when the write lock is there.
BeginRequest ==
    /\ ~Busy
    /\ request' = [NoRequest EXCEPT !.section = "device"]
    /\ UNCHANGED <<device, peer, kernel, events>>

\* Mutant: the tunnels keep the key they were made with.
SetKeyOfDevice(s) ==
    /\ device' = [device EXCEPT !.key_pair = s]
    /\ peer' = [i \in Index |-> peer[i]]

\* Device::set_key.
SetKey(s) ==
    /\ device' = [device EXCEPT !.key_pair = s]
    /\ peer' = [i \in Index |-> IF i \in Configured THEN [peer[i] EXCEPT !.secret = s]
                                ELSE peer[i]]

PrivateKey(s) ==
    /\ DeviceSection
    /\ s # device.key_pair
    /\ SetKey(s)
    /\ UNCHANGED <<kernel, events, request>>

Own == {device.udp} \ {NoFd}

\* The start of open_listen_socket: the old socket is dropped, with the event at
\* its own descriptor, and the peers are disconnected.
Emptied == Shut(Close(kernel, Own), ConnFds(Configured))
EventsEmptied == IF Own = {} THEN events ELSE EventCleared(events, device.udp)

\* The handler gets a clone of the socket and is registered under the clone's
\* descriptor.
OpenListenSocket(port) ==
    LET f == FreeFd(Emptied)
        k == Opened(Emptied, Listening)
    IN  /\ HasFds(Emptied, 2)
        /\ kernel' = Cloned(k, f)
        /\ events' = Registered(EventsEmptied, FreeFd(k), UdpHandler)
        /\ device' = [device EXCEPT !.udp = f, !.listen_port = port]
        /\ peer' = Disconnected(Configured)

\* listen_port=0, which is Nothing here, asks for any port.
Assigned(port) == IF port = Nothing THEN Ports ELSE {port}

ListenPort(port) ==
    /\ DeviceSection
    /\ \E p \in Assigned(port) : OpenListenSocket(p)
    /\ UNCHANGED request

\* A bind fails: EADDRINUSE.
ListenPortFails ==
    /\ DeviceSection
    /\ kernel' = Emptied /\ events' = EventsEmptied
    /\ device' = [device EXCEPT !.udp = NoFd]
    /\ peer' = Disconnected(Configured)
    /\ request' = NoRequest

\* Only a connected socket keeps a peer that is in no table.
Kept == [i \in Index |-> IF peer[i].conn = NoFd THEN NoPeer ELSE peer[i]]

\* Mutant: the routes stay.
ClearPeersOnly ==
    /\ device' = [device EXCEPT !.peers = [k \in Keys |-> NoIndex], !.peers_by_idx = {}]
    /\ peer' = Kept

\* Device::clear_peers; nothing is shut down.
ClearPeers ==
    /\ device' = [device EXCEPT !.peers = [k \in Keys |-> NoIndex], !.peers_by_idx = {},
                                !.peers_by_ip = [n \in Networks |-> NoIndex]]
    /\ peer' = Kept

ReplacePeers ==
    /\ DeviceSection
    /\ ClearPeers
    /\ UNCHANGED <<kernel, events, request>>

\* Of the variables of api_set_peer only allowed_ips is cleared after a section.
Carried(r) == [r EXCEPT !.section = "peer", !.key = Nothing, !.allowed = {}]

\* A section from its public_key to the line that commits it.  What it does not
\* say is as the section before left it.
PeerSection(k, remove, endpoint, networks) ==
    LET r == [request EXCEPT !.key = k, !.remove = remove, !.endpoint = endpoint,
                             !.allowed = @ \cup networks]
    IN  /\ Busy
        /\ UpdatePeer(r)
        /\ request' = Carried(r)
        /\ UNCHANGED events

\* The empty line, or a line that is rejected; its section is not committed.
EndRequest ==
    /\ Busy
    /\ request' = NoRequest
    /\ UNCHANGED <<device, peer, kernel, events>>

-----------------------------------------------------------------------------
(* The handlers of sockets and of the timer.                               *)

\* Whom the UDP handler may find: by the key in an initiation, by the receiver's
\* index in any other message.
Found == Configured \cup device.peers_by_idx

\* Mutant: the old socket is kept.
SetEndpointOnly(i, a) == [kernel |-> kernel, conn |-> peer[i].conn]

\* Peer::set_endpoint.
SetEndpoint(i, a) ==
    IF peer[i].addr = a THEN [kernel |-> kernel, conn |-> peer[i].conn]
    ELSE [kernel |-> Shut(kernel, ConnFds({i})), conn |-> NoFd]

\* Mutant: a socket that is there is replaced.
ConnectEndpointAnew(i, k, conn) == conn \in Fd \cup {NoFd} /\ HasFds(k, 2)

\* Peer::connect_endpoint does not answer that there is a connection.
ConnectEndpoint(i, k, conn) == conn = NoFd /\ HasFds(k, 2)

\* The UDP handler at f has a message from a that tunnel i takes.
UdpReceive(f, a, i) ==
    LET s == SetEndpoint(i, a)
        own == FreeFd(s.kernel)
        k == Opened(s.kernel, Connected(a, device.listen_port))
    IN
    /\ ~Busy
    /\ events[f] = UdpHandler
    /\ device.key_pair # Nothing
    /\ i \in Found
    /\ \/ /\ kernel' = s.kernel
          /\ peer' = [peer EXCEPT ![i].addr = a, ![i].conn = s.conn]
          /\ UNCHANGED events
       \/ /\ ConnectEndpoint(i, s.kernel, s.conn)
          /\ kernel' = Cloned(k, own)
          /\ peer' = [peer EXCEPT ![i].addr = a, ![i].conn = FreeFd(k)]
          /\ events' = Registered(events, own, ConnHandler(i))
    /\ UNCHANGED <<device, request>>

\* EPOLLHUP after a shutdown: EventGuard::cancel drops the handler and its socket.
Eof(f) ==
    /\ ~Busy
    /\ events[f] # NoHandler
    /\ SocketAt(kernel, f).shut
    /\ events' = EventCleared(events, f)
    /\ kernel' = Close(kernel, {f})
    /\ UNCHANGED <<device, peer, request>>

\* The timer handler: update_timers says ConnectionExpired.
Expire(i) ==
    /\ ~Busy
    /\ device.udp # NoFd
    /\ i \in Configured
    /\ peer[i].addr # Nothing
    /\ kernel' = Shut(kernel, ConnFds({i}))
    /\ peer' = Disconnected({i})
    /\ UNCHANGED <<device, events, request>>

-----------------------------------------------------------------------------
\* Device::new and open_listen_socket(0): a random port.
Init ==
    /\ \E port \in Assigned(Nothing) :
        /\ device = [key_pair |-> Nothing, listen_port |-> port, udp |-> 1,
                     peers |-> [k \in Keys |-> NoIndex], peers_by_idx |-> {},
                     peers_by_ip |-> [n \in Networks |-> NoIndex], next_index |-> 1]
        /\ kernel = [fds |-> [f \in Fd |-> IF f \in {1, 2} THEN 1 ELSE 0],
                     sockets |-> [s \in Socket |-> Listening]]
    /\ peer = [i \in Index |-> NoPeer]
    /\ events = [f \in Fd |-> IF f = 2 THEN UdpHandler ELSE NoHandler]
    /\ request = NoRequest

Line ==
    \/ \E s \in Secrets : PrivateKey(s)
    \/ \E p \in Ports \cup {Nothing} : ListenPort(p)
    \/ ListenPortFails
    \/ ReplacePeers
    \/ \E k \in Keys, remove \in BOOLEAN, endpoint \in Addrs \cup {request.endpoint},
         networks \in Offers : PeerSection(k, remove, endpoint, networks)
    \/ EndRequest

Handler ==
    \/ \E f \in Fd, a \in Addrs, i \in Index : UdpReceive(f, a, i)
    \/ \E f \in Fd : Eof(f)
    \/ \E i \in Index : Expire(i)

Next == BeginRequest \/ Line \/ Handler

Spec == Init /\ [][Next]_vars

-----------------------------------------------------------------------------
(* Properties.                                                             *)

\* AllowedIps::find: the smallest network that holds the address.
Find(d) ==
    LET holding == {n \in Networks : d \in n /\ device.peers_by_ip[n] # NoIndex} IN
    IF holding = {} THEN NoIndex
    ELSE device.peers_by_ip[CHOOSE n \in holding : \A m \in holding : n \subseteq m]

\* Peer::is_allowed_ip.
IsAllowedIp(i, d) == \E n \in peer[i].allowed : d \in n

\* The three tables hold the same peers.
TablesAgree ==
    /\ Configured = device.peers_by_idx
    /\ \A k \in Keys : device.peers[k] # NoIndex => peer[device.peers[k]].key = k
    /\ \A n \in Networks : device.peers_by_ip[n] \in Configured \cup {NoIndex}

\* The three tables hold the same peers, and a packet is sent to a peer from which
\* packets of that address are taken.
CryptokeyRouting ==
    /\ TablesAgree
    /\ \A d \in Destinations :
         Find(d) # NoIndex => Find(d) \in Configured /\ IsAllowedIp(Find(d), d)

\* All tunnels speak with the device's key, in whatever order key and peers came.
TunnelsUseDeviceKey == \A i \in Configured : peer[i].secret = device.key_pair

\* A peer's own socket leads to its present endpoint, from the device's present
\* port.
ConnFits ==
    \A i \in Configured : peer[i].conn # NoFd =>
        SocketAt(kernel, peer[i].conn) =
            Connected(peer[i].addr, device.listen_port)

\* What is sent on a peer's own socket is answered there: a handler reads it for
\* that peer.  No other socket is read for the peer any more.
ConnIsHeard ==
    \A i \in Configured :
        LET heard == {f \in Fd : events[f] = ConnHandler(i) /\ ~SocketAt(kernel, f).shut} IN
        IF peer[i].conn = NoFd THEN heard = {}
        ELSE /\ Cardinality(heard) = 1
             /\ \A f \in heard : kernel.fds[f] = kernel.fds[peer[i].conn]

\* A peer that was removed is heard no more.  (One that replace_peers took is.)
RemovedAreSilent ==
    \A f \in Fd : events[f].kind = "conn" /\ peer[events[f].peer] = NoPeer =>
        SocketAt(kernel, f).shut

\* A peer talks on its own socket, and nothing else is read for it.
ConnSockets == ConnFits /\ ConnIsHeard /\ RemovedAreSilent

\* A descriptor belongs to one owner, and a handler's descriptor is open: no event
\* is left at a number that the system has given to another socket.
DescriptorsOwned ==
    \A f \in Fd :
        /\ events[f] # NoHandler =>
               /\ kernel.fds[f] # 0
               /\ SocketAt(kernel, f) = Listening <=> events[f] = UdpHandler
        /\ kernel.fds[f] # 0 =>
               Cardinality({o \in {"handler", "device"} :
                               \/ o = "handler" /\ events[f] # NoHandler
                               \/ o = "device" /\ device.udp = f}
                           \cup {i \in Index : peer[i].conn = f}) = 1
==============================================================================
