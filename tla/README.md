# NekoLink in TLA+

A verification development for NekoLink, a WireGuard implementation in Rust (a
BoringTun descendant, `nekolink-core`) with a TCP transport and a control plane
(`nekolink-ctl`). Everything here is translated from the code under `src/`; a
line such as `timers.rs:239` names the code a definition or a remark is about.
`PROJECT.json` maps every definition to its lines.

## 1. The system

| part | code | state it keeps | operations | works with |
|---|---|---|---|---|
| session | `noise/session.rs` | keys, `sending_key_counter`, the receive window (`next`, `bitmap`, `receive_cnt`) | `format_packet_data`, `receive_packet_data` | called by the tunnel; its receive window is behind a mutex |
| tunnel | `noise/mod.rs`, `noise/handshake.rs` | handshake state and the previous one, 8 sessions in a ring, `current`, `packet_queue` (256) | `encapsulate`, `decapsulate`, `update_timers` | one per peer, behind the peer's mutex; sends through the device |
| timers | `noise/timers.rs` | 11 time stamps, the age of each session, `want_*` flags, `is_initiator` | `timer_tick`, `update_timers`, `clear_all` | part of the tunnel; called every 250 ms by the device |
| rate limiter | `noise/rate_limiter.rs` | packet count of the last second, cookie secret | `verify_packet`, `reset_count` | shared by all tunnels of a device; called before a handshake message is parsed |
| event loop and lock | `device/mod.rs` 241-311, `device/dev_lock.rs`, `device/epoll.rs` | `wants_write`, the read/write lock, the yield and exit notices, the events | `read`, `try_writeable`, `wait`, `trigger_*` | every thread of a device runs `event_loop` under a read lock |
| device | `device/mod.rs`, `device/peer.rs`, `device/allowed_ips.rs`, `device/api.rs` | peers by key, by index and by address; sockets; the handlers | the configuration protocol (`set=1`, `get=1`), the packet handlers | called by `wg`, `nekolink-ctl` and `nekolink-cli` over a unix socket |
| TCP transport | `device/mod.rs` 1344-1575, `device/tcp_framing.rs` | `tcp_connections`, a frame buffer per stream, `endpoint.conn` per peer | accept, connect, read stream, write frame | another way for the device's handlers to send and receive |
| instances | `nekolink-ctl/src/main.rs` | `active_instances` with their cancel tokens and tasks, `CONFIG_MUTEX`, `PEER_CACHE` | `run_instance`, the reload on SIGHUP, `cleanup_interface_state` | one task per configured interface; each runs `nekolink-cli`, the device above, as a child and configures it over its unix socket |
| signaling | `nekolink-ctl/src/main.rs` | `PEER_CACHE`, the MTU of the interface | exchange of keys, ports and MTUs with the other host, `configure_peer` | tasks of their own; configures the device of an instance |
| probes, caches, SOCKS5, loopback, bindings, tun devices, privileges | the remaining files | per call | I/O | not modelled, see section 8 |

What is hard here:

* *messages*: handshakes run in both directions at once, over a network that
  loses, reorders and repeats; the answer to an old initiation arrives after a
  new one was sent; a session is current at one end before the other end has it;
* *interleavings*: a thread that changes the device must first get every
  other thread out of its loop, without blocking for ever on one that waits for
  it, and without leaving a stale notice behind; a reload, the tasks it cancels and
  the signaling handlers meet in one process, one lock and one cache;
* *limits*: the window of 1024 packets moved by any distance, a ring of 8 slots
  under 256 indices, a full packet queue, a give-up after 90 s;
* *time*: deadlines are compared with a clock that only the timer's handler advances;
  a limiter's count and cookies change by the second while retries come by theirs;
* *stale knowledge*: the control plane remembers what it has configured, in a
  process that may have ended since; descriptors are reused while events carry
  their numbers; lines of a configuration request are refused half-way;
* *liveness*: queued packets leave, configuration requests are carried out, all
  threads of a device leave when one does, the interfaces of the last reload work
  in the end, two hosts know each other in the end.

What makes each part correct, in a sentence: a **session** hands each packet of
the peer upwards at most once and refuses only those it must; a **tunnel** makes
sessions in matching pairs, chooses as its current session only one whose key the
peer has (what it sends under may be another, section 4), keeps each packet
in exactly one place and never lets one wait without a handshake; the **lock**
gives a writer exclusive access, ends, and tells no thread to yield for nothing;
the **timers** end, renew and repeat everything within its time; the **rate limiter**
bounds what strangers can ask for and keeps no honest peer out; a **device** sends a
packet to a peer from which that address is accepted, and reads no socket for a
peer that was removed by name; the **TCP transport** delivers frames as they were
written and answers on the stream of the question; an
**instance** is the only one of its interface and comes up in the end; **signaling** has
in its cache what the device has, but for the cases of section 4, and lets a session
live that needs no change.

The complete list of hazards, each at its line and with the properties that watch
it, is in `PROJECT.json`.

## 2. Modules and how they correspond to the code

| module | models | extends |
|---|---|---|
| `AtMostOnce` | what one direction of a session promises | |
| `Session` | one direction of a session: packet numbers and the replay window | |
| `TunnState` | the state of a tunnel, and its operations as functions of it | |
| `Tunn` | two tunnels on a datagram network, with the outcomes of `update_timers` | `TunnState` |
| `Timers` | when each outcome of `update_timers` is due, for one tunnel | |
| `RateLimiter` | a handshake of two devices under load, with cookies | |
| `Device` | the tables, sockets and handlers of a device and the protocol that changes them | |
| `EventLoop` | the threads and the lock of one device | |
| `TcpTransport` | two devices that send their tunnels' messages over TCP | `TunnState` |
| `TcpStream` | the bytes of one direction of a TCP stream | |
| `Instances` | the tasks of one control plane, its reloads, its lock and its cache | |
| `Signaling` | the control planes of two hosts that tell each other what to configure | |
| `MC...` | an instance of the module of that name for TLC | the module |
| `TunnState_proofs` | lemmas about the operations of a `Tunn` | `TunnState` |
| `Session_proofs`, `Tunn_proofs`, `Timers_proofs`, `RateLimiter_proofs`, `Instances_proofs` | theorems | the module of that name |
| `Device_proofs` | theorems | `Device`, `EventLoop` |
| `Tcp_proofs` | theorems | `TcpTransport`, `TcpStream`, `TunnState_proofs` |

Definitions whose comment begins with "Mutant:" are not part of the model: each
is an operator as a plausible bug would make it, and `PROJECT.json` ("mutants")
names the property that finds it.

**Session** (`noise/session.rs`). `sending_key_counter`, `next`, `bitmap` and
`receive_cnt` are the fields of `Session` and `ReceivingKeyCounterValidator`;
`bitmap` is the set of the positions of its 1 bits. `receive_packet_data` locks the
validator twice, before and after the decryption. Its only caller, `decapsulate`, has
the `Tunn` for itself, behind the peer's mutex, so nothing comes between the two and it
is one action, `ReceivePacketData`, of a packet that passes both (`Accepts`). `Cleared` is what
the three clearing loops of `mark_did_receive` clear, word boundaries included.
Packets in flight are not stored: what was sealed may arrive at any time, any
number of times, and a forged packet may carry any number.

**TunnState** (`noise/mod.rs`, `noise/handshake.rs`, `noise/timers.rs`). A record
per `Tunn`. `Encapsulated`, `Responded`, `Established`, `SetCurrent`, `Flushed`,
`Aged`, `GivenUp` are the methods, each as the new state and the messages it sends.
`ThenFlush` is the loop of the socket handlers that calls `decapsulate` with an
empty datagram until there is nothing to send (`device/mod.rs` 1008-1037), so it is
part of receiving a message and not a step of its own. Cryptography is symbolic: an
ephemeral key is a number, a session key is the pair of both ephemerals, and
a message opens only with what it was sealed with.

**Tunn** puts two of them on a network. The device holds the peer's mutex during
each handler, so a handler is one action: `Encapsulate` (the tun handler),
`ReceiveInit`, `ReceiveResponse`, `ReceiveData` (the UDP handlers), and one action
per outcome of `update_timers` (`Idle`, `ConnectionExpired`, `RekeyTimeout`, `Rekey`,
`SendKeepalive`). What `decapsulate` refuses changes nothing and is `Lose`. Which
deadline has passed is left open except that the age of a session is counted:
any of the outcomes may come at any call, so what holds here holds for every choice
of time-outs. TAI64N time stamps are modelled by what they decide: accepting an
initiation makes all older ones `stale`.

**Timers** (`noise/timers.rs`, and what ticks them in `noise/mod.rs`). One tunnel, its clock
(`Instant::now()`) and `TimeCurrent`, which only `update_timers` advances: a stamp taken
between two calls is that of the first. `Encapsulate`, `ReceiveInit`, `ReceiveResponse`,
`ReceiveData`, `ReceiveCookie` are the traffic, in any order; the timer's handler is late by
at most `MaxLate` and is one of `ConnectionExpired`, `GiveUp`, `Retry`, `Renew`,
`SendKeepalive`, `Quiet`, in the order of the returns of `update_timers`, or passes the
peer over (no address, or expired). `past` is history for the properties.

**RateLimiter** (`noise/rate_limiter.rs`, the cookies of `noise/handshake.rs`). Of
each device the count, the last reset and the secret; of each end the cookie it has,
the `mac1` it was last asked for, and the cookie's age. `Load` is any other sender's
message. `ReceiveInit`, `ReceiveResponse`, `ReceiveCookie` go through
`verify_packet`; `Pass` is time, with the reset every `RESET_PERIOD` that the
device's timer calls.

**Device** (`device/mod.rs`, `device/api.rs`, `device/peer.rs`,
`device/allowed_ips.rs`, `device/epoll.rs`) in UDP mode. `BeginRequest`, one action
per line or section of `set=1` (`PrivateKey`, `ListenPort`, `ListenPortFails`,
`ReplacePeers`, `PeerSection`) and `EndRequest`: a line that is refused ends the
request there, with what went before it done. Between requests the handlers run:
`UdpReceive` (roaming, and the socket connected to a peer that follows a handshake),
`Eof`, `Expire`. The kernel's descriptors and sockets are modelled, because events
are kept by descriptor and a number that was closed is given out again.

**TcpTransport** (`device/mod.rs` 1258-1341, 1344-1575). A device is its `Tunn`, the
entries of `tcp_connections`, by address, and the registered stream handlers. `Send`
is `maybe_connect_tcp` and the write: on the connection listed for the address, or
on a new one (`ConnectAndWrite`), at once, although a nonblocking `connect` has not
finished, so that what is written then is lost; or on none, when there is no
descriptor left (`NoSocket`). `StreamRead` reads, handles and answers a frame; under
load `TurnAway` answers a handshake message by a cookie instead. `Accept` lists the
stream, unless its descriptor cannot be duplicated, and registers its handler in
both cases. The ways a stream ends differ in the code, and so here: `StreamEnds` (`read`
returned 0) and `StreamFails` (`read` returned an error) remove the entry of the address,
whatever it holds, and make the thread leave (`LeaveFor`), with the handler still
registered for the other threads; `StreamBreaks` (`EPOLLHUP`) cancels the handler and
leaves the entry. There are no timer actions: `register_timers` returns before it reaches the
peers when the device has no UDP socket (`device/mod.rs:653`), which is the case
in TCP mode.

**TcpStream** (`device/mod.rs` 1311-1320, 1348-1490, `device/tcp_framing.rs`) looks into one
direction of one stream, which `TcpTransport` takes as a sequence of whole
messages. A frame is written in two calls of `write` whose counts are ignored;
`WriteBytes` takes what the socket buffer has room for. The handler reads what fits
(`Read`), takes frames until none is complete or `MAX_ITR` is reached
(`HandleFrame`) and moves the rest to the front (`Compact`).

**EventLoop** (`device/mod.rs` 241-311, `device/dev_lock.rs`, `device/api.rs`). A
`pc` per thread: entering the lock, waiting for events, running a handler, and the
stages of `try_writeable`. The mutex around `wants_write`, the inner `parking_lot`
lock and the two notices are separate variables, because what can go wrong lies
between them. Other handlers than that of the configuration socket are
`BeginHandler` .. `EndHandler`: what they do to the device does not matter here;
that they hold a read lock meanwhile does. A device registers one configuration
socket, one-shot, so today one configuration handler runs at a time; the model runs
two, because `dev_lock.rs` documents the lock for any number of writers.

**Instances** (`nekolink-ctl/src/main.rs` 435-798, 914-946, 1833-1989). A task per
start of an interface, its stages those of `run_instance` (`Begin`, `TakeLock`,
`Key`, `SetUp`, `Exit`; it fails as `SpawnFails`, `KeyFails` when no cli is reached,
`KeyRefused` when one answers with an errno, and `SetUpFails`) and of the loop around
it (`Restart`, `Stop`). Its
`nekolink-cli` is a process of its own (`CliUp`, `CliDies`): the task drops it, but
reaches it only by the name of the interface, through the socket and the link that
the last cli of that name has. The reload is `Load`, then for each interface one of
`KeepOld`, `StartNew`, `CancelOld` with `AwaitOld`, then `RemoveOthers`, whose
clean-ups run as tasks that nobody awaits (`RunCleanup`). `configure_peer` is
`Call`, `Enter`, `RemovePeer`, `AddPeer` or `AddFails`, `Insert`, under
`CONFIG_MUTEX`; `Drop` is its cancellation wherever it waits.

**Signaling** (`nekolink-ctl/src/main.rs` 702-763, 1275-1794, 1881-1965). Two hosts,
each with the stage of its instance, its port, its MTU, the cache and the peer that
its cli has. A client sends every five seconds (`Send`); what arrives is answered
with what the receiver has (`ReceiveRequest`, `ReceiveAnswer`), each after
`configure_peer` and `sync_mtu_if_needed` (`Configured`, `Synced`). The three modes
differ in what answers what and in whether there is a port. Here `configure_peer` is
one step; that it is not, and what follows, is `Instances`.

## 3. Runs

| run | question | states |
|---|---|---|
| `session` | Under loss, reordering, repetition and forgery, is a packet handed up twice, one refused that is new and in reach, or a wrong bit left in the window? (`NoReplay`, `WindowExact`, `LossInRange`, `NoFalseReject`; and `DeliversAtMostOnce`: the session implements `AtMostOnce`) | 33 k |
| `tunn` | Do crossing, late and repeated handshakes pair the sessions up (`KeyPairing`), is the session in use one the peer has, but for an unconfirmed answer in its slot (`CurrentIsShared`), and derive no key twice (`KeysDerivedOnce`)? Is every packet in one place (`PacketsConserved`), does it wait only with a handshake under way (`QueueHasHandshake`), and is nothing left after giving up (`ExpiredIsClean`)? | 398 k |
| `tunn_drain` | Does a waiting packet go out on a lossy network (`QueueDrains`), when one end has packets to send? | 31 k |
| `timers` | Although stamps lag and the timer is late: does every session end in time (`SessionsEndInTime`), and not before but for a peer without address (`SessionsLastInTime`), is a handshake repeated and given up in time (`HandshakesInTime`), data answered (`AnswersInTime`), the path kept open until the tunnel expires (`KeepsPathOpen`), and a used session renewed by its initiator before it ends (`RenewsInTime`)? | 826 k |
| `rate_limit` | Is what is let in without proof bounded (`AdmittedBounded`), and does an honest initiator have its session within a number of retries that only losses and ends of cookie periods add to (`CompletesInTime`)? | 1284 k |
| `device` | After any sequence of lines, refused ones included, and any roaming: do the tables agree and route only to peers that accept the address (`CryptokeyRouting`), do all tunnels have the device's key (`TunnelsUseDeviceKey`), is each connected socket right and read for its peer alone (`ConnSockets`), and does no event stay at a number that was given to another socket (`DescriptorsOwned`)? | 199 k |
| `event_loop` | Do the lock and the yield notice follow the threads (`LockMatchesThreads`, `YieldIsAsked`, `NoStaleYield`)? Is every configuration request carried out (`WriteCompletes`), do all threads leave (`AllLeave`)? | 4 k |
| `tcp_transport` | With connections that fail, break, end or cannot be made, load at any time, and devices stopped and started: is every waiting packet's handshake under way, lost or turned away (`StuckByLossOrLoad`), does an answer go back on the stream it is to (`AnswersStay`)? | 368 k |
| `tcp_end` | (finds a violation, section 4) | |
| `tcp_stream` | However bytes are split: do frames come out as written (`FramesAsWritten`), does each packet arrive (`PacketsArrive`)? | 131 k |
| `instances` | Through reloads that change, remove and bring back an interface, with clis that end, fail to start or refuse their key: does one task work on it (`OneInstance`), does the cache become wrong by two steps of `configure_peer` only (`StaleOnlyByRace`), and do the interfaces of the last load work in the end (`Settles`)? | 402 k |
| `signaling` | In each mode, over a network that loses and reorders, with a process that ends: does each host have the other at its present port in the end (`Connects`), do sessions stay once nothing changes (`SessionsStay`), do the MTUs agree (`MtusAgree`)? | 139 k |

Every property of a passing run has a mutant in `PROJECT.json`: a plausible bug in one
definition, with which the same run fails.

## 4. Where the code and its comments part

`tcp_end` is a run that fails, and a finding in `PROJECT.json`: `device/mod.rs:1366`
says "Do NOT trigger exit" of a closed stream; the next line returns `Action::Exit`,
on which all threads of the device leave.

The other disagreements met while modelling have no run. Where a property would fail
because of one, the property says so (a history variable or a condition names it).

*Tunnel and timers*

* `timers.rs:239` has the original initiator renew an old session. `is_initiator` is that of
  the last handshake, not of the session in use (`:137`): after crossing handshakes both
  ends may use one session and neither take itself for its initiator; nobody renews it
  before it expires.
* `noise/mod.rs:264` queues packets "for future retry". Two ends that begin at once
  can answer each other's initiations for ever, even when nothing is lost (`:328`):
  each response arrives after the handshake it answers, or its slot, was
  overwritten. A difference in timing ends it sooner or later.
* `handshake.rs:301` allows "two outgoing handshakes in flight", but an initiation of the
  peer between two own ones makes the older of them forgotten.
* `timers.rs:206` erases keys when no new ones were exchanged for three
  `REJECT_AFTER_TIME`s. The stamp it counts from is also set by `clear`, at the
  start and when an expired tunnel begins again, so a tunnel expires then too that
  has no keys and tried for none.
* A responder is to use a session only when it has heard under it. It stores the
  session at once, though, in slot `index % N_SESSIONS` (`noise/mod.rs:332`), and
  `encapsulate` sends under whatever the slot of `current` has (`:252`): after
  `N_SESSIONS` handshakes without new data from the peer, packets go out under a
  key that the peer may never derive. `CurrentIsShared` excepts this case alone.
* `timers.rs` gives a session `REJECT_AFTER_TIME`. A peer configured without an endpoint
  is passed over by the timer's handler (`device/mod.rs:661`), so that its `TimeCurrent`
  stays 0: the session that its first handshake makes is stamped 0, and the
  first call of `update_timers` drops it when the peer is older than that; likewise a
  handshake, when it is older than `REKEY_ATTEMPT_TIME`. `SessionsLastInTime` names both.
* After `ConnectionExpired` `update_timers` returns (`timers.rs:224`) before it looks at
  the persistent keepalive, so a path that is to be kept open is not, until there
  is a packet to send. `KeepsPathOpen` is about tunnels that have not expired.
* `timers.rs:280`: a keepalive is due `KEEPALIVE_TIMEOUT` after the last packet
  *sent*, not after the data that is to be answered; `AnswersInTime` is about data
  that came after it.

*TCP*

* `timers.rs:231` has an initiation retried until it is answered. Over TCP the first one is
  written to a connection that is still being made and lost, and no timer repeats
  it: `register_timers` returns before it reaches the peers when there is no UDP socket
  (`device/mod.rs:653`). Nor does anything repeat one that was read under load, which
  is answered by a cookie and not handled (`:1408`), or one for which there was no
  descriptor (`:1571`). `StuckByLossOrLoad` says that nothing else keeps packets waiting.
* A stream that closes with `EPOLLHUP` loses its handler but not its entry
  (`device/mod.rs:302`): what is sent to that address afterwards is written to a dead
  socket. An answer to a peer whose entry is gone goes to a new connection, to
  the port the peer had connected from, where nobody listens: so it is
  for a stream accepted when its descriptor could not be duplicated (`:1514`), which
  is read without an entry. `AnswersStay` excepts the latter.
* `device/mod.rs:1319` calls `flush` to make sure that a packet goes out ("确保发出喵"). A full
  socket buffer takes part of a frame and the count is ignored: from then on the
  reader takes bytes of packets for lengths. Cookie replies are written under another
  mutex (`:1405`, against `:1513` and `:1518`) and can come between a length and its packet.
  `FramesAsWritten` holds as long as neither happened.

*Device*

* `device/mod.rs:465` is to close the sockets that are open and remove them from the
  event loop before a new `listen_port`. It closes and removes the descriptors the
  device keeps; the handlers have clones under other numbers (`:546`), which stay
  open and registered, so the old port is still listened on. `DescriptorsOwned`
  holds all the same.
* `replace_peers` drops the peers (`device/mod.rs:606`), while the handlers of the
  sockets connected to them stay registered, and read on, until the other end closes.
  `ConnSockets` is about the peers in the tables and those removed by name.
* In a configuration request `remove`, the endpoint, the keepalive and the preshared key
  of a peer's section carry over to the next one (`api.rs:366` clears its networks
  only). A peer that is added before the device has a key is dropped without an
  error (`device/mod.rs:371`).

*Control plane*

* `CHANGELOG.md:23` has a reload end an instance in order. One that is replaced is
  awaited (`main.rs:599`), one that is removed is not (`main.rs:659`): if a second
  reload brings it back at once, the old task's cli may take the socket of the new
  one, get its key and then be killed, which leaves the new one without a key.
  `Settles` excludes this by its premise, `OneInstance` by its exception.
* `PEER_CACHE` (`main.rs:1888`) says what was configured and not whether it worked.
  `StaleOnlyByRace` names the two steps of `configure_peer` that make it wrong about
  the cli of a task. One is the removal of a peer that is to move: until its entry the
  cache has the old endpoint, and for good if the call is dropped or its add fails
  between the two. The other is the entry of a peer that the call has not added to
  this cli: it was refused with `errno=0` for want of a key (`main.rs:1914`), or it went
  to the cli that was there before the clean-up of a new start.
* `CHANGELOG.md:49` has both ends converge to the smaller MTU. An MTU that was told,
  or set by the other host, before `run_instance` sets the interface's own is not
  agreed on again, because the peer is in the cache (`main.rs:1925`); a client in
  TCP mode follows the probe even when its file says otherwise. `MtusAgree` excludes
  both by its premise.
* `main.rs:2173` is to let signaling pause when the peers are established. It
  compares an age with seconds since 1970, so nobody ever counts as established and
  signaling never pauses; since each datagram is answered, an answer too, both hosts
  go on for ever. `SessionsStay` is why this does no harm: the cache keeps the
  sessions.
* A file that is reloaded unchanged keeps its task, and with it the old global settings;
  two files of one interface leave a task that nobody can cancel.

## 5. Bounds and why they are enough

* `session`: 3 words of 2 bits, numbers to 13. The window of 6 comes round twice, a jump
  can cover none, part or all of a word, a whole word between two partial ones, and
  the whole window.
* `tunn`: 4 ephemerals make two complete handshakes, or four initiations, crossing in
  every way; 3 slots under 9 indices, so that a slot is used again, but no index
  (which 256 handshakes would take: `KeysPaired` is proved for any number); two messages to each end
  at a time, each possibly repeated; a packet and keepalives for a queue of two.
  `REJECT_AFTER` 0 lets a session expire at any call of the timers.
* `tunn_drain`: 6 ephemerals; a retry needs one, so three rounds may fail. When they
  run out (`Fresh = {}`), the property asks for no more.
* `timers`: the constants are small numbers that keep what the module's assumptions
  ask of the code's (a retry within an attempt, renewal before the end of a
  session); `MaxClock` 14 is more than three lives of a session; three messages or
  packets, at any times, are enough to establish, use and overwrite a session; 2
  slots. The timer is late by one unit at most, which is coarser than the 250 ms of
  the code.
* `rate_limit`: a limit of one, so that one message of anybody is load; a cookie is
  kept for 7 of the 8 units of a period, as in the code for 120 of 128 s, and
  periods begin at any time; 6 units of time and one loss are more than the bound of
  the property allows for; one end initiates.
* `device`: 2 keys, private keys, ports, addresses, a network within another, 2
  peers ever added and 5 descriptors: the listening socket, a connected one with the
  clone that its handler has, and room for a new one while the old one is still
  there. They are symmetric.
* `event_loop`: two threads, the owner, two configuration events and two requests: two
  writers contend while a reader enters. The safety properties are proved for every
  number of them.
* `tcp_transport`: 3 connections, so that one can break and another replace it, both ends
  connect to each other, and a restarted device connects again; two stops; 4
  ephemerals, which are two handshakes; one packet of each end.
* `tcp_stream`: 3 values of a byte and a buffer of 8, the longest length two bytes can
  tell (as 65535 is in the code); packets of 1 and of 6 bytes, the longest that fits;
  a socket buffer of 9, so that it can be full in the middle of a frame; `MAX_ITR` 1, so
  that frames are left behind in the buffer.
* `instances`: one interface, since interfaces meet in the lock only (the safety
  properties are proved for every number, or do not relate two); 3 tasks and 2
  reloads: replaced twice, or removed and brought back; one fault, a cli that ends by
  itself, is not started or refuses its key; a caller and two endpoints, so that a peer
  moves.
* `signaling`: 2 ports, 2 messages at a time, one end of a process; files with an automatic
  and with a fixed MTU; probes that differ.

Every bound of a counter is a constant whose comment says "bound". The passing runs
with `CHECK_DEADLOCK FALSE` are those where the bounds let everything stop (all
packets sent, all connections used, the clock at its end); `Tunn` never stops,
because the timers run on, and in `EventLoop` the only state without another step is
the one where all threads have returned (`Terminated`).

## 6. Fairness

* `EventLoop.FairSpec`: threads are scheduled and handlers return (weak fairness of
  each step of a thread). Strong fairness is used where another thread may take the
  chance away again: for the mutex of `wants_write`, which `parking_lot` hands over
  fairly in the end, and for a notice, which is level-triggered and therefore returned
  by `wait` sooner or later even if other events keep coming. No fairness for
  arriving requests or events.
* `Tunn.LossySpec`: datagrams that are not lost arrive, and the timer handler runs every
  250 ms, so a handshake without answer is retried after `REKEY_TIMEOUT`. Losing messages
  is never required and never prevented.
* `TcpStream.FairSpec`: a thread between the two writes of a frame runs on, and a
  readable socket is reported.
* `Instances.FairSpec`: tasks and calls go on. Strong fairness for `TakeLock` and
  `Enter`, because tokio's `Mutex` is a queue and whoever waits gets it, and for
  `CliUp`: a cli that is started again and again is up in time some time. Reloads,
  ends of processes, calls and cancellations of calls have none.
* `Signaling.FairSpec`: a client sends every five seconds (weak), an instance comes
  up (weak), a message that says what is so now is received some time if it is sent
  again and again (strong), and an outdated one does not stay under way for ever
  (`Vanish`, weak). No fairness for ends of processes and for losses.
* In `Timers` and `RateLimiter` time is a variable, and "in the end" is a bound in time.

## 7. Theorems

TLAPS proves, for every value of the constants that meets the module's assumptions:

* **Session** (any word size, number of words): `TypeCorrect`,
  `ReplayFree`, `BitmapExact`, `RefusesOnlyReplays` (`NoFalseReject`),
  `LossEstimateInRange`, and `Refinement`: `Spec => DeliversAtMostOnce`. The inductive
  invariant `IInv` is the types, `NoReplay`, `WindowExact`, `HandedWasSealed`, and that
  `receive_cnt` counts the packets handed upwards (`CountsHanded`),
  of which there are no more than numbers below `next`. `NoReplay` alone is not inductive: that a marked number is new follows from
  the exactness of the bitmap, and that in turn from two facts about the clearing
  loops, `ClearedCovers` (every number of the gap is cleared) and `ClearedSpares` (no bit
  of a number still in the window is), which rest on arithmetic of quotients and
  remainders (`DivMod` to `WordBits`).
* **Tunn** (any ring, queue, packets and bounds): `TypeCorrect`, `ExpiredClean`,
  `QueueWaited`; `KeysPaired` (`KeyPairing`), `KeysOnce` (`KeysDerivedOnce`, an action
  property), `CurrentShared` (`CurrentIsShared`) and `PacketsKept`
  (`PacketsConserved`). For the first three the invariant
  is their conjunction: that a queue has a handshake is kept by giving up only
  because an expired tunnel has an empty queue. Each operation of `TunnState` has a
  lemma that it keeps a state "good", from which the actions follow.

  That keys pair up cannot be seen from the two rings alone: the other end of a
  session may be a message still under way, or gone. `PairInv` therefore speaks of
  *claims*: each handshake, session and message says of an ephemeral whose it is, for
  which index, and if it answers, what (`Begun`, `Replied`). All claims agree about an
  ephemeral (`Agree`), none is about one not yet drawn, and an ephemeral whose handshake
  is still open, or whose initiation can still be accepted, has not led to a key yet
  (`OpenEphs`, `LiveEphs` against `Spent`): so a late or repeated response finds its
  handshake gone, a repeated initiation is stale, and neither makes a second key. An operation either
  leaves the claims, forgets some, or adds those of a fresh ephemeral or of a
  message that was there (`Effect`).

  `SharedInv` adds to it that a session's key was derived here, and by an initiator's
  peer too, that the session of the current index, as long as its slot has it, has a key that the
  peer derived (`CurrentKnown`), that a message shows its sender derived its key, and that nothing has an
  index later than the number of ephemerals drawn allows (`Counted`). The last is why the theorem
  supposes `MaxEphemerals < N_INDICES`: a responder that answers 256 initiations without
  hearing under any of the keys gives the index of its current session out again, and would then
  take the new one for it. The run stays below the bound as well. Long before that the
  new one may have its slot, under another index: this the property excepts (section 4).

  `PacketsKept` counts the places a packet has in the queue and in what is sent. The
  lemmas say what appending, taking the head, taking one out, concatenating and cutting
  do to the `Count` of a sequence; then `Conserves` says of an operation that what it
  takes from the queue it seals, and `Balances` of a step that the account of a
  packet (waiting, sealed, given up) stays even, from which `StepConserved` follows for
  every action. `ConservedInv` adds that the queue is never longer than
  `MAX_QUEUE_DEPTH`: `send_queued_packet` without a session puts the packet it took back at
  the end, through the same test for room as a new one, and would lose it otherwise.
* **Timers** (any intervals, any lateness of the device's timer, any number of slots,
  messages and packets): `TypeCorrect`, `SessionsEnd`, `SessionsLast` (an action
  property), `HandshakesEnd`, `Answers`, `PathKept`, `Renews`. The properties compare the
  clock with what really happened (`past`), the code compares it with stamps, and a
  stamp may lag. So `IInv` keeps the two apart: `Tracked` says by how much a stamp
  may differ from the event it stands for (never later, and `MaxLate` earlier at
  most); `Sound`, `Tried` and `Served` say what the last call of the timer has left: no
  session was then older than `REJECT_AFTER_TIME` by its stamp, no attempt than
  `REKEY_ATTEMPT_TIME`, no answer, keepalive or renewal was due. Each bound follows by
  adding the two and `Punctual`. `Stamped` (no stamp is later than `TimeCurrent`) and
  `Asked` (data not answered has set `want_keepalive`) are what makes them
  inductive. Whatever sends is one relation on tunnels (`Sends`), whatever makes a
  session another (`Gains`), the clean-up a third (`Cleaned`), and each operation is
  shown to be one of them. A peer that had no address at first is not called for
  any time, so only `Sound` for time 0 holds of it (`Since`).
* **RateLimiter** (any limit, periods, messages and losses): `TypeCorrect`,
  `LoadBounded` (`AdmittedBounded`) and `RetriesSuffice` (`CompletesInTime`). For the
  second the invariant adds that every message let in without a cookie was counted
  (`UnprovenCounted`).

  `RetriesSuffice` is about an end that alone begins handshakes (`OneBegins`): it has a
  session before it gives up. It supposes that cookies and their secrets last for the
  tries (`CookiesLast`: `4 + MaxLost` intervals of `REKEY_TIMEOUT`). With the code's 5 s
  between tries, 120 s for a cookie and 128 s for a secret that allows 19 losses, more
  than the 18 tries that `REKEY_ATTEMPT_TIME` leaves. A round may end without a session
  and leave nothing but a cookie. `RetryInv` therefore keeps an
  account: the rounds so far are paid for by the losses and by the cookies the two
  ends hold (`Paid`), of which each has had two at most, because a limiter's secret
  changes once in that time. `OfRound` says what may be under way: one message
  at most, of the round that has begun last (an initiation, its response, or a cookie
  that its end does not hold yet); `Over` and `UnderWay` tell whether one is.
* **TcpTransport** (any packets, ring and queue, any number of connections, frames under
  way and stops): `TypeCorrect`, `AnswersGoBack` (`AnswersStay`) and `StuckThenLostOrTurnedAway`
  (`StuckByLossOrLoad`). `Entries` is inductive for the first. The second needs an account of whose each ephemeral is and
  of the order of initiations, because an initiation may meet a handshake of the other
  end, or be refused as an older one. `StuckInv` says that a tunnel with
  a queue has a handshake in progress (`Whole`), that ephemerals are drawn in order
  (`Counted`) and every message, handshake and last heard initiation is of a drawn one
  (`Known`), that no initiation on its way to a peer is later than its sender's handshake,
  and what answers that handshake has its index (`Paired`), and that the handshake is lost
  or turned away, on its way to a peer that will accept it, or answered (`Tracked`). All steps that
  read and send are one case (`Move`): the tunnel's own handshake goes on, ends or
  begins anew (`Continues`, `Ends`, `Begins`), and the peer takes or does not take what it
  reads (`Accepts`, `Passes`). Closing and breaking are the other (`LossKeeps`): a frame
  dropped there is a lost one from then on. Of the tunnel's operations, `Outcome`
  keeps what this account needs: the queue, the handshake, and what is sent. The types
  (`TypeInv`) take from `TunnState_proofs` that an operation of a good tunnel leaves a
  good one, as those of `Tunn` do.
* **TcpStream** (any sizes of the two buffers, any packets that fit, any number of
  writers, any division into reads): `StreamTypeCorrect`, `FramesIntact` (`FramesAsWritten`) and
  `NoFalseEnd`. Neither the buffer nor the socket shows where a frame begins, so
  `StreamInv` supposes all bytes ever written, with the place where each frame ends
  (`Layout`), and says that while nothing is torn the buffer, the socket and the packet
  whose length alone is written are the rest of them, in this order and without a
  gap (`Positions`, `Pending`), and that the handler is at the end of as many frames as
  it has handed up (`Reached`). Then two bytes at its position are the length of the next
  packet (`TwoBytes`: quotient and remainder tell a number below `BASE * BASE`), and a
  frame is complete only when it is all there (`NextFrame`). `NoFalseEnd` adds
  (`Room`) that a call of the handler leaves room in the buffer: `read` returns 0 for an
  empty slice, which the handler takes for the end of the stream; that never
  happens as long as the bytes are in order, because a full buffer begins with a
  whole frame. After a torn write it may, and the run reaches it.
* **Device** (any keys, ports, addresses, nested networks, any number of peers and
  descriptors): `TypeCorrect`, `KeysAgree`, `RoutesAgree`,
  `ConnsHeard`, `DescriptorsOwnedOnce`. `IInv` has two halves that need not know of each
  other, because opening and closing sockets leaves the tables alone (`TablesSame`,
  `PeersSame`). For the tables: a new peer's index is in none of them and has no
  socket left (`IndexFresh`), and a route leads to a peer that was given its network
  (`RoutesAllowed`). For the kernel: every open descriptor has one owner (`Owned`), and
  every socket of a peer a handler of that peer under another number, while the
  handler of any other socket waits for its end (`Heard`). `ListeningOpened`,
  `ConnOpened`, `ConnsShut` (of any set of peers) and `HandlerEnded` say what becomes of
  the two when sockets are opened, shut down and closed.
* **EventLoop** (any set of threads and configuration events): `LoopTypeCorrect`,
  `LockIsFaithful`, `Exclusion` (a writer is alone), `YieldHeld`, `YieldEnds`,
  `MutexBrief`. The invariant adds who holds the mutex (`MutexMatches`), who holds
  the write lock (`WriterMatches`), that the owner only reads (`OwnerOnlyReads`) and
  where a writer is while the yield notice is triggered (`YieldMatches`); one lemma
  per action.
* **Instances** (any interfaces, contents, callers, any number of tasks, reloads and
  faults): `TypeCorrect`, `NeverTwo` (`OneInstance`) and `StaleByRace` (`StaleOnlyByRace`, an
  action property). That two present tasks of an
  interface do not meet is not inductive: what keeps them apart is
  `active_instances`. `IInv` says that a task nobody cancelled is the one it has for
  the interface (`Handled`), that one being replaced still is and the reload waits
  for it (`Awaited`), and that the table has tasks under their own names (`Owned`)
  and one where the reload waits (`AwaitsATask`). All steps of tasks and calls are
  one case: they start and cancel nothing (`Goes`, `Quiet`).

  `StaleByRace` is about the cache of configured peers against the peers the running
  cli has. `PeerInv` says which tasks and calls may be at work on them: a socket has a
  task of its interface (`SocketsNamed`), a cli that begins has no peer (`ClisBegin`), whoever is
  between two requests holds `CONFIG_MUTEX` (`LockHeld`), the peer a call is about to
  add has been removed before (`PeerRemoved`), a call removes no peer that the cache has
  where the call has it (`Elsewhere`), and what a call has added is there until the cli
  ends (`Taken`). `PeerRemoved` is what makes `AddPeer` harmless: it sets a peer that the
  cli does not have, of which the cache may say anything. `Elsewhere` confines the harm
  of a removal to a peer that is to move (`Moves`), `Taken` that of an entry to a peer the
  call has not added to the task's cli (`Misses`). Every step but these two (`Guilty`) is
  shown to be `Innocent`: what it leaves stale was stale.

The assumptions are the named `ASSUME`s of the modules: positive sizes, a receive
buffer longer than a frame's length field, distinct endpoints, calls that are told
from tasks and from a free lock, `N_INDICES` a multiple of `N_SESSIONS` (256 and 8), the owner not one of the
threads, an interface, which is not named like a stage of the reload; networks are
finite sets of addresses of which two are nested or apart (prefixes are); a keepalive,
which is empty, is none of the packets of the tun device; and of the
intervals of `noise/timers.rs:19-23`, that `REKEY_TIMEOUT` is less than
`REKEY_ATTEMPT_TIME` and not more than `KEEPALIVE_TIMEOUT` (5, 90 and 10 s), and
`REKEY_AFTER_TIME` not more than what `REJECT_AFTER_TIME` leaves after both (120 of 165 s).

Only model-checked: liveness (the prover does not handle fairness), which is all that
the runs ask of `Signaling`. Every other invariant and action property of the passing runs is
a theorem.

## 8. Not modelled

* *Tunnel*: `set_static_private` of a running tunnel; the jitter of timers (it only delays
  within the bound that `MaxLate` stands for). `Tunn` leaves open which deadline has
  passed, and `Timers` what the other end does; neither is shown to refine the other.
* *Rate limiter*: two ends that initiate at once under load: each can answer the
  other and then refuse the cookie that its own initiation gets, and both stay
  without a session for a while; crossing handshakes are `Tunn`'s subject. The
  socket connected to a peer uses the tunnel's own limiter until `set_key`.
* *Device*: `fwmark`, panics (a failing `shutdown` in `peer.rs:93` would leave
  `wants_write` marked), listening in TCP mode; the two sockets for IPv4 and IPv6
  are one, because they are opened and closed together. `replace_peers` leaves the
  handlers of connected sockets alone until the other end closes; the model has
  this, and `ConnSockets` speaks of peers in the tables and of those removed by name.
* *TCP*: a second `open_listen_socket`, a device without a private key, or with a peer
  without an endpoint. Registering a handler with epoll is taken to succeed; each
  connection has a port of its own; and a handler that gets no socket for one message
  gets none for the others it sends in the same call.
* *Instances*: `mullvad` sidecars, `native_wg_compat`, the SOCKS5 proxy of an
  instance, two files of one interface, `allowed_ips` (every peer gets `0.0.0.0/0`).
* MTU and DNS caches, probes, the status file, the SOCKS5 proxy and loopback
  addresses of `nekolink-ctl`: requests to external commands and sockets, without
  state that outlives them. What a probe finds is the constant `ProbedMtu`.
* `kqueue.rs` and `tun_darwin.rs`: the other platform's version of what `EventLoop`
  and `Device` model through `epoll.rs`.
* `tun_linux.rs`, `drop_privileges.rs`, the C, JNI and Android bindings, the command line of
  the data plane, key encoding, the clock: system calls, one-to-one wrappers and pure
  conversions.
* `wireguard-android`: third-party code.
