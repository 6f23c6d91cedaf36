------------------------------ MODULE Signaling ------------------------------
(***************************************************************************)
(* How the control planes of two hosts (nekolink-ctl/src/main.rs) tell each *)
(* other their keys, tunnel ports and MTUs, and configure each other as the *)
(* peer of an interface, in one of three modes:                             *)
(*   - udp: datagrams, each of which is answered, an answer too;            *)
(*   - tcp: a connection, on which the request is answered once;            *)
(*   - ip: datagrams of an own protocol, without a port.                    *)
(* Module Instances has the tasks of one host; here an instance is down,    *)
(* has a cli without key ("up"), one with a key ("keyed"), or runs with its *)
(* MTU set.                                                                 *)
(***************************************************************************)
EXTENDS Naturals, FiniteSets

CONSTANTS
    Hosts, Clients,     \* the hosts, and those that have the other's address
    Modes,              \* of the interface: a subset of {"udp", "tcp", "ip"}
    Ports,              \* tunnel ports
    ListenPort,         \* per host: the port it asks for, or 0 for a random one
    Configurations,     \* the mtus of the hosts' files; 0 is automatic
    ProbedMtu,          \* per host: what it finds the path to carry
    MaxRestarts,        \* bound: ends of clis
    MaxNet              \* bound: messages under way

ASSUME SignalingAssumption ==
    /\ Cardinality(Hosts) = 2
    /\ Clients \subseteq Hosts
    /\ Modes \subseteq {"udp", "tcp", "ip"}
    /\ Ports \subseteq Nat \ {0}
    /\ ListenPort \in [Hosts -> Ports \cup {0}]
    /\ Configurations \subseteq [Hosts -> Nat]
    /\ ProbedMtu \in [Hosts -> Nat]
    /\ MaxRestarts \in Nat /\ MaxNet \in Nat \ {0}

DefaultMtu == 1420
TunMtu == 1500          \* of a new interface
MinMtu == 1280
NoPort == 0             \* no port, and no entry

VARIABLES
    mode, configured,   \* the interface's mode, and the mtu of each host's file
    host,               \* per host: the stage of its instance, its port and MTU,
                        \* the endpoint of the other host that is cached and that
                        \* the cli has, and session, which toggles with each peer
                        \* added.  In ip mode a port stands for none.
    net,                \* messages under way
    restarts,
    past                \* history: was a peer configured without effect (blind),
                        \* was an MTU told or set before its time (early)?

vars == <<mode, configured, host, net, restarts, past>>

Other(h) == CHOOSE g \in Hosts : g # h

Auto(h) == configured[h] = 0

Least(a, b) == IF a < b THEN a ELSE b

-----------------------------------------------------------------------------
(* Messages.                                                               *)

\* What h, in state s, tells of its interface: get_auto_mtu or get_interface_mtu,
\* and get_actual_listen_port.
Told(h, s, kind) ==
    [to |-> Other(h), kind |-> kind,
     port |-> IF mode = "ip" THEN NoPort ELSE s.port,
     mtu |-> IF Auto(h) THEN ProbedMtu[h]
             ELSE IF s.stage = "down" THEN DefaultMtu ELSE s.mtu]

\* Without a port only ip mode goes on.
Usable(m) == m.port # NoPort \/ mode = "ip"

\* Does h tell an MTU that is not yet the one of its file?
TellsEarly(h) ==
    host[h].stage # "running" /\ ~Auto(h) /\ Usable(Told(h, host[h], "request"))

\* The endpoint that is configured.
EndpointOf(m) == IF mode = "ip" THEN CHOOSE p \in Ports : TRUE ELSE m.port

\* A client of tcp mode looks for its own MTU whatever its file says.
SyncsAuto(h, m) == Auto(h) \/ (mode = "tcp" /\ m.kind = "answer")

\* Mutant: the other's MTU is taken as it is.
SyncedBlindly(h, s, m) == [s EXCEPT !.mtu = m.mtu]

\* The end of configure_peer, and sync_mtu_if_needed.
Synced(h, s, m) ==
    LET target == IF SyncsAuto(h, m) THEN Least(ProbedMtu[h], m.mtu) ELSE m.mtu IN
    IF (SyncsAuto(h, m) \/ m.mtu < s.mtu) /\ target >= MinMtu
    THEN [s EXCEPT !.mtu = target] ELSE s

\* Mutant: the entry is not made.
ConfiguredUncached(h, m) ==
    LET s == host[h] IN
    IF s.stage = "down" THEN [s EXCEPT !.peer = NoPort]
    ELSE IF s.cache = EndpointOf(m) THEN s
    ELSE Synced(h, IF s.stage = "up" THEN s
                   ELSE [s EXCEPT !.peer = EndpointOf(m), !.session = ~@], m)

\* configure_peer: what host h becomes.  A cli without a key adds nothing and
\* reports no error.
Configured(h, m) ==
    LET s == host[h]
        c == [s EXCEPT !.cache = EndpointOf(m)]
    IN
    IF s.stage = "down" \/ s.cache = EndpointOf(m) THEN s
    ELSE Synced(h, IF s.stage = "up" THEN c
                   ELSE [c EXCEPT !.peer = EndpointOf(m), !.session = ~@], m)

\* Host h becomes s, and tells something.
Becomes(h, s, tells) ==
    /\ host' = [host EXCEPT ![h] = s]
    /\ past' = [blind |-> past.blind \/ (host[h].stage = "up" /\ s # host[h]),
                early |-> \/ past.early \/ (tells /\ TellsEarly(h))
                          \/ host[h].stage \in {"up", "keyed"} /\ s # host[h]]

-----------------------------------------------------------------------------
(* The signaling tasks.                                                    *)

\* The send task: get_established_peers finds nobody, so it never stops.
Send(h) ==
    /\ h \in Clients
    /\ Cardinality(net) < MaxNet
    /\ net' = net \cup {Told(h, host[h], "request")}
    /\ Becomes(h, host[h], TRUE)
    /\ UNCHANGED <<mode, configured, restarts>>

\* The answer goes out whether or not configure_peer could do its work.
ReceiveRequest(m) ==
    LET s == Configured(m.to, m) IN
    /\ m \in net /\ m.kind = "request" /\ Usable(m)
    /\ Becomes(m.to, s, TRUE)
    /\ net' = (net \ {m}) \cup
              {Told(m.to, s, IF mode = "tcp" THEN "answer" ELSE "request")}
    /\ UNCHANGED <<mode, configured, restarts>>

ReceiveAnswer(m) ==
    /\ m \in net /\ m.kind = "answer" /\ Usable(m)
    /\ Becomes(m.to, Configured(m.to, m), FALSE)
    /\ net' = net \ {m}
    /\ UNCHANGED <<mode, configured, restarts>>

\* Messages are lost on the way, connections fail, and what has no port is dropped.
Lose(m) ==
    /\ m \in net
    /\ net' = net \ {m}
    /\ UNCHANGED <<mode, configured, host, restarts, past>>

-----------------------------------------------------------------------------
(* The instance.                                                           *)

CliEnds(h) ==
    /\ host[h].stage # "down"
    /\ restarts < MaxRestarts
    /\ restarts' = restarts + 1
    /\ host' = [host EXCEPT ![h].stage = "down", ![h].port = NoPort, ![h].peer = NoPort]
    /\ UNCHANGED <<mode, configured, net, past>>

\* Mutant: the cache is kept.
StartDirty(h) ==
    /\ host[h].stage = "down"
    /\ \E p \in Ports :
         host' = [host EXCEPT ![h] = [@ EXCEPT !.stage = "up", !.port = p, !.mtu = TunMtu]]
    /\ UNCHANGED <<mode, configured, net, restarts, past>>

\* run_instance cleans the cache and starts a cli, which has a random port.
Start(h) ==
    /\ host[h].stage = "down"
    /\ \E p \in Ports :
         host' = [host EXCEPT ![h] = [@ EXCEPT !.stage = "up", !.port = p, !.mtu = TunMtu,
                                               !.cache = NoPort]]
    /\ UNCHANGED <<mode, configured, net, restarts, past>>

SetKey(h) ==
    /\ host[h].stage = "up"
    /\ host' = [host EXCEPT ![h].stage = "keyed",
                            ![h].port = IF ListenPort[h] # 0 THEN ListenPort[h] ELSE @]
    /\ UNCHANGED <<mode, configured, net, restarts, past>>

SetMtu(h) ==
    /\ host[h].stage = "keyed"
    /\ host' = [host EXCEPT ![h].stage = "running",
                            ![h].mtu = IF Auto(h) THEN DefaultMtu ELSE configured[h]]
    /\ UNCHANGED <<mode, configured, net, restarts, past>>

-----------------------------------------------------------------------------
Init ==
    /\ mode \in Modes
    /\ configured \in Configurations
    /\ host = [h \in Hosts |->
            [stage |-> "down", port |-> NoPort, mtu |-> TunMtu, cache |-> NoPort,
             peer |-> NoPort, session |-> FALSE]]
    /\ net = {}
    /\ restarts = 0
    /\ past = [blind |-> FALSE, early |-> FALSE]

\* The tasks of a mode's signaling.
Signal ==
    \/ \E h \in Hosts : Send(h)
    \/ \E m \in net : ReceiveRequest(m) \/ ReceiveAnswer(m)

\* run_instance, again and again.
Run(h) == CliEnds(h) \/ Start(h) \/ SetKey(h) \/ SetMtu(h)

Next ==
    \/ Signal
    \/ \E h \in Hosts : Run(h)
    \/ \E m \in net : Lose(m)

Spec == Init /\ [][Next]_vars

\* Does m say what its sender says now?
Current(m) == LET h == Other(m.to) IN m = Told(h, host[h], m.kind)

Receive(h) == \E m \in net :
    m.to = h /\ Current(m) /\ (ReceiveRequest(m) \/ ReceiveAnswer(m))

\* No message stays under way for ever.
Vanish == \E m \in net :
    ~(Current(m) /\ Usable(m)) /\ (ReceiveRequest(m) \/ ReceiveAnswer(m) \/ Lose(m))

\* Clients send every five seconds, and of what is sent again and again something
\* arrives; run_instance goes on.
Fairness ==
    /\ \A h \in Hosts :
        /\ WF_vars(Send(h)) /\ WF_vars(Start(h) \/ SetKey(h) \/ SetMtu(h))
        /\ SF_vars(Receive(h))
    /\ WF_vars(Vanish)

FairSpec == Spec /\ Fairness

-----------------------------------------------------------------------------
(* Properties.                                                             *)

\* Both hosts have the other configured at its present port in the end, whatever
\* was lost, late, or repeated, and whichever clis ended before; unless a call of
\* configure_peer met a cli without a key, which is module Instances' subject.
Connects ==
    []~past.blind =>
        <>[](\A h \in Hosts :
               /\ host[h].stage = "running"
               /\ host[h].peer = EndpointOf(Told(Other(h), host[Other(h)], "request")))

\* Signaling never stops, but it stops adding the peer anew, which would end the
\* session each time (a message is answered, and in udp mode the answer too).
SessionsStay == <>[][\A h \in Hosts : host'[h].session = host[h].session]_vars

\* What h would choose by itself.
OwnMtu(h) == IF Auto(h) THEN ProbedMtu[h] ELSE configured[h]

\* "Both ends converge to the minimum" (CHANGELOG.md:49): of what they probe or are
\* told by their files.  Not so if an MTU was told or set before run_instance had set
\* its own, for a peer in the cache is not synchronised with again; nor if a client in
\* tcp mode has an MTU in its file.
MtusAgree ==
    []/\ ~past.early /\ ~past.blind
      /\ mode = "tcp" => \A h \in Clients : Auto(h)
    => <>[](\A h \in Hosts : host[h].mtu = Least(OwnMtu(h), OwnMtu(Other(h))))
==============================================================================
