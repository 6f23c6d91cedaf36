------------------------------ MODULE Instances ------------------------------
(***************************************************************************)
(* The control plane of one host (nekolink-ctl/src/main.rs): the task that *)
(* keeps the nekolink-cli of an interface alive, the reload after SIGHUP,  *)
(* and configure_peer, which the signaling handlers call.  They meet in    *)
(* CONFIG_MUTEX, in PEER_CACHE and in the network interface, which all of  *)
(* them know by its name only.                                             *)
(***************************************************************************)
EXTENDS Naturals, FiniteSets

CONSTANTS
    Interfaces, Contents,   \* names of interfaces, and what their files may say
    Neighbours, Endpoints,  \* the peers signaling tells of, and where they are
    Callers,                \* signaling handlers
    Connections,            \* those of them that are tasks of their own (TCP)
    Nothing,
    MaxTasks, MaxReloads, MaxFaults   \* bounds

ASSUME InstancesAssumption ==
    /\ Interfaces # {} /\ Interfaces \cap {"idle", "loop"} = {}
    /\ Connections \subseteq Callers
    /\ Nothing \notin Contents \cup Endpoints
    /\ MaxTasks \in Nat \ {0} /\ MaxReloads \in Nat /\ MaxFaults \in Nat

Task == 1..MaxTasks
NoTask == 0
Free == 0               \* CONFIG_MUTEX; otherwise a task or a caller holds it

\* Tasks and signaling handlers are told apart when they hold it.
ASSUME CallersAssumption == Callers \cap (Task \cup {Free}) = {}

VARIABLES
    tasks,      \* the tasks, each with the nekolink-cli that it has
    handles,    \* active_instances: the task of each interface
    socket,     \* the task whose cli has the interface's UAPI socket
    reload,     \* the loop that waits for SIGHUP
    cleanups,   \* interfaces whose state a spawned task is to clean
    cache,      \* PEER_CACHE
    lock,       \* CONFIG_MUTEX
    callers,    \* calls of configure_peer
    faults      \* clis that ended, were not started, or refused their key

vars == <<tasks, handles, socket, reload, cleanups, cache, lock, callers, faults>>

NoPeers == [k \in Neighbours |-> Nothing]

NewTask(i, content) ==
    [at |-> "begin", iface |-> i, content |-> content, cancelled |-> "no",
     cli |-> "none", keyed |-> FALSE, peers |-> NoPeers]

Unused == [NewTask(CHOOSE i \in Interfaces : TRUE, Nothing) EXCEPT !.at = "free"]

Idle == [at |-> "idle", iface |-> Nothing, key |-> Nothing, endpoint |-> Nothing,
         dropped |-> FALSE, added |-> NoTask]

\* The task to whose cli send_uapi(i, ...) leads.
Reached(i) ==
    IF socket[i] # NoTask /\ tasks[socket[i]].cli = "up" THEN socket[i] ELSE NoTask

\* The tasks whose clis have the interface i.
Links(i) == {t \in Task : tasks[t].iface = i /\ tasks[t].cli = "up"}

\* A cli takes its key and its peers with it.
Ended(r) == [r EXCEPT !.cli = "dead", !.keyed = FALSE, !.peers = NoPeers]

\* run_instance ends, and with it its cli.
Left(r, a) == [Ended(r) EXCEPT !.at = a]

\* "ip link del" i: the clis that have the interface end.
LinkDeleted(i) ==
    [t \in Task |-> IF t \in Links(i)
                    THEN Ended(tasks[t]) ELSE tasks[t]]

\* The calls that have added a peer to the cli that t had until now.
Forgotten(t) ==
    [c \in Callers |-> IF callers[c].added = t THEN [callers[c] EXCEPT !.added = NoTask]
                       ELSE callers[c]]

\* Mutant: the cache is kept.
CleanedNothing(i) == cache

\* cleanup_interface_state: what PEER_CACHE says of i is dropped.
Cleaned(i) == [cache EXCEPT ![i] = NoPeers]

-----------------------------------------------------------------------------
(* run_instance, and the loop around it.                                   *)

\* Up to the wait for CONFIG_MUTEX.  A cancelled task may get there: its select
\* looks at the branches in any order.
Begin(t) ==
    LET i == tasks[t].iface IN
    /\ tasks[t].at = "begin"
    /\ cache' = Cleaned(i)
    /\ tasks' = [LinkDeleted(i) EXCEPT
            ![t].at = "locking", ![t].cli = "starting", ![t].keyed = FALSE,
            ![t].peers = NoPeers]
    /\ callers' = Forgotten(t)
    /\ UNCHANGED <<handles, socket, reload, cleanups, lock, faults>>

\* spawn fails: run_instance returns before it has a cli.
SpawnFails(t) ==
    LET i == tasks[t].iface IN
    /\ faults < MaxFaults
    /\ tasks[t].at = "begin"
    /\ cache' = Cleaned(i)
    /\ tasks' = [LinkDeleted(i) EXCEPT ![t].at = "resting"]
    /\ faults' = faults + 1
    /\ UNCHANGED <<handles, socket, reload, cleanups, lock, callers>>

\* The cli makes the interface and takes the place of any other UAPI socket.
CliUp(t) ==
    /\ tasks[t].cli = "starting"
    /\ tasks' = [tasks EXCEPT ![t].cli = "up"]
    /\ socket' = [socket EXCEPT ![tasks[t].iface] = t]
    /\ UNCHANGED <<handles, reload, cleanups, cache, lock, callers, faults>>

CliDies(t) ==
    /\ faults < MaxFaults
    /\ tasks[t].cli \in {"starting", "up"}
    /\ tasks' = [tasks EXCEPT ![t] = Ended(@)]
    /\ faults' = faults + 1
    /\ UNCHANGED <<handles, socket, reload, cleanups, cache, lock, callers>>

TakeLock(t) ==
    /\ tasks[t].at = "locking"
    /\ lock = Free
    /\ lock' = t
    /\ tasks' = [tasks EXCEPT ![t].at = "keying"]
    /\ UNCHANGED <<handles, socket, reload, cleanups, cache, callers, faults>>

\* The private key is set half a second later, on whatever cli has the socket.
Key(t) ==
    LET u == Reached(tasks[t].iface) IN
    /\ tasks[t].at = "keying"
    /\ u # NoTask
    /\ tasks' = [tasks EXCEPT ![u].keyed = TRUE, ![t].at = "setting"]
    /\ lock' = Free
    /\ UNCHANGED <<handles, socket, reload, cleanups, cache, callers, faults>>

\* No cli answers: run_instance returns the error and drops its cli.
KeyFails(t) ==
    /\ tasks[t].at = "keying"
    /\ Reached(tasks[t].iface) = NoTask
    /\ tasks' = [tasks EXCEPT ![t] = Left(@, "resting")]
    /\ lock' = Free
    /\ UNCHANGED <<handles, socket, reload, cleanups, cache, callers, faults>>

\* A cli answers with an errno, as for a port that is taken; it may have the key.
KeyRefused(t) ==
    LET u == Reached(tasks[t].iface) IN
    /\ faults < MaxFaults
    /\ tasks[t].at = "keying"
    /\ u # NoTask
    /\ \E keyed \in {tasks[u].keyed, TRUE} :
         LET answered == [tasks EXCEPT ![u].keyed = keyed] IN
         tasks' = [answered EXCEPT ![t] = Left(@, "resting")]
    /\ lock' = Free
    /\ faults' = faults + 1
    /\ UNCHANGED <<handles, socket, reload, cleanups, cache, callers>>

\* MTU, multicast, link up and addresses, by the name of the interface, ...
SetUp(t) ==
    /\ tasks[t].at = "setting"
    /\ Links(tasks[t].iface) # {}
    /\ tasks' = [tasks EXCEPT ![t].at = "running"]
    /\ UNCHANGED <<handles, socket, reload, cleanups, cache, lock, callers, faults>>

\* ... or there is no such interface.
SetUpFails(t) ==
    /\ tasks[t].at = "setting"
    /\ Links(tasks[t].iface) = {}
    /\ tasks' = [tasks EXCEPT ![t] = Left(@, "resting")]
    /\ UNCHANGED <<handles, socket, reload, cleanups, cache, lock, callers, faults>>

\* Its cli has ended: run_instance deletes the interface and returns.
Exit(t) ==
    /\ tasks[t].at = "running"
    /\ tasks[t].cli = "dead"
    /\ tasks' = [LinkDeleted(tasks[t].iface) EXCEPT ![t].at = "resting"]
    /\ UNCHANGED <<handles, socket, reload, cleanups, cache, lock, callers, faults>>

\* After five seconds.
Restart(t) ==
    /\ tasks[t].at = "resting"
    /\ tasks' = [tasks EXCEPT ![t].at = "begin"]
    /\ UNCHANGED <<handles, socket, reload, cleanups, cache, lock, callers, faults>>

\* The loop sees the cancellation: run_instance is dropped where it is, with its
\* cli and what it holds.
Stop(t) ==
    /\ tasks[t].cancelled # "no"
    /\ tasks[t].at \notin {"free", "done"}
    /\ tasks' = [tasks EXCEPT ![t] = Left(@, "done")]
    /\ lock' = IF lock = t THEN Free ELSE lock
    /\ UNCHANGED <<handles, socket, reload, cleanups, cache, callers, faults>>

-----------------------------------------------------------------------------
(* The reload.  It holds the write lock of active_instances throughout.     *)

Spare == {t \in Task : tasks[t].at = "free"}

\* A new task for interface i, the first that is free, and reload goes on with the
\* others.
Spawn(i) ==
    /\ \E t \in Spare :
        /\ \A u \in Spare : t <= u
        /\ tasks' = [tasks EXCEPT ![t] = NewTask(i, reload.wanted[i])]
        /\ handles' = [handles EXCEPT ![i] = t]
    /\ reload' = [reload EXCEPT !.at = "loop", !.todo = @ \ {i}]

\* load_configs.  With another signal_port the signaling tasks are cancelled.
Load(files, port_changed) ==
    /\ reload.at = "idle"
    /\ reload.count < MaxReloads
    /\ Cardinality(Spare) >= Cardinality(Interfaces)
    /\ reload' = [at |-> "loop", wanted |-> files, count |-> reload.count + 1,
                  todo |-> {i \in Interfaces : files[i] # Nothing}]
    /\ callers' = [c \in Callers |->
            IF port_changed /\ c \notin Connections /\ callers[c].at # "idle"
            THEN [callers[c] EXCEPT !.dropped = TRUE] ELSE callers[c]]
    /\ UNCHANGED <<tasks, handles, socket, cleanups, cache, lock, faults>>

Todo(i) == reload.at = "loop" /\ i \in reload.todo

Changed(i) == tasks[handles[i]].content # reload.wanted[i]

KeepOld(i) ==
    /\ Todo(i)
    /\ handles[i] # NoTask /\ ~Changed(i)
    /\ reload' = [reload EXCEPT !.todo = @ \ {i}]
    /\ UNCHANGED <<tasks, handles, socket, cleanups, cache, lock, callers, faults>>

StartNew(i) ==
    /\ Todo(i)
    /\ handles[i] = NoTask
    /\ Spawn(i)
    /\ UNCHANGED <<socket, cleanups, cache, lock, callers, faults>>

CancelOld(i) ==
    /\ Todo(i)
    /\ handles[i] # NoTask /\ Changed(i)
    /\ tasks' = [tasks EXCEPT ![handles[i]].cancelled = "replaced"]
    /\ reload' = [reload EXCEPT !.at = i]
    /\ UNCHANGED <<handles, socket, cleanups, cache, lock, callers, faults>>

\* Mutant: the old task is not awaited.
AwaitNothing(i) ==
    /\ reload.at = i
    /\ Spawn(i)
    /\ UNCHANGED <<socket, cleanups, cache, lock, callers, faults>>

AwaitOld(i) ==
    /\ reload.at = i
    /\ tasks[handles[i]].at = "done"
    /\ Spawn(i)
    /\ UNCHANGED <<socket, cleanups, cache, lock, callers, faults>>

\* Mutant: the tasks go on.
ForgetOthers ==
    LET gone == {i \in Interfaces : reload.wanted[i] = Nothing /\ handles[i] # NoTask} IN
    /\ reload.at = "loop" /\ reload.todo = {}
    /\ handles' = [i \in Interfaces |-> IF i \in gone THEN NoTask ELSE handles[i]]
    /\ cleanups' = cleanups \cup gone
    /\ reload' = [reload EXCEPT !.at = "idle"]
    /\ UNCHANGED <<tasks, socket, cache, lock, callers, faults>>

\* Interfaces without a file are cancelled; neither their tasks nor the clean-up
\* of their state is awaited.
RemoveOthers ==
    LET gone == {i \in Interfaces : reload.wanted[i] = Nothing /\ handles[i] # NoTask} IN
    /\ reload.at = "loop" /\ reload.todo = {}
    /\ tasks' = [t \in Task |-> IF t \in {handles[i] : i \in gone}
                                THEN [tasks[t] EXCEPT !.cancelled = "removed"] ELSE tasks[t]]
    /\ handles' = [i \in Interfaces |-> IF i \in gone THEN NoTask ELSE handles[i]]
    /\ cleanups' = cleanups \cup gone
    /\ reload' = [reload EXCEPT !.at = "idle"]
    /\ UNCHANGED <<socket, cache, lock, callers, faults>>

RunCleanup(i) ==
    /\ i \in cleanups
    /\ cleanups' = cleanups \ {i}
    /\ cache' = Cleaned(i)
    /\ UNCHANGED <<tasks, handles, socket, reload, lock, callers, faults>>

-----------------------------------------------------------------------------
(* configure_peer, called with an instance of a snapshot of the instances.  *)

Unchanged == UNCHANGED <<handles, socket, reload, cleanups, faults>>

Call(c, i, k, e) ==
    /\ callers[c].at = "idle"
    /\ reload.at = "idle" /\ handles[i] # NoTask
    /\ callers' = [callers EXCEPT ![c] =
            [at |-> "waiting", iface |-> i, key |-> k, endpoint |-> e, dropped |-> FALSE,
             added |-> NoTask]]
    /\ UNCHANGED <<tasks, cache, lock>> /\ Unchanged

\* What is in the cache is not configured again.
Enter(c) ==
    LET d == callers[c] IN
    /\ d.at = "waiting"
    /\ lock = Free
    /\ IF cache[d.iface][d.key] = d.endpoint
       THEN /\ callers' = [callers EXCEPT ![c] = Idle]
            /\ UNCHANGED lock
       ELSE /\ callers' = [callers EXCEPT ![c].at = "removing"]
            /\ lock' = c
    /\ UNCHANGED <<tasks, cache>> /\ Unchanged

RemovePeer(c) ==
    LET d == callers[c]
        u == Reached(d.iface) IN
    /\ d.at = "removing"
    /\ tasks' = IF u = NoTask THEN tasks ELSE [tasks EXCEPT ![u].peers[d.key] = Nothing]
    /\ callers' = [callers EXCEPT ![c].at = "adding"]
    /\ UNCHANGED <<cache, lock>> /\ Unchanged

\* A cli without a private key adds nothing and reports no error.  (added is kept
\* for the properties: the task whose cli took the peer, until it has another cli.)
AddPeer(c) ==
    LET d == callers[c] IN
    /\ d.at = "adding"
    /\ \E u \in Task :
        /\ u = Reached(d.iface)
        /\ tasks' = IF tasks[u].keyed THEN [tasks EXCEPT ![u].peers[d.key] = d.endpoint]
                    ELSE tasks
        /\ callers' = [callers EXCEPT ![c].at = "inserting",
                                      ![c].added = IF tasks[u].keyed THEN u ELSE NoTask]
    /\ UNCHANGED <<cache, lock>> /\ Unchanged

\* No cli answers, or it cannot read the endpoint.
AddFails(c) ==
    /\ callers[c].at = "adding"
    /\ callers' = [callers EXCEPT ![c] = Idle]
    /\ lock' = Free
    /\ UNCHANGED <<tasks, cache>> /\ Unchanged

Insert(c) ==
    LET d == callers[c] IN
    /\ d.at = "inserting"
    /\ cache' = [cache EXCEPT ![d.iface][d.key] = d.endpoint]
    /\ callers' = [callers EXCEPT ![c] = Idle]
    /\ lock' = Free
    /\ UNCHANGED tasks /\ Unchanged

\* The signaling task is cancelled: the call is dropped where it waits.
Drop(c) ==
    /\ callers[c].dropped
    /\ callers' = [callers EXCEPT ![c] = Idle]
    /\ lock' = IF lock = c THEN Free ELSE lock
    /\ UNCHANGED <<tasks, cache>> /\ Unchanged

-----------------------------------------------------------------------------
\* The first start is the loop of a reload that finds no instances.
Init ==
    /\ tasks = [t \in Task |-> Unused]
    /\ handles = [i \in Interfaces |-> NoTask]
    /\ socket = [i \in Interfaces |-> NoTask]
    /\ \E files \in [Interfaces -> Contents \cup {Nothing}] :
         reload = [at |-> "loop", wanted |-> files, count |-> 0,
                   todo |-> {i \in Interfaces : files[i] # Nothing}]
    /\ cleanups = {}
    /\ cache = [i \in Interfaces |-> NoPeers]
    /\ lock = Free
    /\ callers = [c \in Callers |-> Idle]
    /\ faults = 0

Instance(t) ==
    \/ Begin(t) \/ SpawnFails(t) \/ CliUp(t) \/ CliDies(t) \/ TakeLock(t)
    \/ Key(t) \/ KeyFails(t) \/ KeyRefused(t)
    \/ SetUp(t) \/ SetUpFails(t) \/ Exit(t) \/ Restart(t) \/ Stop(t)

Reload ==
    \/ \E files \in [Interfaces -> Contents \cup {Nothing}], p \in BOOLEAN : Load(files, p)
    \/ \E i \in Interfaces : KeepOld(i) \/ StartNew(i) \/ CancelOld(i) \/ AwaitOld(i)
    \/ RemoveOthers

ConfigurePeer(c) ==
    \/ \E i \in Interfaces, k \in Neighbours, e \in Endpoints : Call(c, i, k, e)
    \/ Enter(c) \/ RemovePeer(c) \/ AddPeer(c) \/ AddFails(c) \/ Insert(c) \/ Drop(c)

Next ==
    \/ \E t \in Task : Instance(t)
    \/ Reload
    \/ \E i \in Interfaces : RunCleanup(i)
    \/ \E c \in Callers : ConfigurePeer(c)

Spec == Init /\ [][Next]_vars

\* Every started step goes on; CONFIG_MUTEX is a queue, so whoever waits gets it;
\* and a cli that is started again and again is up in time some time.
Fairness ==
    /\ \A t \in Task :
        /\ WF_vars(Begin(t) \/ SpawnFails(t))
        /\ WF_vars(Key(t) \/ KeyFails(t) \/ KeyRefused(t))
        /\ WF_vars(SetUp(t) \/ SetUpFails(t)) /\ WF_vars(Exit(t))
        /\ WF_vars(Restart(t)) /\ WF_vars(Stop(t))
        /\ SF_vars(TakeLock(t)) /\ SF_vars(CliUp(t))
    /\ \A i \in Interfaces :
        /\ WF_vars(KeepOld(i) \/ StartNew(i) \/ CancelOld(i) \/ AwaitOld(i))
        /\ WF_vars(RunCleanup(i))
    /\ WF_vars(RemoveOthers)
    /\ \A c \in Callers :
        /\ WF_vars(RemovePeer(c) \/ AddPeer(c) \/ AddFails(c) \/ Insert(c))
        /\ SF_vars(Enter(c))

FairSpec == Spec /\ Fairness

-----------------------------------------------------------------------------
(* Properties.                                                             *)

Present(t) == tasks[t].at \notin {"free", "done"}

TaskRecord ==
    [at : {"free", "begin", "locking", "keying", "setting", "running", "resting", "done"},
     iface : Interfaces, content : Contents \cup {Nothing},
     cancelled : {"no", "replaced", "removed"},
     cli : {"none", "starting", "up", "dead"}, keyed : BOOLEAN,
     peers : [Neighbours -> Endpoints \cup {Nothing}]]

LoopRecord ==
    [at : Interfaces \cup {"idle", "loop"}, count : Nat,
     wanted : [Interfaces -> Contents \cup {Nothing}], todo : SUBSET Interfaces]

CallRecord ==
    [at : {"idle", "waiting", "removing", "adding", "inserting"},
     iface : Interfaces \cup {Nothing}, key : Neighbours \cup {Nothing},
     endpoint : Endpoints \cup {Nothing}, dropped : BOOLEAN, added : Task \cup {NoTask}]

TypeOK ==
    /\ tasks \in [Task -> TaskRecord]
    /\ handles \in [Interfaces -> Task \cup {NoTask}]
    /\ socket \in [Interfaces -> Task \cup {NoTask}]
    /\ reload \in LoopRecord
    /\ cleanups \subseteq Interfaces
    /\ cache \in [Interfaces -> [Neighbours -> Endpoints \cup {Nothing}]]
    /\ lock \in {Free} \cup Task \cup Callers
    /\ callers \in [Callers -> CallRecord]
    /\ faults \in Nat

\* "Wait for the old task to end" (main.rs:599): no two tasks work on an interface,
\* unless one is of an interface that was removed before it was added again.
OneInstance ==
    \A t, u \in Task :
        t # u /\ Present(t) /\ Present(u) /\ tasks[t].iface = tasks[u].iface =>
            "removed" \in {tasks[t].cancelled, tasks[u].cancelled}

\* The interface i works: its task runs and is the one whose cli has the socket
\* and the key.
Works(i) ==
    LET t == handles[i] IN
    /\ t # NoTask
    /\ tasks[t].at = "running" /\ tasks[t].cancelled = "no"
    /\ Reached(i) = t /\ tasks[t].keyed

\* What the cache says of i is true: the cli has the peers, where the cache says.
CacheTrue(i) ==
    \A k \in Neighbours :
        cache[i][k] # Nothing => tasks[handles[i]].peers[k] = cache[i][k]

\* The cache is wrong about the cli that the task of i has started.
Stale(i) ==
    LET t == handles[i] IN
    /\ t # NoTask
    /\ tasks[t].at \in {"locking", "keying", "setting", "running"} /\ tasks[t].cli # "dead"
    /\ ~CacheTrue(i)

\* A call takes a peer away that the cache has, at an endpoint other than its own ...
Moves(c, i) ==
    /\ callers[c].iface = i
    /\ cache[i][callers[c].key] \notin {Nothing, callers[c].endpoint}
    /\ RemovePeer(c)

\* ... or enters a peer that it has not added to the cli that the task of i has.
Misses(c, i) ==
    /\ callers[c].iface = i
    /\ callers[c].added # handles[i]
    /\ Insert(c)

\* The pre-clean of run_instance leaves nothing wrong in the cache.  Afterwards it
\* becomes wrong only where configure_peer moves a peer, from its removal to its
\* entry, for good if the call ends between them; and by the entry of a peer that
\* went to a cli without its key or to one that is not the task's cli any more.
StaleOnlyByRace ==
    [][\A i \in Interfaces :
        Stale(i)' /\ ~Stale(i) => \E c \in Callers : Moves(c, i) \/ Misses(c, i)]_vars

Settled ==
    /\ reload.at = "idle"
    /\ \A i \in Interfaces :
         IF reload.wanted[i] = Nothing
         THEN \A t \in Task : tasks[t].iface = i => ~Present(t)
         ELSE Works(i) /\ tasks[handles[i]].content = reload.wanted[i]

\* The interfaces of the last load, and no others, work in the end, whatever the
\* reloads and ends of processes before, with what their files say; unless a task of
\* a removed interface, which is not awaited, meets its successor.
Settles ==
    [](\A t, u \in Task : t # u /\ Present(t) /\ Present(u) => tasks[t].iface # tasks[u].iface)
        => <>[]Settled
==============================================================================
