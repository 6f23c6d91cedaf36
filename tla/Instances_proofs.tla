--------------------------- MODULE Instances_proofs ---------------------------
(***************************************************************************)
(* Proofs about Instances, for every set of interfaces, contents,          *)
(* neighbours and callers and every number of tasks, reloads and faults.   *)
(***************************************************************************)
EXTENDS Instances, TLAPS

-----------------------------------------------------------------------------
(* The inductive invariant: the tasks that are present and not removed are *)
(* the ones that active_instances has.                                     *)

\* A task nobody cancelled is the one of its interface.
Handled ==
    \A t \in Task :
        Present(t) /\ tasks[t].cancelled = "no" => handles[tasks[t].iface] = t

\* A task that is to be replaced still is, and the reload waits for it.
Awaited ==
    \A t \in Task :
        Present(t) /\ tasks[t].cancelled = "replaced" =>
            reload.at = tasks[t].iface /\ handles[tasks[t].iface] = t

\* active_instances keeps tasks, under the names of their interfaces.
Owned ==
    \A i \in Interfaces :
        handles[i] # NoTask =>
            tasks[handles[i]].iface = i /\ tasks[handles[i]].at # "free"

\* The reload only waits for a task that there is.
AwaitsATask ==
    \A i \in Interfaces : reload.at = i => handles[i] # NoTask

Loneliness == Handled /\ Awaited /\ Owned /\ AwaitsATask

IInv == TypeOK /\ Loneliness

-----------------------------------------------------------------------------
(* Types.                                                                  *)

\* The constants that states are made of are apart from each other.
LEMMA Constants ==
    /\ Task \subseteq Nat /\ NoTask \notin Task
    /\ NewTask(CHOOSE i \in Interfaces : TRUE, Nothing) \in TaskRecord
    /\ Unused \in TaskRecord /\ Unused.at = "free"
    /\ NoPeers \in [Neighbours -> Endpoints \cup {Nothing}]
<1>1. Task \subseteq Nat /\ NoTask \notin Task
  BY InstancesAssumption DEF Task, NoTask
<1>2. NoPeers \in [Neighbours -> Endpoints \cup {Nothing}]
  BY DEF NoPeers
<1>3. PICK i \in Interfaces : i = CHOOSE j \in Interfaces : TRUE
  BY InstancesAssumption
<1>4. NewTask(i, Nothing) \in TaskRecord
  BY <1>2, <1>3 DEF NewTask, TaskRecord
<1>5. Unused = [NewTask(i, Nothing) EXCEPT !.at = "free"]
  BY <1>3 DEF Unused
<1>6. Unused \in TaskRecord /\ Unused.at = "free"
  BY <1>4, <1>5 DEF TaskRecord
<1> QED
  BY <1>1, <1>2, <1>3, <1>4, <1>6

\* A new task is a task.
LEMMA NewTaskType ==
    ASSUME NEW i \in Interfaces, NEW x \in Contents \cup {Nothing}
    PROVE  /\ NewTask(i, x) \in TaskRecord
           /\ NewTask(i, x).at = "begin" /\ NewTask(i, x).iface = i
           /\ NewTask(i, x).cancelled = "no"
BY DEF NewTask, TaskRecord, NoPeers

\* A cli ends, and the record is still a task's.
LEMMA EndedType ==
    ASSUME NEW r \in TaskRecord
    PROVE  /\ Ended(r) \in TaskRecord
           /\ Ended(r).at = r.at /\ Ended(r).iface = r.iface
           /\ Ended(r).cancelled = r.cancelled
           /\ Ended(r).cli = "dead" /\ Ended(r).peers = NoPeers
BY ZenonT(40), Constants DEF Ended, TaskRecord

\* Deleting an interface ends clis and does nothing else.
LEMMA LinkDeletedType ==
    ASSUME tasks \in [Task -> TaskRecord], NEW i
    PROVE  /\ LinkDeleted(i) \in [Task -> TaskRecord]
           /\ \A t \in Task :
                /\ LinkDeleted(i)[t].at = tasks[t].at
                /\ LinkDeleted(i)[t].iface = tasks[t].iface
                /\ LinkDeleted(i)[t].cancelled = tasks[t].cancelled
BY EndedType DEF LinkDeleted

\* A function of records in which one changes, with the changed record a record.
LEMMA ChangedType ==
    ASSUME NEW f \in [Task -> TaskRecord], NEW t \in Task, NEW r \in TaskRecord,
           r.iface = f[t].iface, r.cancelled = f[t].cancelled,
           NEW g, g = [f EXCEPT ![t] = r]
    PROVE  /\ g \in [Task -> TaskRecord]
           /\ \A u \in Task :
                /\ g[u].iface = f[u].iface
                /\ g[u].cancelled = f[u].cancelled
                /\ g[u].at = IF u = t THEN r.at ELSE f[u].at
OBVIOUS

\* A task and its cli end.
LEMMA TaskEnds ==
    ASSUME NEW f \in [Task -> TaskRecord], NEW t \in Task, NEW a \in {"resting", "done"},
           NEW g, g = [f EXCEPT ![t] = Left(f[t], a)]
    PROVE  /\ g \in [Task -> TaskRecord]
           /\ \A u \in Task :
                /\ g[u].iface = f[u].iface /\ g[u].cancelled = f[u].cancelled
                /\ g[u].at = IF u = t THEN a ELSE f[u].at
                /\ IF u = t THEN g[u].cli = "dead"
                            ELSE g[u].cli = f[u].cli /\ g[u].peers = f[u].peers
<1> DEFINE r == Left(f[t], a)
           e == Ended(f[t])
<1>1. /\ e \in TaskRecord /\ e.iface = f[t].iface /\ e.cancelled = f[t].cancelled
      /\ e.cli = "dead"
  BY EndedType
<1>2. r = [e EXCEPT !.at = a]
  BY DEF Left
<1> HIDE DEF e, r
<1>3. /\ r \in TaskRecord /\ r.iface = f[t].iface /\ r.cancelled = f[t].cancelled
      /\ r.at = a /\ r.cli = "dead"
  BY <1>1, <1>2 DEF TaskRecord
<1>4. g = [f EXCEPT ![t] = r]
  BY DEF r
<1>5. g[t] = r /\ \A u \in Task \ {t} : g[u] = f[u]
  BY <1>4
<1>6. g \in [Task -> TaskRecord]
  BY <1>3, <1>4
<1> QED
  BY <1>3, <1>5, <1>6

\* The calls keep their types when one task's cli is forgotten.
LEMMA ForgottenType ==
    ASSUME callers \in [Callers -> CallRecord], NEW t
    PROVE  /\ Forgotten(t) \in [Callers -> CallRecord]
           /\ \A c \in Callers :
                /\ Forgotten(t)[c].at = callers[c].at
                /\ Forgotten(t)[c].iface = callers[c].iface
                /\ Forgotten(t)[c].key = callers[c].key
                /\ Forgotten(t)[c].endpoint = callers[c].endpoint
                /\ Forgotten(t)[c].added =
                      IF callers[c].added = t THEN NoTask ELSE callers[c].added
<1>1. \A r \in CallRecord :
        /\ [r EXCEPT !.added = NoTask] \in CallRecord
        /\ [r EXCEPT !.added = NoTask].at = r.at
        /\ [r EXCEPT !.added = NoTask].iface = r.iface
        /\ [r EXCEPT !.added = NoTask].key = r.key
        /\ [r EXCEPT !.added = NoTask].endpoint = r.endpoint
        /\ [r EXCEPT !.added = NoTask].added = NoTask
  BY DEF CallRecord
<1>2. \A c \in Callers :
        Forgotten(t)[c] = IF callers[c].added = t THEN [callers[c] EXCEPT !.added = NoTask]
                          ELSE callers[c]
  BY DEF Forgotten
<1>3. \A c \in Callers : callers[c] \in CallRecord
  OBVIOUS
<1>4. Forgotten(t) \in [Callers -> CallRecord]
  BY <1>1, <1>3 DEF Forgotten
<1>5. ASSUME NEW c \in Callers
      PROVE  /\ Forgotten(t)[c].at = callers[c].at
             /\ Forgotten(t)[c].iface = callers[c].iface
             /\ Forgotten(t)[c].key = callers[c].key
             /\ Forgotten(t)[c].endpoint = callers[c].endpoint
             /\ Forgotten(t)[c].added =
                   IF callers[c].added = t THEN NoTask ELSE callers[c].added
  <2>1. CASE callers[c].added = t
    <3>1. Forgotten(t)[c] = [callers[c] EXCEPT !.added = NoTask]
      BY <1>2, <2>1
    <3>2. callers[c] \in CallRecord
      BY <1>3
    <3> QED
      BY Zenon, <1>1, <2>1, <3>1, <3>2
  <2>2. CASE callers[c].added # t
    BY <1>2, <2>2
  <2> QED
    BY <2>1, <2>2
<1> QED
  BY <1>4, <1>5

\* The task that the UAPI socket of an interface leads to.
LEMMA ReachedType ==
    ASSUME TypeOK, NEW i \in Interfaces
    PROVE  Reached(i) \in Task \cup {NoTask}
BY DEF Reached, TypeOK

\* Cleaning keeps the cache a cache.
LEMMA CleanedType ==
    ASSUME TypeOK, NEW i \in Interfaces
    PROVE  Cleaned(i) \in [Interfaces -> [Neighbours -> Endpoints \cup {Nothing}]]
BY DEF Cleaned, NoPeers, TypeOK

-----------------------------------------------------------------------------
(* Steps.                                                                  *)

\* What a step leaves of a task that it neither starts nor cancels: the interface
\* and the cancellation; it may end, and does not come back.
Goes(t) ==
    /\ tasks'[t].iface = tasks[t].iface
    /\ tasks'[t].cancelled = tasks[t].cancelled
    /\ tasks[t].at # "free" => tasks'[t].at # "free"
    /\ Present(t)' => Present(t)

\* The tasks' own steps keep their types and go on.
LEMMA InstanceStep ==
    ASSUME TypeOK, NEW t \in Task, Instance(t)
    PROVE  /\ TypeOK'
           /\ handles' = handles /\ reload' = reload
           /\ \A u \in Task : Goes(u)
<1>0. /\ tasks[t] \in TaskRecord /\ tasks[t].iface \in Interfaces
      /\ NoPeers \in [Neighbours -> Endpoints \cup {Nothing}]
  BY Constants DEF TypeOK, TaskRecord
<1> USE DEF TypeOK, Goes, Present
<1>1. CASE Begin(t)
  <2> DEFINE d == LinkDeleted(tasks[t].iface)
  <2>1. d \in [Task -> TaskRecord]
    BY <1>0, LinkDeletedType
  <2>2. \A u \in Task : /\ d[u].at = tasks[u].at /\ d[u].iface = tasks[u].iface
                        /\ d[u].cancelled = tasks[u].cancelled
    BY <1>0, LinkDeletedType
  <2>3. tasks' = [d EXCEPT ![t].at = "locking", ![t].cli = "starting",
                           ![t].keyed = FALSE, ![t].peers = NoPeers]
    BY <1>1 DEF Begin
  <2>4. cache' \in [Interfaces -> [Neighbours -> Endpoints \cup {Nothing}]]
    BY <1>0, <1>1, CleanedType DEF Begin
  <2> HIDE DEF d
  <2>5. /\ tasks' \in [Task -> TaskRecord]
        /\ \A u \in Task :
             /\ tasks'[u].iface = d[u].iface /\ tasks'[u].cancelled = d[u].cancelled
             /\ tasks'[u].at = IF u = t THEN "locking" ELSE d[u].at
    <3> DEFINE r == [d[t] EXCEPT !.at = "locking", !.cli = "starting",
                                 !.keyed = FALSE, !.peers = NoPeers]
    <3>1. d[t] \in TaskRecord
      BY <2>1
    <3>2. /\ r \in TaskRecord /\ r.at = "locking"
          /\ r.iface = d[t].iface /\ r.cancelled = d[t].cancelled
      BY <1>0, <3>1 DEF TaskRecord
    <3>3. tasks' = [d EXCEPT ![t] = r]
      BY <2>1, <2>3
    <3> QED
      BY <2>1, <3>2, <3>3, ChangedType
  <2>6. tasks[t].at = "begin"
    BY <1>1 DEF Begin
  <2>7. \A u \in Task : Goes(u)
    BY <2>2, <2>5, <2>6
  <2>8. /\ handles' = handles /\ reload' = reload /\ socket' = socket
        /\ cleanups' = cleanups /\ lock' = lock /\ faults' = faults
    BY <1>1 DEF Begin
  <2>9. callers' \in [Callers -> CallRecord]
    BY <1>1, ForgottenType DEF Begin
  <2> QED
    BY <2>4, <2>5, <2>7, <2>8, <2>9
<1>12. CASE SpawnFails(t)
  <2> DEFINE d == LinkDeleted(tasks[t].iface)
             r == [d[t] EXCEPT !.at = "resting"]
  <2>1. d \in [Task -> TaskRecord] /\ d[t] \in TaskRecord
    BY <1>0, LinkDeletedType
  <2>2. \A u \in Task : /\ d[u].at = tasks[u].at /\ d[u].iface = tasks[u].iface
                        /\ d[u].cancelled = tasks[u].cancelled
    BY <1>0, LinkDeletedType
  <2>3. /\ tasks' = [d EXCEPT ![t].at = "resting"] /\ tasks[t].at = "begin"
        /\ faults' = faults + 1
    BY <1>12 DEF SpawnFails
  <2>4. cache' \in [Interfaces -> [Neighbours -> Endpoints \cup {Nothing}]]
    BY <1>0, <1>12, CleanedType DEF SpawnFails
  <2>5. UNCHANGED <<handles, socket, reload, cleanups, lock, callers>>
    BY <1>12 DEF SpawnFails
  <2> HIDE DEF d
  <2>6. /\ r \in TaskRecord /\ r.at = "resting"
        /\ r.iface = d[t].iface /\ r.cancelled = d[t].cancelled
    BY <2>1 DEF TaskRecord
  <2>7. tasks' = [d EXCEPT ![t] = r]
    BY <2>1, <2>3
  <2> HIDE DEF r
  <2>8. /\ tasks' \in [Task -> TaskRecord]
        /\ \A u \in Task :
             /\ tasks'[u].iface = d[u].iface /\ tasks'[u].cancelled = d[u].cancelled
             /\ tasks'[u].at = IF u = t THEN "resting" ELSE d[u].at
    BY <2>1, <2>6, <2>7, ChangedType
  <2>9. \A u \in Task : Goes(u)
    BY <2>2, <2>3, <2>8
  <2> QED
    BY <2>3, <2>4, <2>5, <2>8, <2>9
<1>2. CASE CliUp(t)
  BY <1>0, <1>2 DEF CliUp, TaskRecord
<1>3. CASE CliDies(t)
  <2> DEFINE r == Ended(tasks[t])
  <2>1. r \in TaskRecord /\ r.iface = tasks[t].iface /\ r.cancelled = tasks[t].cancelled
        /\ r.at = tasks[t].at
    BY <1>0, EndedType
  <2>2. faults' \in Nat
    BY <1>3 DEF CliDies
  <2>3. tasks' = [tasks EXCEPT ![t] = r]
    BY <1>3 DEF CliDies
  <2> HIDE DEF r
  <2>4. tasks' \in [Task -> TaskRecord] /\ \A u \in Task : Goes(u)
    BY <2>1, <2>3, ChangedType
  <2> QED
    BY <1>3, <2>2, <2>4 DEF CliDies
<1>4. CASE TakeLock(t)
  BY <1>0, <1>4 DEF TakeLock, TaskRecord
<1>5. CASE Key(t)
  <2> DEFINE r == Reached(tasks[t].iface)
             k == [tasks EXCEPT ![r].keyed = TRUE]
  <2>1. r \in Task
    BY <1>0, <1>5, ReachedType DEF Key
  <2>2. tasks' = [k EXCEPT ![t].at = "setting"]
    BY <1>5 DEF Key
  <2> HIDE DEF r
  <2>3. /\ k \in [Task -> TaskRecord]
        /\ \A u \in Task : /\ k[u].at = tasks[u].at /\ k[u].iface = tasks[u].iface
                           /\ k[u].cancelled = tasks[u].cancelled
    <3> DEFINE x == [tasks[r] EXCEPT !.keyed = TRUE]
    <3>1. tasks[r] \in TaskRecord
      BY <2>1
    <3>2. /\ x \in TaskRecord /\ x.at = tasks[r].at
          /\ x.iface = tasks[r].iface /\ x.cancelled = tasks[r].cancelled
      BY <3>1 DEF TaskRecord
    <3>3. k = [tasks EXCEPT ![r] = x]
      BY <2>1
    <3> HIDE DEF k, x
    <3> QED
      BY <2>1, <3>2, <3>3, ChangedType
  <2> HIDE DEF k
  <2>4. /\ tasks' \in [Task -> TaskRecord]
        /\ \A u \in Task :
             /\ tasks'[u].iface = k[u].iface /\ tasks'[u].cancelled = k[u].cancelled
             /\ tasks'[u].at = IF u = t THEN "setting" ELSE k[u].at
    <3> DEFINE x == [k[t] EXCEPT !.at = "setting"]
    <3>1. k[t] \in TaskRecord
      BY <2>3
    <3>2. /\ x \in TaskRecord /\ x.at = "setting"
          /\ x.iface = k[t].iface /\ x.cancelled = k[t].cancelled
      BY <3>1 DEF TaskRecord
    <3>3. tasks' = [k EXCEPT ![t] = x]
      BY <2>3, <2>2
    <3> QED
      BY <2>3, <3>2, <3>3, ChangedType
  <2>5. tasks[t].at = "keying"
    BY <1>5 DEF Key
  <2>6. \A u \in Task : Goes(u)
    BY <2>3, <2>4, <2>5
  <2> QED
    BY <1>5, <2>4, <2>6 DEF Key
<1>6. CASE KeyFails(t)
  <2>1. /\ tasks[t].at = "keying"
        /\ tasks' = [tasks EXCEPT ![t] = Left(tasks[t], "resting")]
    BY <1>6 DEF KeyFails
  <2>2. tasks' \in [Task -> TaskRecord] /\ \A u \in Task : Goes(u)
    BY SMTT(20), <2>1, TaskEnds
  <2> QED
    BY <1>6, <2>2 DEF KeyFails
<1>13. CASE KeyRefused(t)
  <2> DEFINE u == Reached(tasks[t].iface)
  <2>1. u \in Task
    BY <1>0, <1>13, ReachedType DEF KeyRefused
  <2>2. PICK keyed \in BOOLEAN :
          LET answered == [tasks EXCEPT ![u].keyed = keyed] IN
          tasks' = [answered EXCEPT ![t] = Left(@, "resting")]
    <3>1. tasks[u].keyed \in BOOLEAN
      BY <2>1 DEF TaskRecord
    <3> QED
      BY <1>13, <3>1 DEF KeyRefused
  <2> HIDE DEF u
  <2> DEFINE x == [tasks[u] EXCEPT !.keyed = keyed]
             f == [tasks EXCEPT ![u] = x]
  <2>3. /\ x \in TaskRecord /\ x.at = tasks[u].at
        /\ x.iface = tasks[u].iface /\ x.cancelled = tasks[u].cancelled
    BY ZenonT(40), <2>1 DEF TaskRecord
  <2>10. f = [tasks EXCEPT ![u].keyed = keyed]
    BY <2>1
  <2> HIDE DEF x
  <2>5. /\ f \in [Task -> TaskRecord]
        /\ \A v \in Task : /\ f[v].at = tasks[v].at /\ f[v].iface = tasks[v].iface
                           /\ f[v].cancelled = tasks[v].cancelled
    BY <2>1, <2>3
  <2> HIDE DEF f
  <2>4. tasks' = [f EXCEPT ![t] = Left(f[t], "resting")]
    BY ONLY <2>2, <2>10
  <2>6. /\ tasks' \in [Task -> TaskRecord]
        /\ \A v \in Task :
             /\ tasks'[v].iface = f[v].iface /\ tasks'[v].cancelled = f[v].cancelled
             /\ tasks'[v].at = IF v = t THEN "resting" ELSE f[v].at
    <3>1. \A v \in Task :
             /\ tasks'[v].iface = f[v].iface /\ tasks'[v].cancelled = f[v].cancelled
             /\ tasks'[v].at = IF v = t THEN "resting" ELSE f[v].at
      BY ONLY t \in Task, <2>4, <2>5 DEF Left, Ended, TaskRecord
    <3>2. tasks' \in [Task -> TaskRecord]
      <4> DEFINE l == Left(f[t], "resting")
                 e == Ended(f[t])
      <4>1. e \in TaskRecord
        BY <2>5, EndedType
      <4>2. l = [e EXCEPT !.at = "resting"]
        BY DEF Left
      <4> HIDE DEF e
      <4>3. l \in TaskRecord
        BY <4>1, <4>2 DEF TaskRecord
      <4>4. tasks' = [f EXCEPT ![t] = l]
        BY <2>4
      <4> HIDE DEF l
      <4> QED
        BY ONLY t \in Task, <2>5, <4>3, <4>4
    <3> QED
      BY <3>1, <3>2
  <2>7. tasks[t].at = "keying" /\ faults' \in Nat
    BY <1>13 DEF KeyRefused
  <2>8. \A v \in Task : Goes(v)
    BY <2>5, <2>6, <2>7
  <2>9. lock' = Free /\ UNCHANGED <<handles, socket, reload, cleanups, cache, callers>>
    BY <1>13 DEF KeyRefused
  <2> QED
    BY <2>6, <2>7, <2>8, <2>9
<1>7. CASE SetUp(t)
  BY <1>0, <1>7 DEF SetUp, TaskRecord
<1>8. CASE SetUpFails(t)
  <2>1. /\ tasks[t].at = "setting"
        /\ tasks' = [tasks EXCEPT ![t] = Left(tasks[t], "resting")]
    BY <1>8 DEF SetUpFails
  <2>2. tasks' \in [Task -> TaskRecord] /\ \A u \in Task : Goes(u)
    BY SMTT(20), <2>1, TaskEnds
  <2> QED
    BY <1>8, <2>2 DEF SetUpFails
<1>9. CASE Exit(t)
  <2> DEFINE d == LinkDeleted(tasks[t].iface)
  <2>1. d \in [Task -> TaskRecord]
    BY <1>0, LinkDeletedType
  <2>2. \A u \in Task : /\ d[u].at = tasks[u].at /\ d[u].iface = tasks[u].iface
                        /\ d[u].cancelled = tasks[u].cancelled
    BY <1>0, LinkDeletedType
  <2>3. tasks' = [d EXCEPT ![t].at = "resting"]
    BY <1>9 DEF Exit
  <2> HIDE DEF d
  <2>4. /\ tasks' \in [Task -> TaskRecord]
        /\ \A u \in Task :
             /\ tasks'[u].iface = d[u].iface /\ tasks'[u].cancelled = d[u].cancelled
             /\ tasks'[u].at = IF u = t THEN "resting" ELSE d[u].at
    <3> DEFINE r == [d[t] EXCEPT !.at = "resting"]
    <3>1. d[t] \in TaskRecord
      BY <2>1
    <3>2. /\ r \in TaskRecord /\ r.at = "resting"
          /\ r.iface = d[t].iface /\ r.cancelled = d[t].cancelled
      BY <3>1 DEF TaskRecord
    <3>3. tasks' = [d EXCEPT ![t] = r]
      BY <2>1, <2>3
    <3> QED
      BY <2>1, <3>2, <3>3, ChangedType
  <2>5. tasks[t].at = "running"
    BY <1>9 DEF Exit
  <2>6. \A u \in Task : Goes(u)
    BY <2>2, <2>4, <2>5
  <2>7. /\ handles' = handles /\ reload' = reload /\ socket' = socket /\ cache' = cache
        /\ cleanups' = cleanups /\ lock' = lock /\ callers' = callers /\ faults' = faults
    BY <1>9 DEF Exit
  <2> QED
    BY <2>4, <2>6, <2>7
<1>10. CASE Restart(t)
  BY <1>0, <1>10 DEF Restart, TaskRecord
<1>11. CASE Stop(t)
  <2>1. /\ tasks[t].at \notin {"free", "done"}
        /\ tasks' = [tasks EXCEPT ![t] = Left(tasks[t], "done")]
    BY <1>11 DEF Stop
  <2>2. tasks' \in [Task -> TaskRecord] /\ \A u \in Task : Goes(u)
    BY <2>1, TaskEnds
  <2> QED
    BY <1>11, <2>2 DEF Stop
<1> QED
  BY <1>1, <1>2, <1>3, <1>4, <1>5, <1>6, <1>7, <1>8, <1>9, <1>10, <1>11, <1>12, <1>13
     DEF Instance

\* Steps at whose end every task has its interface and cancellation, no task has come
\* back and the loop and its table are as before keep the invariant.
LEMMA Quiet ==
    ASSUME TypeOK, TypeOK', Loneliness, handles' = handles, reload' = reload,
           \A u \in Task : Goes(u)
    PROVE  Loneliness'
<1>1. Handled'
  BY DEF Loneliness, Handled, Goes, TypeOK
<1>2. Awaited'
  BY DEF Loneliness, Awaited, Goes, TypeOK
<1>3. Owned'
  BY DEF Loneliness, Owned, Goes, TypeOK
<1>4. AwaitsATask'
  BY DEF Loneliness, AwaitsATask
<1> QED
  BY <1>1, <1>2, <1>3, <1>4 DEF Loneliness

\* A peer is set or removed, in a cli that is there or not.
LEMMA PeersStep ==
    ASSUME TypeOK, NEW u, NEW k, NEW e \in Endpoints \cup {Nothing},
           tasks' = [tasks EXCEPT ![u].peers[k] = e]
    PROVE  /\ tasks' \in [Task -> TaskRecord]
           /\ \A t \in Task : Goes(t)
<1>1. CASE u \in Task
  <2> DEFINE r == tasks[u]
             x == [r EXCEPT !.peers[k] = e]
  <2>1. r \in TaskRecord
    BY <1>1 DEF TypeOK
  <2>2. [r.peers EXCEPT ![k] = e] \in [Neighbours -> Endpoints \cup {Nothing}]
    BY <2>1 DEF TaskRecord
  <2>3. x = [r EXCEPT !.peers = [r.peers EXCEPT ![k] = e]]
    BY <2>1 DEF TaskRecord
  <2>4. tasks' = [tasks EXCEPT ![u] = x]
    BY <1>1 DEF TypeOK
  <2> HIDE DEF r
  <2>5. x \in TaskRecord /\ x.at = r.at /\ x.iface = r.iface /\ x.cancelled = r.cancelled
    BY <2>1, <2>2, <2>3 DEF TaskRecord
  <2> HIDE DEF x
  <2>6. tasks \in [Task -> TaskRecord] /\ r = tasks[u]
    BY DEF TypeOK, r
  <2>7. /\ tasks' \in [Task -> TaskRecord]
        /\ \A t \in Task :
             /\ tasks'[t].iface = tasks[t].iface /\ tasks'[t].cancelled = tasks[t].cancelled
             /\ tasks'[t].at = tasks[t].at
    BY <1>1, <2>4, <2>5, <2>6, ChangedType
  <2> QED
    BY <2>7 DEF Goes, Present
<1>2. CASE u \notin Task
  <2>1. tasks' = tasks
    BY <1>2 DEF TypeOK
  <2> QED
    BY <2>1 DEF TypeOK, Goes, Present
<1> QED
  BY <1>1, <1>2

\* Calls of configure_peer touch the peers of a cli and nothing else of a task.
LEMMA CallStep ==
    ASSUME TypeOK, NEW c \in Callers, ConfigurePeer(c)
    PROVE  /\ TypeOK'
           /\ handles' = handles /\ reload' = reload
           /\ \A u \in Task : Goes(u)
<1>0. callers[c] \in CallRecord
  BY DEF TypeOK
<1>1. CASE \E i \in Interfaces, k \in Neighbours, e \in Endpoints : Call(c, i, k, e)
  BY <1>1 DEF Call, Unchanged, TypeOK, Goes, Present, CallRecord
<1>2. CASE Enter(c)
  <2>1. Idle \in CallRecord
    BY DEF Idle, CallRecord
  <2>2. callers' = [callers EXCEPT ![c] = Idle] \/ callers' = [callers EXCEPT ![c].at = "removing"]
    BY <1>2 DEF Enter
  <2>3. callers' \in [Callers -> CallRecord]
    <3>1. CASE callers' = [callers EXCEPT ![c] = Idle]
      BY <2>1, <3>1 DEF TypeOK
    <3>2. CASE callers' = [callers EXCEPT ![c].at = "removing"]
      BY <1>0, <3>2 DEF TypeOK, CallRecord
    <3> QED
      BY <2>2, <3>1, <3>2
  <2>4. lock' \in {lock, c}
    BY <1>2 DEF Enter
  <2>5. /\ handles' = handles /\ reload' = reload /\ socket' = socket /\ cache' = cache
        /\ cleanups' = cleanups /\ tasks' = tasks /\ faults' = faults
    BY <1>2 DEF Enter, Unchanged
  <2> QED
    BY <2>3, <2>4, <2>5 DEF TypeOK, Goes, Present
<1>3. CASE RemovePeer(c)
  <2> DEFINE u == Reached(callers[c].iface)
  <2>1. /\ handles' = handles /\ reload' = reload /\ socket' = socket /\ cache' = cache
        /\ cleanups' = cleanups /\ lock' = lock /\ faults' = faults
    BY <1>3 DEF RemovePeer, Unchanged
  <2>2. tasks' = tasks \/ tasks' = [tasks EXCEPT ![u].peers[callers[c].key] = Nothing]
    BY <1>3 DEF RemovePeer
  <2> HIDE DEF u
  <2>3. tasks' \in [Task -> TaskRecord] /\ \A t \in Task : Goes(t)
    <3>1. CASE tasks' = tasks
      BY <3>1 DEF TypeOK, Goes, Present
    <3> QED
      BY <2>2, <3>1, PeersStep
  <2>4. callers' = [callers EXCEPT ![c].at = "adding"]
    BY <1>3 DEF RemovePeer
  <2> QED
    BY <1>0, <2>1, <2>3, <2>4 DEF TypeOK, CallRecord
<1>4. CASE AddPeer(c)
  <2> DEFINE u == Reached(callers[c].iface)
  <2>1. /\ handles' = handles /\ reload' = reload /\ socket' = socket /\ cache' = cache
        /\ cleanups' = cleanups /\ lock' = lock /\ faults' = faults
    BY <1>4 DEF AddPeer, Unchanged
  <2>2. \/ tasks' = tasks
        \/ tasks' = [tasks EXCEPT ![u].peers[callers[c].key] = callers[c].endpoint]
    BY <1>4 DEF AddPeer
  <2> HIDE DEF u
  <2>3. tasks' \in [Task -> TaskRecord] /\ \A t \in Task : Goes(t)
    <3>1. CASE tasks' = tasks
      BY <3>1 DEF TypeOK, Goes, Present
    <3> QED
      BY <1>0, <2>2, <3>1, PeersStep DEF CallRecord
  <2>4. PICK a \in Task \cup {NoTask} :
          callers' = [callers EXCEPT ![c].at = "inserting", ![c].added = a]
    BY <1>4 DEF AddPeer
  <2> QED
    BY <1>0, <2>1, <2>3, <2>4 DEF TypeOK, CallRecord
<1>5. CASE AddFails(c)
  BY <1>0, <1>5 DEF AddFails, Unchanged, Idle, TypeOK, Goes, Present, CallRecord
<1>6. CASE Insert(c)
  BY <1>0, <1>6 DEF Insert, Unchanged, Idle, TypeOK, Goes, Present, CallRecord
<1>7. CASE Drop(c)
  BY <1>0, <1>7 DEF Drop, Unchanged, Idle, TypeOK, Goes, Present, CallRecord
<1> QED
  BY <1>1, <1>2, <1>3, <1>4, <1>5, <1>6, <1>7 DEF ConfigurePeer

\* A task is started: it is the one of its interface, which has no other that is not
\* removed.
LEMMA SpawnStep ==
    ASSUME IInv, NEW i \in Interfaces, Spawn(i), UNCHANGED <<socket, lock, callers, faults>>,
           cleanups' = cleanups, cache' = cache,
           reload.at \in {i, "loop"},
           \A t \in Task :
                Present(t) /\ tasks[t].iface = i => tasks[t].cancelled = "removed"
    PROVE  IInv'
<1>1. PICK t \in Task :
        /\ tasks[t].at = "free"
        /\ tasks' = [tasks EXCEPT ![t] = NewTask(i, reload.wanted[i])]
        /\ handles' = [handles EXCEPT ![i] = t]
  BY DEF Spawn, Spare
<1>2. reload' = [reload EXCEPT !.at = "loop", !.todo = reload.todo \ {i}]
  BY DEF Spawn
<1>3. /\ tasks \in [Task -> TaskRecord] /\ handles \in [Interfaces -> Task \cup {NoTask}]
      /\ reload \in LoopRecord
  BY DEF IInv, TypeOK
<1>4. reload.wanted[i] \in Contents \cup {Nothing}
  BY <1>3 DEF LoopRecord
<1> DEFINE n == NewTask(i, reload.wanted[i])
<1>5. n \in TaskRecord /\ n.at = "begin" /\ n.iface = i /\ n.cancelled = "no"
  BY <1>4, NewTaskType
<1> HIDE DEF n
<1>6. /\ tasks' = [tasks EXCEPT ![t] = n]
      /\ tasks' \in [Task -> TaskRecord] /\ tasks'[t] = n
      /\ \A u \in Task \ {t} : tasks'[u] = tasks[u]
  BY <1>1, <1>3, <1>5 DEF n
<1>7. /\ reload'.at = "loop" /\ reload.at \in {i, "loop"}
      /\ reload' \in LoopRecord
  BY <1>2, <1>3 DEF LoopRecord
<1>8. "loop" \notin Interfaces /\ NoTask \notin Task
  BY InstancesAssumption, Constants
<1>9. /\ handles' \in [Interfaces -> Task \cup {NoTask}] /\ handles'[i] = t
      /\ \A j \in Interfaces \ {i} : handles'[j] = handles[j]
  BY <1>1, <1>3
<1>10. TypeOK'
  BY <1>6, <1>7, <1>9 DEF IInv, TypeOK
<1>11. \A u \in Task \ {t} :
          Present(u)' => /\ Present(u) /\ tasks'[u] = tasks[u]
                         /\ tasks[u].iface \in Interfaces
  BY <1>3, <1>6 DEF Present, TaskRecord
<1>12. Handled'
  <2> SUFFICES ASSUME NEW u \in Task, Present(u)', tasks'[u].cancelled = "no"
               PROVE  handles'[tasks'[u].iface] = u
    BY DEF Handled
  <2>1. CASE u = t
    BY <1>5, <1>6, <1>9, <2>1
  <2>2. CASE u # t
    BY <1>9, <1>11, <2>2 DEF IInv, Loneliness, Handled
  <2> QED
    BY <2>1, <2>2
<1>13. Awaited'
  <2> SUFFICES ASSUME NEW u \in Task, Present(u)', tasks'[u].cancelled = "replaced"
               PROVE  FALSE
    BY DEF Awaited
  <2>1. u # t
    BY <1>5, <1>6
  <2>2. reload.at = tasks[u].iface
    BY <1>11, <2>1 DEF IInv, Loneliness, Awaited
  <2> QED
    BY <1>7, <1>8, <1>11, <2>1, <2>2
<1>14. Owned'
  <2> SUFFICES ASSUME NEW j \in Interfaces, handles'[j] # NoTask
               PROVE  tasks'[handles'[j]].iface = j /\ tasks'[handles'[j]].at # "free"
    BY DEF Owned
  <2>1. CASE j = i
    BY <1>5, <1>6, <1>9, <2>1
  <2>2. CASE j # i
    <3>1. handles[j] \in Task /\ tasks[handles[j]].iface = j /\ tasks[handles[j]].at # "free"
      BY <1>3, <1>9, <2>2 DEF IInv, Loneliness, Owned
    <3> QED
      BY <1>1, <1>6, <1>9, <2>2, <3>1
  <2> QED
    BY <2>1, <2>2
<1>15. AwaitsATask'
  BY <1>7, <1>8 DEF AwaitsATask
<1> QED
  BY <1>10, <1>12, <1>13, <1>14, <1>15 DEF IInv, Loneliness

\* The loop of the reload, the clean-ups and the calls keep the invariant.
LEMMA ReloadStep ==
    ASSUME IInv, Reload
    PROVE  IInv'
<1>0. /\ tasks \in [Task -> TaskRecord] /\ handles \in [Interfaces -> Task \cup {NoTask}]
      /\ reload \in LoopRecord
      /\ "idle" \notin Interfaces /\ "loop" \notin Interfaces /\ NoTask \notin Task
  BY InstancesAssumption, Constants DEF IInv, TypeOK
<1>1. ASSUME NEW files \in [Interfaces -> Contents \cup {Nothing}], NEW p \in BOOLEAN,
             Load(files, p)
      PROVE  IInv'
  <2>1. /\ tasks' = tasks /\ handles' = handles /\ socket' = socket
        /\ cleanups' = cleanups /\ cache' = cache /\ lock' = lock /\ faults' = faults
        /\ reload.at = "idle" /\ reload'.at = "loop"
    BY <1>1 DEF Load
  <2>2. reload' \in LoopRecord
    BY <1>0, <1>1 DEF Load, LoopRecord
  <2>3. callers' \in [Callers -> CallRecord]
    <3>1. callers' = [c \in Callers |->
                        IF p /\ c \notin Connections /\ callers[c].at # "idle"
                        THEN [callers[c] EXCEPT !.dropped = TRUE] ELSE callers[c]]
      BY <1>1 DEF Load
    <3>2. \A c \in Callers : /\ callers[c] \in CallRecord
                              /\ [callers[c] EXCEPT !.dropped = TRUE] \in CallRecord
      BY ZenonT(40) DEF IInv, TypeOK, CallRecord
    <3> QED
      BY <3>1, <3>2
  <2>4. TypeOK'
    BY <2>1, <2>2, <2>3 DEF IInv, TypeOK
  <2>5. \A t \in Task : tasks[t].iface \in Interfaces
    BY <1>0 DEF TaskRecord
  <2>6. Handled' /\ Awaited' /\ Owned' /\ AwaitsATask'
    BY <1>0, <2>1, <2>5
    DEF IInv, Loneliness, Handled, Awaited, Owned, AwaitsATask, Present
  <2> QED
    BY <2>4, <2>6 DEF IInv, Loneliness
<1>2. ASSUME NEW i \in Interfaces, KeepOld(i)
      PROVE  IInv'
  <2>1. /\ tasks' = tasks /\ handles' = handles /\ socket' = socket
        /\ cleanups' = cleanups /\ cache' = cache /\ lock' = lock
        /\ callers' = callers /\ faults' = faults
    BY <1>2 DEF KeepOld
  <2>2. /\ reload'.at = reload.at
        /\ reload' \in LoopRecord
    BY <1>0, <1>2 DEF KeepOld, LoopRecord
  <2>3. TypeOK'
    BY <2>1, <2>2 DEF IInv, TypeOK
  <2> QED
    BY <2>1, <2>2, <2>3
    DEF IInv, Loneliness, Handled, Awaited, Owned, AwaitsATask, Present
<1>3. ASSUME NEW i \in Interfaces, StartNew(i)
      PROVE  IInv'
  <2>1. /\ Spawn(i) /\ reload.at = "loop" /\ handles[i] = NoTask
        /\ UNCHANGED <<socket, lock, callers, faults>> /\ cleanups' = cleanups /\ cache' = cache
    BY <1>3 DEF StartNew, Todo
  <2>2. \A t \in Task :
          Present(t) /\ tasks[t].iface = i => tasks[t].cancelled = "removed"
    BY <1>0, <2>1 DEF IInv, Loneliness, Handled, Awaited, TaskRecord
  <2> QED
    BY <2>1, <2>2, SpawnStep
<1>4. ASSUME NEW i \in Interfaces, CancelOld(i)
      PROVE  IInv'
  <2> DEFINE h == handles[i]
             r == [tasks[h] EXCEPT !.cancelled = "replaced"]
  <2>1. /\ reload.at = "loop" /\ h # NoTask
        /\ handles' = handles /\ socket' = socket
        /\ cleanups' = cleanups /\ cache' = cache /\ lock' = lock
        /\ callers' = callers /\ faults' = faults
    BY <1>4 DEF CancelOld, Todo
  <2>2. h \in Task /\ tasks[h] \in TaskRecord /\ tasks[h].iface = i /\ tasks[h].at # "free"
    BY <1>0, <2>1 DEF IInv, Loneliness, Owned
  <2>3. tasks' = [tasks EXCEPT ![h] = r]
    BY <1>0, <1>4, <2>2 DEF CancelOld
  <2>4. reload' = [reload EXCEPT !.at = i]
    BY <1>4 DEF CancelOld
  <2>5. /\ reload'.at = i
        /\ reload' \in LoopRecord
    BY <1>0, <2>4 DEF LoopRecord
  <2>6. /\ r \in TaskRecord /\ r.at = tasks[h].at /\ r.iface = i
        /\ r.cancelled = "replaced"
    BY <2>2 DEF TaskRecord
  <2>7. h = handles[i]
    OBVIOUS
  <2> HIDE DEF h, r
  <2>8. /\ tasks' \in [Task -> TaskRecord] /\ tasks'[h] = r
        /\ \A u \in Task \ {h} : tasks'[u] = tasks[u]
    BY <1>0, <2>2, <2>3, <2>6
  <2>9. TypeOK'
    BY <2>1, <2>5, <2>8 DEF IInv, TypeOK
  <2>10. Handled'
    BY <2>1, <2>2, <2>6, <2>8 DEF IInv, Loneliness, Handled, Present
  <2>11. \A u \in Task : Present(u) => tasks[u].cancelled # "replaced"
    BY <1>0, <2>1 DEF IInv, Loneliness, Awaited, TaskRecord
  <2>12. Awaited'
    BY <2>1, <2>2, <2>5, <2>6, <2>7, <2>8, <2>11 DEF Awaited, Present
  <2>13. Owned'
    BY <1>0, <2>1, <2>2, <2>6, <2>8 DEF IInv, Loneliness, Owned
  <2>14. AwaitsATask'
    BY <2>1, <2>5, <2>7 DEF AwaitsATask
  <2> QED
    BY <2>9, <2>10, <2>12, <2>13, <2>14 DEF IInv, Loneliness
<1>5. ASSUME NEW i \in Interfaces, AwaitOld(i)
      PROVE  IInv'
  <2>1. /\ Spawn(i) /\ reload.at = i /\ tasks[handles[i]].at = "done"
        /\ UNCHANGED <<socket, lock, callers, faults>> /\ cleanups' = cleanups /\ cache' = cache
    BY <1>5 DEF AwaitOld
  <2>2. \A t \in Task :
          Present(t) /\ tasks[t].iface = i => tasks[t].cancelled = "removed"
    BY <1>0, <2>1 DEF IInv, Loneliness, Handled, Awaited, Present, TaskRecord
  <2> QED
    BY <2>1, <2>2, SpawnStep
<1>6. CASE RemoveOthers
  <2> DEFINE gone == {i \in Interfaces : reload.wanted[i] = Nothing /\ handles[i] # NoTask}
             old == {handles[i] : i \in gone}
  <2>1. /\ reload.at = "loop"
        /\ tasks' = [t \in Task |-> IF t \in old
                                    THEN [tasks[t] EXCEPT !.cancelled = "removed"]
                                    ELSE tasks[t]]
        /\ handles' = [i \in Interfaces |-> IF i \in gone THEN NoTask ELSE handles[i]]
        /\ cleanups' = cleanups \cup gone
        /\ reload' = [reload EXCEPT !.at = "idle"]
        /\ socket' = socket /\ cache' = cache /\ lock' = lock
        /\ callers' = callers /\ faults' = faults
    BY <1>6 DEF RemoveOthers
  <2>2. \A t \in Task : t \in old <=> \E i \in gone : handles[i] = t
    OBVIOUS
  <2>3. gone \subseteq Interfaces
    OBVIOUS
  <2> HIDE DEF gone, old
  <2>4. \A t \in Task :
          LET r == [tasks[t] EXCEPT !.cancelled = "removed"]
          IN  /\ r \in TaskRecord /\ r.at = tasks[t].at /\ r.iface = tasks[t].iface
              /\ r.cancelled = "removed"
    <3> SUFFICES ASSUME NEW t \in Task
                 PROVE  LET r == [tasks[t] EXCEPT !.cancelled = "removed"]
                        IN  /\ r \in TaskRecord /\ r.at = tasks[t].at
                            /\ r.iface = tasks[t].iface /\ r.cancelled = "removed"
      OBVIOUS
    <3>1. tasks[t] \in TaskRecord
      BY <1>0
    <3> QED
      BY <3>1 DEF TaskRecord
  <2>5. /\ tasks' \in [Task -> TaskRecord]
        /\ \A t \in Task :
             /\ tasks'[t].at = tasks[t].at /\ tasks'[t].iface = tasks[t].iface
             /\ tasks'[t].cancelled = IF t \in old THEN "removed" ELSE tasks[t].cancelled
    BY <1>0, <2>1, <2>4
  <2>6. /\ handles' \in [Interfaces -> Task \cup {NoTask}]
        /\ \A i \in Interfaces : handles'[i] = IF i \in gone THEN NoTask ELSE handles[i]
    BY <1>0, <2>1
  <2>7. /\ reload'.at = "idle"
        /\ reload' \in LoopRecord
    BY <1>0, <2>1 DEF LoopRecord
  <2>8. TypeOK'
    BY <2>1, <2>3, <2>5, <2>6, <2>7 DEF IInv, TypeOK
  <2>9. \A t \in Task : tasks[t].iface \in Interfaces
    BY <1>0 DEF TaskRecord
  <2>10. Handled'
    <3> SUFFICES ASSUME NEW t \in Task, Present(t)', tasks'[t].cancelled = "no"
                 PROVE  handles'[tasks'[t].iface] = t
      BY DEF Handled
    <3>1. t \notin old /\ tasks[t].cancelled = "no" /\ Present(t)
      BY <2>5 DEF Present
    <3>2. handles[tasks[t].iface] = t
      BY <3>1 DEF IInv, Loneliness, Handled
    <3> QED
      BY <2>2, <2>5, <2>6, <2>9, <3>1, <3>2
  <2>11. Awaited'
    <3> SUFFICES ASSUME NEW t \in Task, Present(t)', tasks'[t].cancelled = "replaced"
                 PROVE  FALSE
      BY DEF Awaited
    <3>1. tasks[t].cancelled = "replaced" /\ Present(t)
      BY <2>5 DEF Present
    <3>2. reload.at = tasks[t].iface
      BY <3>1 DEF IInv, Loneliness, Awaited
    <3> QED
      BY <1>0, <2>1, <2>9, <3>2
  <2>12. Owned'
    BY <1>0, <2>5, <2>6 DEF IInv, Loneliness, Owned
  <2>13. AwaitsATask'
    BY <1>0, <2>7 DEF AwaitsATask
  <2> QED
    BY <2>8, <2>10, <2>11, <2>12, <2>13 DEF IInv, Loneliness
<1> QED
  BY <1>1, <1>2, <1>3, <1>4, <1>5, <1>6 DEF Reload

-----------------------------------------------------------------------------
(* The theorems.                                                           *)

\* The first start is a reload that finds nothing.
LEMMA Start == Init => IInv
<1> SUFFICES ASSUME Init PROVE IInv
  OBVIOUS
<1>0. "loop" \notin Interfaces /\ "idle" \notin Interfaces /\ NoTask \notin Task
  BY InstancesAssumption, Constants
<1>1. tasks \in [Task -> TaskRecord] /\ \A t \in Task : tasks[t].at = "free"
  BY Constants DEF Init
<1>2. PICK files \in [Interfaces -> Contents \cup {Nothing}] :
        reload = [at |-> "loop", wanted |-> files, count |-> 0,
                  todo |-> {i \in Interfaces : files[i] # Nothing}]
  BY DEF Init
<1>3. reload \in LoopRecord
  BY <1>2 DEF LoopRecord
<1>4. callers \in [Callers -> CallRecord]
  BY DEF Init, Idle, CallRecord
<1>5. /\ handles \in [Interfaces -> Task \cup {NoTask}]
      /\ socket \in [Interfaces -> Task \cup {NoTask}]
      /\ cleanups \subseteq Interfaces /\ lock \in {Free} \cup Task \cup Callers
      /\ faults \in Nat
  BY DEF Init
<1>6. cache \in [Interfaces -> [Neighbours -> Endpoints \cup {Nothing}]]
  BY Constants DEF Init
<1>7. TypeOK
  BY <1>1, <1>3, <1>4, <1>5, <1>6 DEF TypeOK
<1>8. Loneliness
  BY <1>0, <1>1, <1>2 DEF Init, Loneliness, Handled, Awaited, Owned, AwaitsATask, Present
<1> QED
  BY <1>7, <1>8 DEF IInv

\* Every step keeps the invariant.
LEMMA Step == IInv /\ [Next]_vars => IInv'
<1> SUFFICES ASSUME IInv, [Next]_vars PROVE IInv'
  OBVIOUS
<1>1. ASSUME NEW t \in Task, Instance(t) PROVE IInv'
  BY <1>1, InstanceStep, Quiet DEF IInv
<1>2. CASE Reload
  BY <1>2, ReloadStep
<1>3. ASSUME NEW i \in Interfaces, RunCleanup(i) PROVE IInv'
  <2>1. /\ tasks' = tasks /\ handles' = handles /\ socket' = socket /\ reload' = reload
        /\ cleanups' \subseteq cleanups /\ lock' = lock /\ callers' = callers
        /\ faults' = faults /\ cache' = Cleaned(i)
    BY <1>3 DEF RunCleanup
  <2>2. TypeOK'
    BY <2>1, CleanedType DEF IInv, TypeOK
  <2> QED
    BY <2>1, <2>2 DEF IInv, Loneliness, Handled, Awaited, Owned, AwaitsATask, Present
<1>4. ASSUME NEW c \in Callers, ConfigurePeer(c) PROVE IInv'
  BY <1>4, CallStep, Quiet DEF IInv
<1>5. CASE UNCHANGED vars
  BY <1>5 DEF vars, IInv, TypeOK, Loneliness, Handled, Awaited, Owned, AwaitsATask, Present
<1> QED
  BY <1>1, <1>2, <1>3, <1>4, <1>5 DEF Next

\* The tasks that active_instances knows, and the reload's progress, are as IInv says
\* in every reachable state.
THEOREM Invariance == Spec => []IInv
BY Start, Step, PTL DEF Spec

\* The variables of the control plane keep their types (TypeOK).
THEOREM TypeCorrect == Spec => []TypeOK
<1>1. IInv => TypeOK
  BY DEF IInv
<1> QED
  BY <1>1, Invariance, PTL

\* However many reloads, cancellations and ends of processes there are, no two tasks
\* keep a cli for one interface unless one of them was removed (OneInstance,
\* main.rs:599).
THEOREM NeverTwo == Spec => []OneInstance
<1>1. IInv => OneInstance
  <2> SUFFICES ASSUME IInv, NEW t \in Task, NEW u \in Task, t # u,
                      Present(t), Present(u), tasks[t].iface = tasks[u].iface,
                      tasks[t].cancelled # "removed", tasks[u].cancelled # "removed"
               PROVE  FALSE
    BY DEF OneInstance
  <2>1. \A v \in Task : tasks[v].cancelled \in {"no", "replaced", "removed"}
    BY DEF IInv, TypeOK, TaskRecord
  <2>2. handles[tasks[t].iface] = t /\ handles[tasks[u].iface] = u
    BY <2>1 DEF IInv, Loneliness, Handled, Awaited
  <2> QED
    BY <2>2
<1> QED
  BY <1>1, Invariance, PTL

-----------------------------------------------------------------------------
(* The peers of the clis and the cache: who may make Stale true.            *)

\* The socket of an interface belongs to a task of that interface.
SocketsNamed ==
    \A i \in Interfaces :
        socket[i] # NoTask =>
            tasks[socket[i]].iface = i /\ tasks[socket[i]].at # "free"

\* A cli belongs to a task that was started, and has no peers when it begins.
ClisBegin ==
    \A t \in Task :
        /\ tasks[t].cli \in {"starting", "up"} => tasks[t].at # "free"
        /\ tasks[t].cli = "starting" => tasks[t].peers = NoPeers

\* CONFIG_MUTEX is held by the one who works under it.
Configures(c) == callers[c].at \in {"removing", "adding", "inserting"}

LockHeld ==
    /\ \A t \in Task : tasks[t].at = "keying" => lock = t
    /\ \A c \in Callers : Configures(c) => lock = c

\* A call is about an interface, a peer and where the peer is.
Called ==
    \A c \in Callers :
        callers[c].at # "idle" =>
            /\ callers[c].iface \in Interfaces /\ callers[c].key \in Neighbours
            /\ callers[c].endpoint \in Endpoints

\* The cli that a call is to add its peer to does not have it, be it the one the
\* peer was removed from or one that came up afterwards.
PeerRemoved ==
    \A c \in Callers :
        LET u == Reached(callers[c].iface) IN
        callers[c].at = "adding" /\ u # NoTask => tasks[u].peers[callers[c].key] = Nothing

\* A call removes no peer that the cache has where the call has it.
Elsewhere ==
    \A c \in Callers :
        LET d == callers[c] IN
        d.at = "removing" => cache[d.iface][d.key] # d.endpoint

\* What a call has added is there until the cli ends.
Taken ==
    \A c \in Callers :
        LET t == callers[c].added IN
        callers[c].at = "inserting" /\ t # NoTask =>
            /\ t \in Task /\ tasks[t].at # "free"
            /\ tasks[t].cli # "dead" => tasks[t].peers[callers[c].key] = callers[c].endpoint

PeerInv ==
    SocketsNamed /\ ClisBegin /\ LockHeld /\ Called /\ PeerRemoved /\ Elsewhere /\ Taken

\* What most steps leave of a task: its cli and its peers, or no cli.
Keeps(t) ==
    /\ tasks'[t].iface = tasks[t].iface
    /\ tasks[t].at # "free" => tasks'[t].at # "free"
    /\ \/ tasks'[t].peers = tasks[t].peers /\ tasks'[t].cli = tasks[t].cli
       \/ tasks'[t].cli = "dead"

CliKept(t) ==
    \/ tasks'[t].peers = tasks[t].peers /\ tasks'[t].cli = tasks[t].cli
    \/ tasks'[t].cli = "dead"

\* The start of run_instance, whose cli has been given nothing yet.
Begun(t) ==
    /\ tasks'[t].iface = tasks[t].iface
    /\ tasks'[t].peers = NoPeers
    /\ tasks'[t].cli = "starting"
    /\ tasks'[t].at # "free"
    /\ \A c \in Callers : callers'[c].added # t

\* A call is about what it was about.
SameCall(c) ==
    /\ callers'[c].at = callers[c].at
    /\ callers'[c].iface = callers[c].iface /\ callers'[c].key = callers[c].key
    /\ callers'[c].endpoint = callers[c].endpoint
    /\ callers'[c].added \in {callers[c].added, NoTask}

\* No call gets to where it adds or enters its peer, ...
StillAdding(c) == callers'[c].at \in {"adding", "inserting"} => SameCall(c)

\* ... and none to where it removes it.
StillRemoving(c) == callers'[c].at = "removing" => SameCall(c)

\* The task that the socket leads to.
LEMMA ReachedIs ==
    ASSUME TypeOK, SocketsNamed, NEW i \in Interfaces, Reached(i) # NoTask
    PROVE  /\ Reached(i) \in Task /\ Reached(i) = socket[i]
           /\ tasks[Reached(i)].cli = "up" /\ tasks[Reached(i)].iface = i
BY DEF Reached, TypeOK, SocketsNamed

\* Where no cli comes up and none gets a peer, all but the lock is as it was.
LEMMA PeersKept ==
    ASSUME TypeOK, TypeOK', PeerInv, socket' = socket,
           \A t \in Task : Keeps(t) \/ Begun(t),
           \A c \in Callers : StillAdding(c)
    PROVE  SocketsNamed' /\ ClisBegin' /\ PeerRemoved' /\ Taken'
<1>1. SocketsNamed'
  <2> SUFFICES ASSUME NEW i \in Interfaces, socket[i] # NoTask
               PROVE  tasks'[socket[i]].iface = i /\ tasks'[socket[i]].at # "free"
    BY Zenon DEF SocketsNamed
  <2>1. PICK u \in Task : u = socket[i]
    BY DEF TypeOK
  <2>2. tasks[u].iface = i /\ tasks[u].at # "free"
    BY <2>1 DEF PeerInv, SocketsNamed
  <2>3. Keeps(u) \/ Begun(u)
    OBVIOUS
  <2> QED
    BY <2>1, <2>2, <2>3 DEF Keeps, Begun
<1>2. ClisBegin'
  BY DEF PeerInv, ClisBegin, Keeps, Begun, Goes
<1>3. PeerRemoved'
  <2> SUFFICES ASSUME NEW c \in Callers, callers'[c].at = "adding",
                      Reached(callers[c].iface)' # NoTask
               PROVE  tasks'[Reached(callers[c].iface)'].peers[callers'[c].key] = Nothing
    BY Zenon DEF PeerRemoved
  <2> DEFINE i == callers[c].iface
             u == socket[i]
  <2>1. /\ i \in Interfaces /\ callers[c].at = "adding"
        /\ callers'[c].iface = i /\ callers'[c].key = callers[c].key
    <3>1. StillAdding(c)
      OBVIOUS
    <3> QED
      BY <3>1 DEF StillAdding, SameCall, PeerInv, Called
  <2>2. u \in Task /\ tasks'[u].cli = "up" /\ Reached(callers[c].iface)' = u
    <3>1. u \in Task \cup {NoTask}
      BY <2>1 DEF TypeOK
    <3> QED
      BY <2>1, <3>1 DEF Reached
  <2>3. Keeps(u) /\ tasks[u].cli = "up"
    BY <2>2 DEF Keeps, Begun
  <2>4. Reached(i) = u /\ u # NoTask
    BY <2>2, <2>3, Constants DEF Reached
  <2>5. tasks[u].peers[callers[c].key] = Nothing
    BY <2>1, <2>4 DEF PeerInv, PeerRemoved
  <2> QED
    BY <2>1, <2>2, <2>3, <2>5 DEF Keeps
<1>4. Taken'
  <2> SUFFICES ASSUME NEW c \in Callers, NEW t, t = callers'[c].added,
                      callers'[c].at = "inserting", t # NoTask
               PROVE  /\ t \in Task /\ tasks'[t].at # "free"
                      /\ tasks'[t].cli # "dead" =>
                            tasks'[t].peers[callers'[c].key] = callers'[c].endpoint
    BY Zenon DEF Taken
  <2>1. SameCall(c)
    <3>1. StillAdding(c)
      OBVIOUS
    <3> QED
      BY <3>1 DEF StillAdding
  <2>2. callers[c].at = "inserting" /\ callers[c].added = t
    BY <2>1 DEF SameCall
  <2>3. /\ t \in Task /\ tasks[t].at # "free"
        /\ tasks[t].cli # "dead" => tasks[t].peers[callers[c].key] = callers[c].endpoint
    BY <2>2 DEF PeerInv, Taken
  <2>4. Keeps(t)
    BY <2>3 DEF Begun
  <2> QED
    BY <2>1, <2>3, <2>4 DEF SameCall, Keeps
<1> QED
  BY <1>1, <1>2, <1>3, <1>4

\* Emptying the cache of an interface puts no peer where a call has it.
LEMMA ElsewhereKept ==
    ASSUME PeerInv, \A i \in Interfaces : cache'[i] \in {cache[i], NoPeers},
           \A c \in Callers : StillRemoving(c)
    PROVE  Elsewhere'
<1> SUFFICES ASSUME NEW c \in Callers, callers'[c].at = "removing"
             PROVE  cache'[callers'[c].iface][callers'[c].key] # callers'[c].endpoint
  BY DEF Elsewhere
<1>1. /\ callers[c].at = "removing" /\ callers'[c].iface = callers[c].iface
      /\ callers'[c].key = callers[c].key /\ callers'[c].endpoint = callers[c].endpoint
  <2>1. StillRemoving(c)
    OBVIOUS
  <2> QED
    BY <2>1 DEF StillRemoving, SameCall
<1>2. /\ callers[c].iface \in Interfaces /\ callers[c].key \in Neighbours
      /\ callers[c].endpoint \in Endpoints
      /\ cache[callers[c].iface][callers[c].key] # callers[c].endpoint
  BY <1>1 DEF PeerInv, Called, Elsewhere
<1>3. callers[c].endpoint # Nothing
  BY <1>2, InstancesAssumption
<1> QED
  BY <1>1, <1>2, <1>3 DEF NoPeers

\* A step makes i stale only if it gives it a cli, or fills the cache, or sets
\* peers.
Started(t) ==
    tasks[t].at \in {"locking", "keying", "setting", "running"} /\ tasks[t].cli # "dead"

LEMMA StaleKept ==
    ASSUME TypeOK, NEW i \in Interfaces,
           Stale(i)',
           handles'[i] \in {handles[i], NoTask},
           cache'[i] \in {cache[i], NoPeers},
           \A t \in Task : t = handles[i] =>
                (Started(t)' => Started(t) /\ tasks'[t].peers = tasks[t].peers)
    PROVE  Stale(i)
<1>1. handles'[i] = handles[i] /\ handles[i] \in Task
  BY DEF Stale, TypeOK
<1>2. PICK k \in Neighbours : /\ cache'[i][k] # Nothing
                              /\ tasks'[handles[i]].peers[k] # cache'[i][k]
  BY <1>1 DEF Stale, CacheTrue
<1>3. cache'[i] = cache[i]
  BY <1>2 DEF NoPeers
<1>4. Started(handles[i]) /\ tasks'[handles[i]].peers = tasks[handles[i]].peers
  <2>1. PICK t \in Task : t = handles[i]
    BY <1>1
  <2>2. Started(t)'
    BY <1>1, <2>1 DEF Stale, Started
  <2> QED
    BY <2>1, <2>2
<1>5. ~CacheTrue(i)
  BY <1>1, <1>2, <1>3, <1>4 DEF CacheTrue
<1> QED
  BY <1>1, <1>4, <1>5, Constants DEF Stale, Started

\* Where the cache says nothing, nothing in it is wrong.
LEMMA NothingStale ==
    ASSUME NEW i \in Interfaces, cache'[i] = NoPeers
    PROVE  ~Stale(i)'
BY DEF Stale, CacheTrue, NoPeers

\* What a task's step does to the invariant and to what is stale.
Innocent == PeerInv' /\ \A i \in Interfaces : Stale(i)' => Stale(i)

\* Steps that start no cli, set no peers and put nothing in the cache.
LEMMA NoCli ==
    ASSUME TypeOK, TypeOK', PeerInv, LockHeld', Called', Elsewhere', socket' = socket,
           \A i \in Interfaces : /\ handles'[i] \in {handles[i], NoTask}
                                 /\ cache'[i] \in {cache[i], NoPeers},
           \A c \in Callers : StillAdding(c),
           \A t \in Task : Keeps(t) /\ (Started(t)' => Started(t))
    PROVE  Innocent
<1>1. SocketsNamed' /\ ClisBegin' /\ PeerRemoved' /\ Taken'
  BY PeersKept
<1>2. ASSUME NEW i \in Interfaces, Stale(i)' PROVE Stale(i)
  <2>1. \A t \in Task : t = handles[i] =>
            (Started(t)' => Started(t) /\ tasks'[t].peers = tasks[t].peers)
    BY DEF Keeps, Started
  <2>2. handles'[i] \in {handles[i], NoTask} /\ cache'[i] \in {cache[i], NoPeers}
    OBVIOUS
  <2> QED
    BY <1>2, <2>1, <2>2, StaleKept
<1> QED
  BY <1>1, <1>2 DEF Innocent, PeerInv

\* Deleting an interface takes no peers from a cli that goes on.
LEMMA LinkDeletedCli ==
    ASSUME tasks \in [Task -> TaskRecord], NEW i
    PROVE  \A t \in Task :
              \/ /\ LinkDeleted(i)[t].peers = tasks[t].peers
                 /\ LinkDeleted(i)[t].cli = tasks[t].cli
              \/ LinkDeleted(i)[t].cli = "dead"
<1> SUFFICES ASSUME NEW t \in Task
             PROVE  \/ /\ LinkDeleted(i)[t].peers = tasks[t].peers
                       /\ LinkDeleted(i)[t].cli = tasks[t].cli
                    \/ LinkDeleted(i)[t].cli = "dead"
  OBVIOUS
<1>1. LinkDeleted(i)[t] \in {tasks[t], Ended(tasks[t])}
  BY DEF LinkDeleted
<1>2. Ended(tasks[t]).cli = "dead"
  BY EndedType
<1> QED
  BY <1>1, <1>2

\* The start of run_instance takes the peers from the cache as well as from the cli.
LEMMA BeginInnocent ==
    ASSUME IInv, TypeOK', PeerInv, NEW t \in Task, Begin(t), \A u \in Task : Goes(u)
    PROVE  Innocent
<1> DEFINE i == tasks[t].iface
           d == LinkDeleted(i)
<1>1. /\ tasks \in [Task -> TaskRecord] /\ i \in Interfaces
      /\ cache \in [Interfaces -> [Neighbours -> Endpoints \cup {Nothing}]]
  BY DEF IInv, TypeOK, TaskRecord
<1>2. /\ tasks' = [d EXCEPT ![t].at = "locking", ![t].cli = "starting",
                            ![t].keyed = FALSE, ![t].peers = NoPeers]
      /\ cache' = Cleaned(i) /\ callers' = Forgotten(t)
      /\ UNCHANGED <<handles, socket, lock>>
  BY DEF Begin
<1>3. /\ d \in [Task -> TaskRecord]
      /\ \A u \in Task :
            /\ d[u].at = tasks[u].at
            /\ \/ d[u].peers = tasks[u].peers /\ d[u].cli = tasks[u].cli
               \/ d[u].cli = "dead"
  BY <1>1, LinkDeletedType, LinkDeletedCli
<1> HIDE DEF d
<1>4. \A u \in Task \ {t} : tasks'[u] = d[u]
  BY <1>2, <1>3
<1>5. /\ tasks'[t].at = "locking" /\ tasks'[t].cli = "starting"
      /\ tasks'[t].peers = NoPeers
  BY <1>2, <1>3 DEF TaskRecord
<1>14. \A c \in Callers : SameCall(c) /\ callers'[c].added # t
  <2>1. callers \in [Callers -> CallRecord] /\ NoTask \notin Task
    BY Constants DEF IInv, TypeOK
  <2> QED
    BY <1>2, <2>1, ForgottenType DEF SameCall
<1>6. \A u \in Task : Keeps(u) \/ Begun(u)
  <2> SUFFICES ASSUME NEW u \in Task PROVE Keeps(u) \/ Begun(u)
    OBVIOUS
  <2>1. CASE u = t
    BY <1>5, <1>14, <2>1 DEF Begun, Goes
  <2>2. CASE u # t
    BY <1>3, <1>4, <2>2 DEF Keeps, Goes
  <2> QED
    BY <2>1, <2>2
<1>7. Called' /\ \A c \in Callers : StillAdding(c) /\ StillRemoving(c)
  BY <1>14 DEF PeerInv, Called, StillAdding, StillRemoving, SameCall
<1>8. SocketsNamed' /\ ClisBegin' /\ PeerRemoved' /\ Taken'
  BY <1>2, <1>6, <1>7, PeersKept DEF IInv
<1>15. Elsewhere'
  <2>1. \A j \in Interfaces : cache'[j] \in {cache[j], NoPeers}
    BY <1>1, <1>2 DEF Cleaned
  <2> QED
    BY <1>7, <2>1, ElsewhereKept
<1>9. LockHeld'
  BY <1>2, <1>3, <1>4, <1>5, <1>14 DEF PeerInv, LockHeld, Configures, SameCall
<1>10. ASSUME NEW j \in Interfaces, Stale(j)' PROVE Stale(j)
  <2>1. j # i
    <3>1. cache'[i] = NoPeers
      BY <1>1, <1>2 DEF Cleaned
    <3> QED
      BY <1>1, <1>10, <3>1, NothingStale
  <2>2. handles[j] \in Task => handles[j] # t
    BY <2>1, Constants DEF IInv, Loneliness, Owned
  <2>3. cache'[j] = cache[j] /\ handles'[j] = handles[j]
    BY <1>1, <1>2, <2>1 DEF Cleaned
  <2>4. \A u \in Task : u = handles[j] =>
            (Started(u)' => Started(u) /\ tasks'[u].peers = tasks[u].peers)
    BY <1>3, <1>4, <2>2, <2>3 DEF Started
  <2> QED
    BY <1>10, <2>3, <2>4, StaleKept DEF IInv
<1> QED
  BY <1>7, <1>8, <1>9, <1>10, <1>15 DEF Innocent, PeerInv

\* A cli that comes up has no peers, so it has none of those being added.
LEMMA CliUpInnocent ==
    ASSUME IInv, TypeOK', PeerInv, NEW t \in Task, CliUp(t)
    PROVE  Innocent
<1> DEFINE i == tasks[t].iface
           r == [tasks[t] EXCEPT !.cli = "up"]
<1>1. /\ tasks \in [Task -> TaskRecord] /\ tasks[t] \in TaskRecord /\ i \in Interfaces
      /\ socket \in [Interfaces -> Task \cup {NoTask}]
  BY DEF IInv, TypeOK, TaskRecord
<1>2. /\ tasks[t].cli = "starting"
      /\ tasks' = [tasks EXCEPT ![t] = r]
      /\ socket' = [socket EXCEPT ![i] = t]
      /\ UNCHANGED <<handles, cache, lock, callers>>
  BY <1>1 DEF CliUp
<1>3. /\ r.iface = i /\ r.at = tasks[t].at /\ r.cli = "up" /\ r.peers = tasks[t].peers
  BY <1>1 DEF TaskRecord
<1> HIDE DEF r
<1>4. /\ tasks'[t] = r /\ \A u \in Task \ {t} : tasks'[u] = tasks[u]
      /\ socket'[i] = t /\ \A j \in Interfaces \ {i} : socket'[j] = socket[j]
  BY <1>1, <1>2
<1>5. tasks[t].at # "free" /\ tasks[t].peers = NoPeers
  BY <1>2 DEF PeerInv, ClisBegin
<1>6. SocketsNamed'
  <2> SUFFICES ASSUME NEW j \in Interfaces, socket'[j] # NoTask
               PROVE  tasks'[socket'[j]].iface = j /\ tasks'[socket'[j]].at # "free"
    BY DEF SocketsNamed
  <2>1. CASE j = i
    BY <1>3, <1>4, <1>5, <2>1
  <2>2. CASE j # i
    BY <1>1, <1>3, <1>4, <2>2 DEF PeerInv, SocketsNamed
  <2> QED
    BY <2>1, <2>2
<1>7. ClisBegin'
  BY <1>3, <1>4, <1>5 DEF PeerInv, ClisBegin
<1>8. LockHeld'
  BY <1>2, <1>3, <1>4 DEF PeerInv, LockHeld, Configures
<1>9. Called'
  BY <1>2 DEF PeerInv, Called
<1>10. PeerRemoved'
  <2> SUFFICES ASSUME NEW c \in Callers, callers[c].at = "adding",
                      Reached(callers[c].iface)' # NoTask
               PROVE  tasks'[Reached(callers[c].iface)'].peers[callers[c].key] = Nothing
    BY <1>2 DEF PeerRemoved
  <2> DEFINE j == callers[c].iface
  <2>1. j \in Interfaces /\ callers[c].key \in Neighbours
    BY DEF PeerInv, Called
  <2>2. CASE j = i
    <3>1. Reached(j)' = t
      BY <1>1, <1>2, <1>3, <1>4, <2>2, Constants DEF Reached
    <3> QED
      BY <1>3, <1>4, <1>5, <2>1, <3>1 DEF NoPeers
  <2>3. CASE j # i
    <3>1. socket'[j] = socket[j] /\ socket[j] # t
      BY <1>4, <2>1, <2>3, Constants DEF PeerInv, SocketsNamed
    <3>2. Reached(j)' = Reached(j) /\ Reached(j) = socket[j] /\ socket[j] \in Task
      BY <1>1, <1>2, <1>4, <2>1, <3>1 DEF Reached
    <3>3. Reached(j) # NoTask /\ tasks'[socket[j]] = tasks[socket[j]]
      BY <1>4, <3>1, <3>2, Constants
    <3>4. tasks[Reached(j)].peers[callers[c].key] = Nothing
      BY <3>3 DEF PeerInv, PeerRemoved
    <3> QED
      BY <3>2, <3>3, <3>4
  <2> QED
    BY <2>2, <2>3
<1>11. ASSUME NEW j \in Interfaces, Stale(j)' PROVE Stale(j)
  <2>1. \A u \in Task : u = handles[j] =>
            (Started(u)' => Started(u) /\ tasks'[u].peers = tasks[u].peers)
    BY <1>2, <1>3, <1>4 DEF Started
  <2> QED
    BY <1>2, <1>11, <2>1, StaleKept DEF IInv
<1>12. Elsewhere'
  BY <1>2 DEF PeerInv, Elsewhere
<1>13. Taken'
  BY <1>2, <1>3, <1>4 DEF PeerInv, Taken
<1> QED
  BY <1>6, <1>7, <1>8, <1>9, <1>10, <1>11, <1>12, <1>13 DEF Innocent, PeerInv

\* No step of a task makes anything stale.
LEMMA InstanceInnocent ==
    ASSUME IInv, TypeOK', PeerInv, NEW t \in Task, Instance(t), handles' = handles,
           \A u \in Task : Goes(u)
    PROVE  Innocent
<1>0. /\ tasks \in [Task -> TaskRecord] /\ \A u \in Task : tasks[u] \in TaskRecord
      /\ lock \in {Free} \cup Task \cup Callers
      /\ \A u \in Task : u # Free
      /\ TypeOK
  BY Constants DEF IInv, TypeOK, NoTask, Free
<1>held. /\ \A u \in Task : tasks[u].at = "keying" => lock = u
      /\ \A c \in Callers : Configures(c) => lock = c /\ c \notin Task \cup {Free}
  BY CallersAssumption DEF PeerInv, LockHeld
<1>kept. ASSUME UNCHANGED <<socket, callers>>,
             \A i \in Interfaces : cache'[i] \in {cache[i], NoPeers},
             \A u \in Task : /\ CliKept(u)
                             /\ Started(u)' => Started(u)
                             /\ tasks'[u].at = "keying" => lock' = u,
             \A c \in Callers : Configures(c) => lock' = c
      PROVE  Innocent
  <2>1. \A u \in Task : Keeps(u) /\ (Started(u)' => Started(u))
    BY <1>kept DEF Keeps, CliKept, Goes
  <2>2. /\ LockHeld' /\ Called'
        /\ \A c \in Callers : StillAdding(c) /\ StillRemoving(c)
    BY <1>kept DEF LockHeld, Configures, PeerInv, Called, StillAdding, StillRemoving, SameCall
  <2>3. Elsewhere'
    BY <1>kept, <2>2, ElsewhereKept
  <2> QED
    BY <1>0, <1>kept, <2>1, <2>2, <2>3, NoCli
<1>ends. ASSUME NEW a \in {"resting", "done"}, NEW f \in [Task -> TaskRecord],
             tasks' = [f EXCEPT ![t] = Left(f[t], a)],
             \A u \in Task : /\ f[u].at = tasks[u].at /\ f[u].peers = tasks[u].peers
                             /\ f[u].cli = tasks[u].cli
         PROVE  \A u \in Task : /\ CliKept(u)
                                /\ Started(u)' => Started(u)
                                /\ tasks'[u].at = IF u = t THEN a ELSE tasks[u].at
  <2>1. \A u \in Task : /\ tasks'[u].at = IF u = t THEN a ELSE f[u].at
                        /\ IF u = t THEN tasks'[u].cli = "dead"
                                    ELSE tasks'[u].cli = f[u].cli /\ tasks'[u].peers = f[u].peers
    BY <1>ends, TaskEnds
  <2> QED
    BY <1>ends, <2>1 DEF Started, CliKept
<1>1. CASE Begin(t)
  BY <1>1, BeginInnocent
<1>2. CASE CliUp(t)
  BY <1>2, CliUpInnocent
<1>12. CASE SpawnFails(t)
  <2> DEFINE i == tasks[t].iface
             d == LinkDeleted(i)
  <2>1. d \in [Task -> TaskRecord] /\ \A u \in Task : d[u].at = tasks[u].at
    BY <1>0, LinkDeletedType
  <2>2. \A u \in Task : (d[u].peers = tasks[u].peers /\ d[u].cli = tasks[u].cli) \/ d[u].cli = "dead"
    BY <1>0, LinkDeletedCli
  <2>3. \A j \in Interfaces : cache'[j] \in {cache[j], NoPeers}
    <3>1. i \in Interfaces
      BY <1>0 DEF TaskRecord
    <3> QED
      BY <1>0, <1>12, <3>1 DEF SpawnFails, Cleaned, TypeOK
  <2> HIDE DEF d, i
  <2>4. tasks' = [d EXCEPT ![t].at = "resting"] /\ UNCHANGED <<socket, callers, lock>>
    BY <1>12 DEF SpawnFails, d, i
  <2>5. \A u \in Task : /\ tasks'[u].peers = d[u].peers /\ tasks'[u].cli = d[u].cli
                        /\ tasks'[u].at = IF u = t THEN "resting" ELSE d[u].at
    BY <2>1, <2>4 DEF TaskRecord
  <2> QED
    BY <2>1, <2>2, <2>3, <2>4, <2>5, <1>held, <1>kept DEF Started, CliKept
<1>3. CASE CliDies(t)
  <2> DEFINE r == Ended(tasks[t])
  <2>1. r.cli = "dead" /\ r.at = tasks[t].at
    BY <1>0, EndedType
  <2>2. tasks' = [tasks EXCEPT ![t] = r] /\ UNCHANGED <<socket, cache, callers, lock>>
    BY <1>3 DEF CliDies
  <2> HIDE DEF r
  <2>3. tasks'[t] = r /\ \A u \in Task \ {t} : tasks'[u] = tasks[u]
    BY <1>0, <2>2
  <2> QED
    BY <2>1, <2>2, <2>3, <1>held, <1>kept DEF Started, CliKept
<1>4. CASE TakeLock(t)
  <2>1. \A u \in Task : tasks[u].at # "keying"
    BY <1>0, <1>4, <1>held DEF TakeLock
  <2>2. \A c \in Callers : ~Configures(c)
    BY <1>4, <1>held DEF TakeLock, Free
  <2> QED
    BY <1>0, <1>4, <2>1, <2>2, <1>kept DEF TakeLock, TaskRecord, Started, CliKept
<1>5. CASE Key(t)
  <2>1. \A c \in Callers : ~Configures(c)
    BY <1>5, <1>held DEF Key
  <2>2. \A u \in Task \ {t} : tasks[u].at # "keying"
    BY <1>5, <1>held DEF Key
  <2> DEFINE u == Reached(tasks[t].iface)
             a == [tasks EXCEPT ![u].keyed = TRUE]
  <2>3. u \in Task
    BY <1>0, <1>5, ReachedType DEF Key, TaskRecord
  <2>4. tasks' = [a EXCEPT ![t].at = "setting"] /\ tasks[t].at = "keying"
    BY <1>5 DEF Key
  <2>5. /\ a \in [Task -> TaskRecord]
        /\ \A v \in Task : /\ a[v].at = tasks[v].at /\ a[v].peers = tasks[v].peers
                           /\ a[v].cli = tasks[v].cli
    <3>1. /\ a \in [Task -> TaskRecord]
          /\ \A v \in Task : a[v] = IF v = u THEN [tasks[u] EXCEPT !.keyed = TRUE]
                                            ELSE tasks[v]
      <4>1. \A x \in TaskRecord : [x EXCEPT !.keyed = TRUE] \in TaskRecord
        BY DEF TaskRecord
      <4> HIDE DEF u
      <4> QED
        BY <1>0, <2>3, <4>1
    <3>2. tasks[u] \in TaskRecord
      BY <1>0, <2>3
    <3> HIDE DEF u, a
    <3> QED
      BY <2>3, <3>1, <3>2 DEF TaskRecord
  <2> HIDE DEF u, a
  <2>6. \A v \in Task : /\ tasks'[v].peers = a[v].peers /\ tasks'[v].cli = a[v].cli
                        /\ tasks'[v].at = IF v = t THEN "setting" ELSE a[v].at
    BY <2>4, <2>5 DEF TaskRecord
  <2>7. UNCHANGED <<socket, cache, callers>>
    BY <1>5 DEF Key
  <2> QED
    BY <2>1, <2>2, <2>4, <2>5, <2>6, <2>7, <1>kept DEF Started, CliKept
<1>6. CASE KeyFails(t)
  <2>1. \A c \in Callers : ~Configures(c)
    BY <1>6, <1>held DEF KeyFails
  <2>2. \A u \in Task \ {t} : tasks[u].at # "keying"
    BY <1>6, <1>held DEF KeyFails
  <2>3. /\ tasks' = [tasks EXCEPT ![t] = Left(tasks[t], "resting")]
        /\ UNCHANGED <<socket, cache, callers>>
    BY <1>6 DEF KeyFails
  <2> QED
    BY <1>0, <2>1, <2>2, <2>3, <1>ends, <1>kept
<1>13. CASE KeyRefused(t)
  <2>1. \A c \in Callers : ~Configures(c)
    BY <1>13, <1>held DEF KeyRefused
  <2>2. \A u \in Task \ {t} : tasks[u].at # "keying"
    BY <1>13, <1>held DEF KeyRefused
  <2> DEFINE u == Reached(tasks[t].iface)
  <2>3. u \in Task
    BY <1>0, <1>13, ReachedType DEF KeyRefused, TaskRecord
  <2>4. PICK keyed \in BOOLEAN :
          LET answered == [tasks EXCEPT ![u].keyed = keyed] IN
          tasks' = [answered EXCEPT ![t] = Left(@, "resting")]
    <3>1. tasks[u].keyed \in BOOLEAN
      BY <1>0, <2>3 DEF TaskRecord
    <3> QED
      BY <1>13, <3>1 DEF KeyRefused
  <2> HIDE DEF u
  <2> DEFINE x == [tasks[u] EXCEPT !.keyed = keyed]
             f == [tasks EXCEPT ![u] = x]
  <2>5. /\ x \in TaskRecord /\ x.at = tasks[u].at
        /\ x.peers = tasks[u].peers /\ x.cli = tasks[u].cli
    BY <1>0, <2>3 DEF TaskRecord
  <2>9. f = [tasks EXCEPT ![u].keyed = keyed]
    BY <1>0, <2>3
  <2> HIDE DEF x
  <2>7. /\ f \in [Task -> TaskRecord]
        /\ \A v \in Task : /\ f[v].at = tasks[v].at /\ f[v].peers = tasks[v].peers
                           /\ f[v].cli = tasks[v].cli
    BY <1>0, <2>3, <2>5
  <2> HIDE DEF f
  <2>6. tasks' = [f EXCEPT ![t] = Left(f[t], "resting")]
    BY ONLY <2>4, <2>9
  <2>8. UNCHANGED <<socket, cache, callers>>
    BY <1>13 DEF KeyRefused
  <2> QED
    BY <2>1, <2>2, <2>6, <2>7, <2>8, <1>ends, <1>kept
<1>7. CASE SetUp(t)
  BY <1>0, <1>7, <1>held, <1>kept DEF SetUp, TaskRecord, Started, CliKept
<1>8. CASE SetUpFails(t)
  <2>1. /\ tasks' = [tasks EXCEPT ![t] = Left(tasks[t], "resting")]
        /\ UNCHANGED <<socket, cache, callers, lock>>
    BY <1>8 DEF SetUpFails
  <2> QED
    BY <1>0, <2>1, <1>held, <1>ends, <1>kept
<1>9. CASE Exit(t)
  <2> DEFINE d == LinkDeleted(tasks[t].iface)
  <2>1. d \in [Task -> TaskRecord] /\ \A u \in Task : d[u].at = tasks[u].at
    BY <1>0, LinkDeletedType
  <2>2. \A u \in Task : (d[u].peers = tasks[u].peers /\ d[u].cli = tasks[u].cli) \/ d[u].cli = "dead"
    BY <1>0, LinkDeletedCli
  <2> HIDE DEF d
  <2>3. tasks' = [d EXCEPT ![t].at = "resting"] /\ UNCHANGED <<socket, cache, callers, lock>>
    BY <1>9 DEF Exit, d
  <2> QED
    BY <2>1, <2>2, <2>3, <1>held, <1>kept DEF TaskRecord, Started, CliKept
<1>10. CASE Restart(t)
  BY <1>0, <1>10, <1>held, <1>kept DEF Restart, TaskRecord, Started, CliKept
<1>11. CASE Stop(t)
  <2>1. /\ tasks' = [tasks EXCEPT ![t] = Left(tasks[t], "done")]
        /\ UNCHANGED <<socket, cache, callers>>
        /\ lock' = IF lock = t THEN Free ELSE lock
    BY <1>11 DEF Stop
  <2>2. \A u \in Task \ {t} : tasks[u].at = "keying" => lock' = u
    BY <1>held, <2>1
  <2>3. \A c \in Callers : Configures(c) => lock' = c
    BY <1>held, <2>1
  <2> QED
    BY <1>0, <2>1, <2>2, <2>3, <1>ends, <1>kept
<1> QED
  BY <1>1, <1>2, <1>3, <1>4, <1>5, <1>6, <1>7, <1>8, <1>9, <1>10, <1>11, <1>12, <1>13
     DEF Instance

\* A task is started: it has no cli yet.
LEMMA SpawnInnocent ==
    ASSUME IInv, TypeOK', PeerInv, NEW i \in Interfaces, Spawn(i),
           UNCHANGED <<socket, lock, callers, cache>>
    PROVE  Innocent
<1>1. PICK t \in Task :
        /\ tasks[t].at = "free"
        /\ tasks' = [tasks EXCEPT ![t] = NewTask(i, reload.wanted[i])]
        /\ handles' = [handles EXCEPT ![i] = t]
  BY DEF Spawn, Spare
<1>2. /\ tasks \in [Task -> TaskRecord] /\ handles \in [Interfaces -> Task \cup {NoTask}]
      /\ socket \in [Interfaces -> Task \cup {NoTask}]
      /\ NoTask \notin Task
  BY Constants DEF IInv, TypeOK
<1> DEFINE n == NewTask(i, reload.wanted[i])
<1>3. n.at = "begin" /\ n.cli = "none"
  BY DEF NewTask
<1> HIDE DEF n
<1>4. /\ tasks'[t] = n /\ \A u \in Task \ {t} : tasks'[u] = tasks[u]
      /\ handles'[i] = t /\ \A j \in Interfaces \ {i} : handles'[j] = handles[j]
  BY <1>1, <1>2 DEF n
<1>5. \A j \in Interfaces : socket[j] # t
  BY <1>1, <1>2 DEF PeerInv, SocketsNamed
<1>6. SocketsNamed'
  BY <1>2, <1>4, <1>5 DEF PeerInv, SocketsNamed
<1>7. ClisBegin'
  BY <1>3, <1>4 DEF PeerInv, ClisBegin
<1>8. LockHeld' /\ Called'
  BY <1>3, <1>4 DEF PeerInv, LockHeld, Configures, Called
<1>9. PeerRemoved'
  <2> SUFFICES ASSUME NEW c \in Callers, callers[c].at = "adding",
                      Reached(callers[c].iface)' # NoTask
               PROVE  tasks'[Reached(callers[c].iface)'].peers[callers[c].key] = Nothing
    BY DEF PeerRemoved
  <2> DEFINE j == callers[c].iface
  <2>1. j \in Interfaces
    BY DEF PeerInv, Called
  <2>2. Reached(j)' = Reached(j) /\ Reached(j) = socket[j] /\ socket[j] \in Task
    BY <1>2, <1>4, <1>5, <2>1 DEF Reached
  <2> QED
    BY <1>4, <1>5, <2>1, <2>2, <1>2 DEF PeerInv, PeerRemoved
<1>10. ASSUME NEW j \in Interfaces, Stale(j)' PROVE Stale(j)
  <2>1. j # i
    BY <1>3, <1>4, <1>10 DEF Stale
  <2>2. handles[j] \in Task => handles[j] # t
    BY <1>1, <1>2 DEF IInv, Loneliness, Owned
  <2>3. handles'[j] = handles[j]
    BY <1>4, <2>1
  <2>4. \A u \in Task : u = handles[j] =>
            (Started(u)' => Started(u) /\ tasks'[u].peers = tasks[u].peers)
    BY <1>4, <2>2, <2>3 DEF Started
  <2> QED
    BY <1>10, <2>3, <2>4, StaleKept DEF IInv
<1>11. Elsewhere'
  BY DEF PeerInv, Elsewhere
<1>12. Taken'
  BY <1>1, <1>4 DEF PeerInv, Taken
<1> QED
  BY <1>6, <1>7, <1>8, <1>9, <1>10, <1>11, <1>12 DEF Innocent, PeerInv

\* Neither does the reload make anything stale.
LEMMA ReloadInnocent ==
    ASSUME IInv, TypeOK', PeerInv, Reload
    PROVE  Innocent
<1>0. /\ tasks \in [Task -> TaskRecord] /\ \A t \in Task : tasks[t] \in TaskRecord
      /\ TypeOK
  BY DEF IInv, TypeOK
<1>kept. ASSUME socket' = socket, cache' = cache, lock' = lock,
                \A i \in Interfaces : handles'[i] \in {handles[i], NoTask},
                \A c \in Callers : /\ callers'[c].at = callers[c].at
                                   /\ callers'[c].iface = callers[c].iface
                                   /\ callers'[c].key = callers[c].key
                                   /\ callers'[c].endpoint = callers[c].endpoint
                                   /\ callers'[c].added = callers[c].added,
                \A t \in Task : /\ tasks'[t].iface = tasks[t].iface
                                /\ tasks'[t].at = tasks[t].at
                                /\ tasks'[t].peers = tasks[t].peers
                                /\ tasks'[t].cli = tasks[t].cli
         PROVE  Innocent
  <2>1. \A t \in Task : Keeps(t) /\ (Started(t)' => Started(t))
    BY <1>kept DEF Keeps, Started
  <2>2. LockHeld'
    BY <1>kept DEF PeerInv, LockHeld, Configures
  <2>3. Called' /\ \A c \in Callers : StillAdding(c) /\ StillRemoving(c)
    BY <1>kept DEF PeerInv, Called, StillAdding, StillRemoving, SameCall
  <2>4. \A i \in Interfaces : /\ handles'[i] \in {handles[i], NoTask}
                              /\ cache'[i] \in {cache[i], NoPeers}
    BY <1>kept
  <2>5. Elsewhere'
    BY <2>3, <2>4, ElsewhereKept
  <2> QED
    BY <1>0, <1>kept, <2>1, <2>2, <2>3, <2>4, <2>5, NoCli
<1>1. ASSUME NEW files \in [Interfaces -> Contents \cup {Nothing}], NEW p \in BOOLEAN,
             Load(files, p)
      PROVE  Innocent
  <2>1. \A c \in Callers : callers'[c] \in {callers[c], [callers[c] EXCEPT !.dropped = TRUE]}
    BY <1>1 DEF Load
  <2>2. \A c \in Callers : callers[c] \in CallRecord
    BY DEF IInv, TypeOK
  <2>3. ASSUME NEW c \in Callers
        PROVE  /\ callers'[c].at = callers[c].at
               /\ callers'[c].iface = callers[c].iface
               /\ callers'[c].key = callers[c].key
               /\ callers'[c].endpoint = callers[c].endpoint
               /\ callers'[c].added = callers[c].added
    BY <2>1, <2>2 DEF CallRecord
  <2> QED
    BY <1>1, <1>kept, <2>3 DEF Load
<1>2. ASSUME NEW i \in Interfaces, KeepOld(i) PROVE Innocent
  BY <1>2, <1>kept DEF KeepOld
<1>3. ASSUME NEW i \in Interfaces, StartNew(i) PROVE Innocent
  BY <1>3, SpawnInnocent DEF StartNew
<1>4. ASSUME NEW i \in Interfaces, CancelOld(i) PROVE Innocent
  BY <1>0, <1>4, <1>kept DEF CancelOld, TaskRecord
<1>5. ASSUME NEW i \in Interfaces, AwaitOld(i) PROVE Innocent
  BY <1>5, SpawnInnocent DEF AwaitOld
<1>6. CASE RemoveOthers
  <2>1. ASSUME NEW t \in Task
        PROVE  /\ tasks'[t].iface = tasks[t].iface /\ tasks'[t].at = tasks[t].at
               /\ tasks'[t].peers = tasks[t].peers /\ tasks'[t].cli = tasks[t].cli
    <3>1. tasks'[t] \in {tasks[t], [tasks[t] EXCEPT !.cancelled = "removed"]}
      BY <1>6 DEF RemoveOthers
    <3> QED
      BY <1>0, <3>1 DEF TaskRecord
  <2>2. \A i \in Interfaces : handles'[i] \in {handles[i], NoTask}
    BY <1>6 DEF RemoveOthers
  <2>3. socket' = socket /\ cache' = cache /\ lock' = lock /\ callers' = callers
    BY <1>6 DEF RemoveOthers
  <2> QED
    BY <1>kept, <2>1, <2>2, <2>3
<1> QED
  BY <1>1, <1>2, <1>3, <1>4, <1>5, <1>6 DEF Reload

\* A peer of a cli that is up is set or removed.
SetsPeer(u, k, e) == tasks' = [tasks EXCEPT ![u].peers[k] = e]

LEMMA PeerSet ==
    ASSUME tasks \in [Task -> TaskRecord], NEW u \in Task, NEW k \in Neighbours, NEW e,
           SetsPeer(u, k, e)
    PROVE  \A t \in Task :
              /\ tasks'[t].iface = tasks[t].iface /\ tasks'[t].at = tasks[t].at
              /\ tasks'[t].cli = tasks[t].cli
              /\ t # u => tasks'[t].peers = tasks[t].peers
              /\ \A x \in Neighbours :
                    tasks'[t].peers[x] =
                        IF t = u /\ x = k THEN e ELSE tasks[t].peers[x]
<1> DEFINE r == tasks[u]
           x == [r EXCEPT !.peers[k] = e]
<1>1. tasks' = [tasks EXCEPT ![u] = x] /\ r \in TaskRecord
  BY DEF SetsPeer
<1> HIDE DEF r
<1>2. /\ x.iface = r.iface /\ x.at = r.at /\ x.cli = r.cli
      /\ x.peers = [r.peers EXCEPT ![k] = e]
  BY <1>1 DEF TaskRecord
<1>3. \A y \in Neighbours : x.peers[y] = IF y = k THEN e ELSE r.peers[y]
  BY <1>1, <1>2 DEF TaskRecord
<1> HIDE DEF x
<1>4. tasks'[u] = x /\ (\A t \in Task \ {u} : tasks'[t] = tasks[t]) /\ r = tasks[u]
  BY <1>1 DEF r
<1> QED
  BY <1>2, <1>3, <1>4

\* The one who works under CONFIG_MUTEX is alone.
LEMMA Alone ==
    ASSUME PeerInv, NEW c \in Callers, Configures(c)
    PROVE  /\ lock = c /\ \A d \in Callers \ {c} : ~Configures(d)
           /\ \A t \in Task : tasks[t].at # "keying"
BY CallersAssumption DEF PeerInv, LockHeld

\* Under CONFIG_MUTEX a call sets or removes its peer in the cli that it reaches.
LEMMA PeerChanged ==
    ASSUME IInv, TypeOK', PeerInv, NEW c \in Callers, NEW j, NEW k, NEW e, NEW u,
           j = callers[c].iface, k = callers[c].key, u = Reached(j),
           Configures(c), Configures(c)',
           tasks' = tasks \/ (u # NoTask /\ SetsPeer(u, k, e)),
           UNCHANGED <<handles, socket, cache, lock>>,
           callers'[c].iface = j, callers'[c].key = k,
           callers'[c].endpoint = callers[c].endpoint,
           callers'[c].at # "removing",
           \A d \in Callers \ {c} : callers'[d] = callers[d],
           callers'[c].at = "adding" =>
                u = NoTask \/ (e = Nothing /\ SetsPeer(u, k, e)),
           callers'[c].at = "inserting" /\ callers'[c].added # NoTask =>
                callers'[c].added = u /\ e = callers[c].endpoint /\ SetsPeer(u, k, e)
    PROVE  /\ PeerInv'
           /\ \A i \in Interfaces :
                Stale(i)' => \/ Stale(i)
                             \/ /\ i = j /\ cache[j][k] # Nothing
                                /\ ~(u # NoTask /\ tasks[u].peers[k] = Nothing)
<1>0. /\ tasks \in [Task -> TaskRecord] /\ j \in Interfaces /\ k \in Neighbours
      /\ callers[c].endpoint \in Endpoints /\ NoTask \notin Task
  BY Constants DEF IInv, TypeOK, PeerInv, Called, Configures
<1>1. /\ lock = c /\ \A d \in Callers \ {c} : ~Configures(d)
      /\ \A t \in Task : tasks[t].at # "keying"
  BY Alone
<1>2. u # NoTask => u \in Task /\ tasks[u].cli = "up" /\ tasks[u].iface = j
  BY <1>0, ReachedIs DEF IInv, PeerInv
<1>3. \A t \in Task :
        /\ tasks'[t].iface = tasks[t].iface /\ tasks'[t].at = tasks[t].at
        /\ tasks'[t].cli = tasks[t].cli
        /\ t # u => tasks'[t].peers = tasks[t].peers
        /\ \A x \in Neighbours : x # k => tasks'[t].peers[x] = tasks[t].peers[x]
  <2>1. CASE tasks' = tasks
    BY <2>1
  <2>2. CASE u # NoTask /\ SetsPeer(u, k, e)
    <3>1. \A t \in Task :
             /\ tasks'[t].iface = tasks[t].iface /\ tasks'[t].at = tasks[t].at
             /\ tasks'[t].cli = tasks[t].cli
             /\ t # u => tasks'[t].peers = tasks[t].peers
             /\ \A x \in Neighbours :
                    tasks'[t].peers[x] = IF t = u /\ x = k THEN e ELSE tasks[t].peers[x]
      BY <1>0, <1>2, <2>2, PeerSet
    <3> QED
      BY <3>1
  <2> QED
    BY <2>1, <2>2
<1>4. SocketsNamed'
  BY <1>3 DEF PeerInv, SocketsNamed, IInv, TypeOK
<1>5. ClisBegin'
  BY ZenonT(40), <1>2, <1>3, Constants DEF PeerInv, ClisBegin, Reached
<1>6. LockHeld'
  BY <1>1, <1>3 DEF LockHeld, Configures
<1>7. Called'
  <2>1. Called
    BY DEF PeerInv
  <2> QED
    BY <1>0, <2>1 DEF Called
<1>8. PeerRemoved'
  <2> SUFFICES ASSUME NEW d \in Callers, callers'[d].at = "adding",
                      Reached(callers[d].iface)' # NoTask
               PROVE  tasks'[Reached(callers[d].iface)'].peers[callers'[d].key] = Nothing
    BY Zenon DEF PeerRemoved
  <2>1. d = c
    BY <1>1 DEF Configures
  <2>2. Reached(callers[d].iface)' = u
    <3>1. socket[j] \in Task \cup {NoTask}
      BY <1>0 DEF IInv, TypeOK
    <3> QED
      BY <1>0, <1>3, <2>1, <3>1 DEF Reached
  <2>3. u \in Task /\ e = Nothing /\ SetsPeer(u, k, e)
    BY <1>2, <2>1, <2>2
  <2>4. tasks'[u].peers[k] = Nothing
    BY <1>0, <2>3, PeerSet
  <2> QED
    BY <2>1, <2>2, <2>4
<1>10. Elsewhere'
  <2>1. \A d \in Callers : callers'[d].at # "removing"
    BY <1>1 DEF Configures
  <2> QED
    BY <2>1 DEF Elsewhere
<1>11. Taken'
  <2> SUFFICES ASSUME NEW d \in Callers, NEW t, t = callers'[d].added,
                      callers'[d].at = "inserting", t # NoTask
               PROVE  /\ t \in Task /\ tasks'[t].at # "free"
                      /\ tasks'[t].cli # "dead" =>
                            tasks'[t].peers[callers'[d].key] = callers'[d].endpoint
    BY Zenon DEF Taken
  <2>1. d = c
    BY <1>1 DEF Configures
  <2>2. t = u /\ e = callers[c].endpoint /\ SetsPeer(u, k, e)
    BY <2>1
  <2>3. u \in Task /\ tasks[u].cli = "up" /\ tasks[u].at # "free"
    BY <1>2, <2>2 DEF PeerInv, ClisBegin
  <2>4. tasks'[u].peers[k] = e /\ tasks'[u].at = tasks[u].at
    BY <1>0, <2>2, <2>3, PeerSet
  <2> QED
    BY <2>1, <2>2, <2>3, <2>4
<1>9. ASSUME NEW i \in Interfaces, Stale(i)',
             ~(/\ i = j /\ cache[j][k] # Nothing
               /\ ~(u # NoTask /\ tasks[u].peers[k] = Nothing))
      PROVE  Stale(i)
  <2>1. PICK t \in Task : t = handles[i] /\ handles'[i] = t
    BY <1>0, <1>9 DEF Stale, IInv, TypeOK
  <2>2. PICK x \in Neighbours : cache[i][x] # Nothing /\ tasks'[t].peers[x] # cache[i][x]
    BY <1>9, <2>1 DEF Stale, CacheTrue
  <2>3. tasks[t].peers[x] # cache[i][x]
    <3>1. CASE t = u /\ x = k
      <4>1. i = j
        BY <1>0, <1>2, <2>1, <3>1 DEF IInv, Loneliness, Owned
      <4> QED
        BY <1>9, <2>2, <3>1, <4>1
    <3>2. CASE t # u \/ x # k
      BY <1>3, <2>2, <3>2
    <3> QED
      BY <3>1, <3>2
  <2>4. tasks[t].at \in {"locking", "keying", "setting", "running"} /\ tasks[t].cli # "dead"
    BY <1>3, <1>9, <2>1 DEF Stale
  <2> QED
    BY <1>0, <2>1, <2>2, <2>3, <2>4 DEF Stale, CacheTrue
<1> QED
  BY <1>4, <1>5, <1>6, <1>7, <1>8, <1>9, <1>10, <1>11 DEF PeerInv

\* A call makes only its own interface stale, and only where it moves its peer or
\* enters one that the cli does not have from it.
Guilty(c, i) == Moves(c, i) \/ Misses(c, i)

LEMMA CallGuilty ==
    ASSUME IInv, TypeOK', PeerInv, NEW c \in Callers, ConfigurePeer(c)
    PROVE  PeerInv' /\ \A i \in Interfaces : Stale(i)' => Stale(i) \/ Guilty(c, i)
<1>0. /\ TypeOK /\ tasks \in [Task -> TaskRecord]
      /\ callers \in [Callers -> CallRecord] /\ callers[c] \in CallRecord
  BY DEF IInv, TypeOK
<1> DEFINE j == callers[c].iface
           k == callers[c].key
<1>called. callers[c].at # "idle" =>
             j \in Interfaces /\ k \in Neighbours /\ callers[c].endpoint \in Endpoints
  BY DEF PeerInv, Called
<1>idle. ASSUME callers' = [callers EXCEPT ![c] = Idle] \/ callers' = callers
         PROVE  Called' /\ \A d \in Callers : StillAdding(d) /\ StillRemoving(d)
  BY <1>0, <1>idle DEF PeerInv, Called, StillAdding, StillRemoving, SameCall, Idle
<1>kept. ASSUME tasks' = tasks, handles' = handles, socket' = socket, cache' = cache,
                LockHeld', Called', Elsewhere', \A d \in Callers : StillAdding(d)
         PROVE  PeerInv' /\ \A i \in Interfaces : Stale(i)' => Stale(i) \/ Guilty(c, i)
  <2>1. \A t \in Task : Keeps(t) /\ (Started(t)' => Started(t))
    BY <1>kept DEF Keeps, Started
  <2> QED
    BY <1>0, <1>kept, <2>1, NoCli DEF Innocent
<1>else. ASSUME cache' = cache, \A d \in Callers : StillRemoving(d)
         PROVE  Elsewhere'
  BY <1>else, ElsewhereKept
<1>1. ASSUME NEW i \in Interfaces, NEW x \in Neighbours, NEW e \in Endpoints, Call(c, i, x, e)
      PROVE  PeerInv' /\ \A n \in Interfaces : Stale(n)' => Stale(n) \/ Guilty(c, n)
  <2>1. UNCHANGED <<tasks, handles, socket, cache, lock>>
    BY <1>1 DEF Call, Unchanged
  <2>2. /\ callers[c].at = "idle"
        /\ callers'[c].at = "waiting" /\ callers'[c].iface = i /\ callers'[c].key = x
        /\ callers'[c].endpoint = e
        /\ \A d \in Callers \ {c} : callers'[d] = callers[d]
    BY <1>0, <1>1 DEF Call
  <2>3. LockHeld' /\ Called' /\ \A d \in Callers : StillAdding(d) /\ StillRemoving(d)
    BY <2>1, <2>2
       DEF PeerInv, LockHeld, Configures, Called, StillAdding, StillRemoving, SameCall
  <2> QED
    BY <1>else, <1>kept, <2>1, <2>3
<1>2. CASE Enter(c)
  <2>1. UNCHANGED <<tasks, handles, socket, cache>> /\ lock = Free /\ callers[c].at = "waiting"
    BY <1>2 DEF Enter, Unchanged
  <2>2. /\ \A t \in Task : tasks[t].at # "keying"
        /\ \A d \in Callers : ~Configures(d)
    BY <2>1, Constants, CallersAssumption DEF PeerInv, LockHeld, NoTask, Free
  <2>3. CASE callers' = [callers EXCEPT ![c] = Idle]
    <3>1. LockHeld'
      BY <1>0, <2>1, <2>2, <2>3 DEF LockHeld, Configures, Idle
    <3> QED
      BY <1>else, <1>idle, <1>kept, <2>1, <2>3, <3>1
  <2>4. CASE /\ callers' = [callers EXCEPT ![c].at = "removing"] /\ lock' = c
             /\ cache[j][k] # callers[c].endpoint
    <3>1. /\ callers'[c].at = "removing" /\ callers'[c].iface = j /\ callers'[c].key = k
          /\ callers'[c].endpoint = callers[c].endpoint
          /\ \A d \in Callers \ {c} : callers'[d] = callers[d]
      BY <1>0, <2>4 DEF CallRecord
    <3>2. LockHeld'
      BY <2>1, <2>2, <2>4, <3>1 DEF LockHeld, Configures
    <3>3. Called' /\ \A d \in Callers : StillAdding(d)
      BY <1>called, <2>1, <2>2, <3>1 DEF PeerInv, Called, StillAdding, SameCall, Configures
    <3>4. Elsewhere'
      BY <2>1, <2>2, <2>4, <3>1 DEF Elsewhere, Configures
    <3> QED
      BY <1>kept, <2>1, <3>2, <3>3, <3>4
  <2> QED
    BY <1>0, <1>2, <2>3, <2>4 DEF Enter
<1>3. CASE RemovePeer(c)
  <2> DEFINE u == Reached(j)
  <2>1. /\ UNCHANGED <<handles, socket, cache, lock>> /\ callers[c].at = "removing"
        /\ callers' = [callers EXCEPT ![c].at = "adding"]
    BY <1>3 DEF RemovePeer, Unchanged
  <2>2. (u = NoTask /\ tasks' = tasks) \/ (u # NoTask /\ SetsPeer(u, k, Nothing))
    BY <1>3 DEF RemovePeer, SetsPeer
  <2>3. /\ callers'[c].at = "adding" /\ callers'[c].iface = j /\ callers'[c].key = k
        /\ callers'[c].endpoint = callers[c].endpoint
        /\ \A d \in Callers \ {c} : callers'[d] = callers[d]
    BY <1>0, <2>1 DEF CallRecord
  <2>4. /\ PeerInv'
        /\ \A i \in Interfaces : Stale(i)' => Stale(i) \/ (i = j /\ cache[j][k] # Nothing)
    <3>1. Configures(c) /\ Configures(c)'
      BY <2>1, <2>3 DEF Configures
    <3> QED
      BY <2>1, <2>2, <2>3, <3>1, PeerChanged
  <2>5. cache[j][k] # callers[c].endpoint
    BY <2>1 DEF PeerInv, Elsewhere
  <2> QED
    BY <1>3, <2>4, <2>5 DEF Guilty, Moves
<1>4. CASE AddPeer(c)
  <2> DEFINE u == Reached(j)
             e == callers[c].endpoint
  <2>1. /\ UNCHANGED <<handles, socket, cache, lock>> /\ callers[c].at = "adding"
        /\ u \in Task /\ u # NoTask
    BY <1>4, Constants DEF AddPeer, Unchanged
  <2>2. \/ /\ SetsPeer(u, k, e)
           /\ callers' = [callers EXCEPT ![c].at = "inserting", ![c].added = u]
        \/ /\ tasks' = tasks
           /\ callers' = [callers EXCEPT ![c].at = "inserting", ![c].added = NoTask]
    BY <1>4 DEF AddPeer, SetsPeer
  <2>3. /\ callers'[c].at = "inserting" /\ callers'[c].iface = j /\ callers'[c].key = k
        /\ callers'[c].endpoint = e
        /\ callers'[c].added # NoTask => callers'[c].added = u /\ SetsPeer(u, k, e)
        /\ \A d \in Callers \ {c} : callers'[d] = callers[d]
    BY <1>0, <2>2 DEF CallRecord
  <2>4. tasks[u].peers[k] = Nothing
    BY <2>1 DEF PeerInv, PeerRemoved
  <2>5. /\ PeerInv'
        /\ \A i \in Interfaces :
              Stale(i)' => Stale(i) \/ ~(u # NoTask /\ tasks[u].peers[k] = Nothing)
    <3>1. Configures(c) /\ Configures(c)'
      BY <2>1, <2>3 DEF Configures
    <3>2. e = callers[c].endpoint
      OBVIOUS
    <3> HIDE DEF e, u
    <3>3. u = Reached(j)
      BY DEF u
    <3>4. tasks' = tasks \/ SetsPeer(u, k, e)
      BY <2>2
    <3> QED
      BY <2>1, <2>3, <3>1, <3>2, <3>3, <3>4, PeerChanged
  <2> QED
    BY <2>1, <2>4, <2>5
<1>5. CASE AddFails(c)
  <2>1. /\ UNCHANGED <<tasks, handles, socket, cache>> /\ callers[c].at = "adding"
        /\ callers' = [callers EXCEPT ![c] = Idle] /\ lock' = Free
    BY <1>5 DEF AddFails, Unchanged
  <2>2. LockHeld'
    <3>1. Configures(c)
      BY <2>1 DEF Configures
    <3> QED
      BY <1>0, <2>1, <3>1, Alone DEF LockHeld, Configures, Idle
  <2> QED
    BY <1>else, <1>idle, <1>kept, <2>1, <2>2
<1>6. CASE Insert(c)
  <2>1. /\ UNCHANGED <<tasks, handles, socket>> /\ callers[c].at = "inserting"
        /\ callers' = [callers EXCEPT ![c] = Idle] /\ lock' = Free
        /\ cache' = [cache EXCEPT ![j][k] = callers[c].endpoint]
    BY <1>6 DEF Insert, Unchanged
  <2>2. LockHeld'
    <3>1. Configures(c)
      BY <2>1 DEF Configures
    <3> QED
      BY <1>0, <2>1, <3>1, Alone DEF LockHeld, Configures, Idle
  <2>3. \A t \in Task : Keeps(t)
    BY <2>1 DEF Keeps
  <2>4. SocketsNamed' /\ ClisBegin' /\ PeerRemoved' /\ Taken'
    BY <1>0, <1>idle, <2>1, <2>3, PeersKept
  <2>5. Elsewhere'
    <3>1. Configures(c)
      BY <2>1 DEF Configures
    <3>2. \A d \in Callers : callers'[d].at # "removing"
      BY <1>0, <2>1, <3>1, Alone DEF Configures, Idle
    <3> QED
      BY <3>2 DEF Elsewhere
  <2>6. ASSUME NEW i \in Interfaces, i # j, Stale(i)' PROVE Stale(i)
    <3>1. cache'[i] = cache[i]
      BY <1>0, <2>1, <2>6 DEF TypeOK
    <3> QED
      BY <2>1, <2>6, <3>1 DEF Stale, CacheTrue
  <2>7. ASSUME NEW i \in Interfaces, i = j, callers[c].added = handles[i], Stale(i)'
        PROVE  Stale(i)
    <3>1. /\ handles[i] # NoTask /\ tasks[handles[i]].cli # "dead"
          /\ tasks[handles[i]].at \in {"locking", "keying", "setting", "running"}
      BY <2>1, <2>7 DEF Stale
    <3>2. tasks[handles[i]].peers[k] = callers[c].endpoint
      BY <2>1, <2>7, <3>1 DEF PeerInv, Taken
    <3>3. /\ cache'[i][k] = callers[c].endpoint
          /\ \A x \in Neighbours \ {k} : cache'[i][x] = cache[i][x]
      BY <1>0, <1>called, <2>1, <2>7 DEF TypeOK
    <3>4. PICK x \in Neighbours :
             cache'[i][x] # Nothing /\ tasks[handles[i]].peers[x] # cache'[i][x]
      BY <2>1, <2>7 DEF Stale, CacheTrue
    <3>5. cache[i][x] # Nothing /\ tasks[handles[i]].peers[x] # cache[i][x]
      BY <3>2, <3>3, <3>4
    <3> QED
      BY <3>1, <3>5 DEF Stale, CacheTrue
  <2>8. ASSUME NEW i \in Interfaces, Stale(i)' PROVE Stale(i) \/ Guilty(c, i)
    <3>1. CASE i # j
      BY <2>6, <2>8, <3>1
    <3>2. CASE i = j /\ callers[c].added = handles[i]
      BY <2>7, <2>8, <3>2
    <3>3. CASE i = j /\ callers[c].added # handles[i]
      BY <1>6, <3>3 DEF Guilty, Misses
    <3> QED
      BY <3>1, <3>2, <3>3
  <2>9. Called'
    BY <1>idle, <2>1
  <2> QED
    BY <2>2, <2>4, <2>5, <2>8, <2>9 DEF PeerInv
<1>7. CASE Drop(c)
  <2>1. /\ UNCHANGED <<tasks, handles, socket, cache>>
        /\ callers' = [callers EXCEPT ![c] = Idle]
        /\ lock' = IF lock = c THEN Free ELSE lock
    BY <1>7 DEF Drop, Unchanged
  <2>2. LockHeld'
    BY <1>0, <2>1, CallersAssumption DEF PeerInv, LockHeld, Configures, Idle
  <2> QED
    BY <1>else, <1>idle, <1>kept, <2>1, <2>2
<1> QED
  BY <1>1, <1>2, <1>3, <1>4, <1>5, <1>6, <1>7 DEF ConfigurePeer

\* The invariant of the peers on top of that of the tasks.
StaleInv == IInv /\ PeerInv

LEMMA StaleStep ==
    ASSUME StaleInv, [Next]_vars
    PROVE  /\ StaleInv'
           /\ \A i \in Interfaces :
                Stale(i)' => Stale(i) \/ \E c \in Callers : Guilty(c, i)
<1>0. IInv' /\ TypeOK' /\ IInv /\ TypeOK /\ PeerInv
  BY Step DEF StaleInv, IInv
<1>1. Innocent \/ \E c \in Callers :
            PeerInv' /\ \A i \in Interfaces : Stale(i)' => Stale(i) \/ Guilty(c, i)
  <2>1. ASSUME NEW t \in Task, Instance(t) PROVE Innocent
    BY <1>0, <2>1, InstanceStep, InstanceInnocent
  <2>2. CASE Reload
    BY <1>0, <2>2, ReloadInnocent
  <2>3. ASSUME UNCHANGED <<tasks, handles, socket, lock, callers>>,
               \A i \in Interfaces : cache'[i] \in {cache[i], NoPeers}
        PROVE  Innocent
    <3>1. /\ \A t \in Task : Keeps(t) /\ (Started(t)' => Started(t))
          /\ \A c \in Callers : StillAdding(c) /\ StillRemoving(c)
      BY <2>3 DEF Keeps, Started, StillAdding, StillRemoving, SameCall
    <3>2. LockHeld' /\ Called'
      BY <1>0, <2>3 DEF PeerInv, LockHeld, Configures, Called
    <3>3. Elsewhere'
      BY <1>0, <2>3, <3>1, ElsewhereKept
    <3> QED
      BY <1>0, <2>3, <3>1, <3>2, <3>3, NoCli
  <2>4. ASSUME NEW i \in Interfaces, RunCleanup(i) PROVE Innocent
    <3>1. \A j \in Interfaces : cache'[j] \in {cache[j], NoPeers}
      BY <1>0, <2>4 DEF RunCleanup, Cleaned, TypeOK
    <3> QED
      BY <2>3, <2>4, <3>1 DEF RunCleanup
  <2>5. CASE UNCHANGED vars
    BY <2>3, <2>5 DEF vars
  <2>6. ASSUME NEW c \in Callers, ConfigurePeer(c)
        PROVE  PeerInv' /\ \A i \in Interfaces : Stale(i)' => Stale(i) \/ Guilty(c, i)
    BY <1>0, <2>6, CallGuilty
  <2> QED
    BY <2>1, <2>2, <2>4, <2>5, <2>6 DEF Next
<1> QED
  BY <1>0, <1>1 DEF Innocent, StaleInv

\* Only configure_peer makes the cache wrong about the cli of an interface: where it
\* takes a peer away to move it, and where it enters one that went to a cli without
\* its key or not to this one (StaleOnlyByRace); no start, end, reload or clean-up
\* does, whatever they meet, and no entry of a peer that the cli has taken.
THEOREM StaleByRace == Spec => StaleOnlyByRace
<1>1. Init => StaleInv
  <2> SUFFICES ASSUME Init PROVE StaleInv
    OBVIOUS
  <2>1. IInv
    BY Start
  <2>2. /\ \A t \in Task : tasks[t].at = "free" /\ tasks[t].cli = "none"
        /\ \A i \in Interfaces : socket[i] = NoTask
        /\ \A c \in Callers : callers[c].at = "idle"
    BY DEF Init, Unused, NewTask, Idle
  <2>3. PeerInv
    BY <2>2 DEF PeerInv, SocketsNamed, ClisBegin, LockHeld, Configures, Called, PeerRemoved,
                Elsewhere, Taken
  <2> QED
    BY <2>1, <2>3 DEF StaleInv
<1>2. StaleInv /\ [Next]_vars => StaleInv'
  BY StaleStep
<1>3. StaleInv /\ [Next]_vars =>
        [\A i \in Interfaces :
            Stale(i)' /\ ~Stale(i) => \E c \in Callers : Moves(c, i) \/ Misses(c, i)]_vars
  BY StaleStep DEF Guilty
<1> QED
  BY <1>1, <1>2, <1>3, PTL DEF Spec, StaleOnlyByRace
=============================================================================
