------------------------------ MODULE EventLoop ------------------------------
(***************************************************************************)
(* The threads of a device (device/mod.rs, event_loop) and the lock that   *)
(* lets one of them change it (device/dev_lock.rs).  Every thread holds a  *)
(* read lock while it waits for events and runs their handlers.  The       *)
(* handler of the configuration socket upgrades its read lock in three     *)
(* stages: it marks its wish to write, has all threads notified to yield,  *)
(* and takes the write lock when the last of them has let go.              *)
(*                                                                         *)
(* inner is a parking_lot RwLock: a reader waits while a writer holds it or *)
(* waits for it.  The mutex around wants_write is held by a reader from    *)
(* its check of wants_write until it has the read lock.                    *)
(***************************************************************************)
EXTENDS Naturals

CONSTANTS
    Threads,      \* the threads that run event_loop
    Owner,        \* the thread that owns, and drops, the DeviceHandle
    Apis,         \* configuration events; each is run by one thread at a time
    MaxRequests   \* bound: configuration requests

NoOne == "no one"

NoEvent == "no event"

Actors == Threads \cup {Owner}

ASSUME ActorAssumption ==
    /\ Owner \notin Threads
    /\ NoOne \notin Actors
    /\ NoEvent \notin Apis
    /\ MaxRequests \in Nat

VARIABLES
    pc,           \* where each thread is
    handling,     \* the configuration event whose handler a thread runs
    mutex,        \* who holds the mutex of wants_write
    wants_write,  \* somebody has marked its wish to write
    readers,      \* who holds a read lock on inner
    writer,       \* who holds the write lock on inner
    yield_notice, \* the yield notifier is triggered
    exit_notice,  \* the exit notifier is triggered
    told,         \* the owner has triggered the exit notice
    requests      \* configuration requests that arrived

loopVars == <<pc, handling, mutex, wants_write, readers, writer, yield_notice,
              exit_notice, told, requests>>

other == <<told, requests>>

lock == <<mutex, wants_write, readers, writer>>

notices == <<yield_notice, exit_notice>>

\* outside: before device.read(); entering: in it, with the mutex;
\* polling: in queue.wait(); running: in another handler than the configuration's;
\* claim .. clear: the stages of try_writeable.
PCs == {"idle", "outside", "entering", "entry_parked", "polling", "running",
        "claim", "claiming", "claim_parked", "marked", "prep", "want", "wanting",
        "writing", "written", "clear", "gone"}

LoopTypeOK ==
    /\ pc \in [Actors -> PCs]
    /\ handling \in [Threads -> Apis \cup {NoEvent}]
    /\ mutex \in Actors \cup {NoOne}
    /\ wants_write \in BOOLEAN
    /\ readers \subseteq Actors
    /\ writer \in Threads \cup {NoOne}
    /\ yield_notice \in BOOLEAN
    /\ exit_notice \in BOOLEAN
    /\ told \in BOOLEAN
    /\ requests \in 0..MaxRequests

LoopInit ==
    /\ pc = [t \in Actors |-> IF t = Owner THEN "idle" ELSE "outside"]
    /\ handling = [t \in Threads |-> NoEvent]
    /\ mutex = NoOne
    /\ wants_write = FALSE
    /\ readers = {}
    /\ writer = NoOne
    /\ yield_notice = FALSE
    /\ exit_notice = FALSE
    /\ told = FALSE
    /\ requests = 0

Goes(t, from, to) ==
    /\ pc[t] = from
    /\ pc' = [pc EXCEPT ![t] = to]

-----------------------------------------------------------------------------
(* Lock::read.                                                             *)

\* A reader gets the read lock at once.
CanRead == writer = NoOne /\ \A t \in Actors : pc[t] # "wanting"

EnterLock(t) ==
    /\ Goes(t, "outside", "entering")
    /\ mutex = NoOne
    /\ mutex' = t
    /\ UNCHANGED <<handling, wants_write, readers, writer, notices, other>>

\* Wait on the condition variable, without the mutex.
EnterPark(t) ==
    /\ Goes(t, "entering", "entry_parked")
    /\ wants_write
    /\ mutex' = NoOne
    /\ UNCHANGED <<handling, wants_write, readers, writer, notices, other>>

EnterRead(t) ==
    /\ Goes(t, "entering", "polling")
    /\ ~wants_write
    /\ CanRead
    /\ readers' = readers \cup {t}
    /\ mutex' = NoOne
    /\ UNCHANGED <<handling, wants_write, writer, notices, other>>

-----------------------------------------------------------------------------
(* DeviceHandle::event_loop.                                               *)

\* The handler of an event other than the configuration's.
BeginHandler(t) ==
    /\ Goes(t, "polling", "running")
    /\ UNCHANGED <<handling, lock, notices, other>>

EndHandler(t) ==
    /\ Goes(t, "running", "polling")
    /\ UNCHANGED <<handling, lock, notices, other>>

\* Mutant: a thread that exits tells nobody.
HandlerExitsAlone(t) ==
    /\ Goes(t, "running", "gone")
    /\ readers' = readers \ {t}
    /\ UNCHANGED <<handling, mutex, wants_write, writer, notices, other>>

\* A handler returns Action::Exit, or the configuration socket has closed.
HandlerExits(t) ==
    /\ Goes(t, "running", "gone")
    /\ exit_notice' = TRUE
    /\ readers' = readers \ {t}
    /\ UNCHANGED <<handling, mutex, wants_write, writer, yield_notice, other>>

\* Mutant: a thread that yields keeps its read lock.
TakeYieldKeeping(t) ==
    /\ Goes(t, "polling", "outside")
    /\ yield_notice
    /\ UNCHANGED <<handling, lock, notices, other>>

\* The yield notice returns Action::Yield: the read lock is dropped.
TakeYield(t) ==
    /\ Goes(t, "polling", "outside")
    /\ yield_notice
    /\ readers' = readers \ {t}
    /\ UNCHANGED <<handling, mutex, wants_write, writer, notices, other>>

TakeExit(t) ==
    /\ Goes(t, "polling", "gone")
    /\ exit_notice
    /\ exit_notice' = TRUE
    /\ readers' = readers \ {t}
    /\ UNCHANGED <<handling, mutex, wants_write, writer, yield_notice, other>>

\* A configuration request arrives; its event is disabled while it is handled.
TakeRequest(t) ==
    /\ Goes(t, "polling", "claim")
    /\ requests < MaxRequests
    /\ requests' = requests + 1
    /\ \E a \in Apis :
        /\ \A u \in Threads : handling[u] # a
        /\ handling' = [handling EXCEPT ![t] = a]
    /\ UNCHANGED <<lock, notices, told>>

-----------------------------------------------------------------------------
(* LockReadGuard::try_writeable, as api_set calls it.                      *)

\* The first stage takes the mutex, for the first time or after a wait.
ClaimLock(t) ==
    /\ Goes(t, "claim", "claiming")
    /\ mutex = NoOne
    /\ mutex' = t
    /\ UNCHANGED <<handling, wants_write, readers, writer, notices, other>>

\* It gives up the read lock while it waits for another writer ...
ClaimPark(t) ==
    /\ Goes(t, "claiming", "claim_parked")
    /\ wants_write
    /\ readers' = readers \ {t}
    /\ mutex' = NoOne
    /\ UNCHANGED <<handling, wants_write, writer, notices, other>>

\* Mutant: a writer does not wait for another one.
ClaimRegardless(t) ==
    /\ Goes(t, "claiming", "marked")
    /\ wants_write' = TRUE
    /\ readers' = readers \ {t}
    /\ mutex' = NoOne
    /\ UNCHANGED <<handling, writer, notices, other>>

\* Mutant: the wish to write is not marked.
ClaimUnmarked(t) ==
    /\ Goes(t, "claiming", "marked")
    /\ ~wants_write
    /\ readers' = readers \ {t}
    /\ mutex' = NoOne
    /\ UNCHANGED <<handling, wants_write, writer, notices, other>>

\* ... and marks its wish when there is none.
Claim(t) ==
    /\ Goes(t, "claiming", "marked")
    /\ ~wants_write
    /\ wants_write' = TRUE
    /\ readers' = readers \ {t}
    /\ mutex' = NoOne
    /\ UNCHANGED <<handling, writer, notices, other>>

\* RwLockReadGuard::unlocked takes the read lock again when its closure is done.
Relock(t) ==
    /\ Goes(t, "marked", "prep")
    /\ CanRead
    /\ readers' = readers \cup {t}
    /\ UNCHANGED <<handling, mutex, wants_write, writer, notices, other>>

\* Mutant: the threads are not notified.
PrepSilent(t) ==
    /\ Goes(t, "prep", "want")
    /\ UNCHANGED <<handling, lock, notices, other>>

\* The second stage, prep_func: trigger_yield.
Prep(t) ==
    /\ Goes(t, "prep", "want")
    /\ yield_notice' = TRUE
    /\ UNCHANGED <<handling, lock, exit_notice, other>>

\* The third stage gives up the read lock, waits for the write lock ...
Release(t) ==
    /\ Goes(t, "want", "wanting")
    /\ readers' = readers \ {t}
    /\ UNCHANGED <<handling, mutex, wants_write, writer, notices, other>>

TakeWrite(t) ==
    /\ Goes(t, "wanting", "writing")
    /\ readers = {} /\ writer = NoOne
    /\ writer' = t
    /\ UNCHANGED <<handling, mutex, wants_write, readers, notices, other>>

\* Mutant: the yield notice stays triggered.
MutateYielding(t) ==
    /\ Goes(t, "writing", "written")
    /\ writer' = NoOne
    /\ UNCHANGED <<handling, mutex, wants_write, readers, notices, other>>

\* ... and runs mut_func: cancel_yield, and the changes to the device.
Mutate(t) ==
    /\ Goes(t, "writing", "written")
    /\ yield_notice' = FALSE
    /\ writer' = NoOne
    /\ UNCHANGED <<handling, mutex, wants_write, readers, exit_notice, other>>

RelockAfter(t) ==
    /\ Goes(t, "written", "clear")
    /\ CanRead
    /\ readers' = readers \cup {t}
    /\ UNCHANGED <<handling, mutex, wants_write, writer, notices, other>>

\* notify_all: whoever waits on the condition variable tries for the mutex again.
Notified(p) ==
    CASE p = "entry_parked" -> "outside"
      [] p = "claim_parked" -> "claim"
      [] OTHER -> p

\* Clear the mark and notify; the handler of the configuration is done.
Clear(t) ==
    /\ pc[t] = "clear"
    /\ mutex = NoOne
    /\ wants_write' = FALSE
    /\ pc' = [u \in Actors |-> IF u = t THEN "polling" ELSE Notified(pc[u])]
    /\ handling' = [handling EXCEPT ![t] = NoEvent]
    /\ UNCHANGED <<mutex, readers, writer, notices, other>>

-----------------------------------------------------------------------------
(* Drop for DeviceHandle.                                                  *)

BeginDrop ==
    /\ Goes(Owner, "idle", "outside")
    /\ UNCHANGED <<handling, lock, notices, other>>

\* With its read lock the owner triggers the exit notice ...
TellExit ==
    /\ Goes(Owner, "polling", "outside")
    /\ ~told
    /\ told' = TRUE
    /\ exit_notice' = TRUE
    /\ readers' = readers \ {Owner}
    /\ UNCHANGED <<handling, mutex, wants_write, writer, yield_notice, requests>>

\* ... and takes it a second time, to clean up.
EndDrop ==
    /\ Goes(Owner, "polling", "gone")
    /\ told
    /\ readers' = readers \ {Owner}
    /\ UNCHANGED <<handling, mutex, wants_write, writer, notices, other>>

Enter(t) == EnterLock(t) \/ EnterPark(t) \/ EnterRead(t)

Loop(t) ==
    \/ BeginHandler(t) \/ EndHandler(t) \/ HandlerExits(t)
    \/ TakeYield(t) \/ TakeExit(t) \/ TakeRequest(t)

TryWriteable(t) ==
    \/ ClaimLock(t) \/ ClaimPark(t) \/ Claim(t) \/ Relock(t)
    \/ Prep(t) \/ Release(t) \/ TakeWrite(t) \/ Mutate(t) \/ RelockAfter(t)
    \/ Clear(t)

\* All threads have returned.
Terminated == (\A t \in Actors : pc[t] = "gone") /\ UNCHANGED loopVars

LoopNext ==
    \/ \E t \in Actors : Enter(t)
    \/ \E t \in Threads : Loop(t) \/ TryWriteable(t)
    \/ BeginDrop \/ TellExit \/ EndDrop
    \/ Terminated

LoopSpec == LoopInit /\ [][LoopNext]_loopVars

\* Handlers return and threads are scheduled.  The mutex is handed over fairly
\* in the end (parking_lot), and a notice is level-triggered, so queue.wait()
\* returns it sooner or later among the other events.
ThreadFairness(t) ==
    /\ SF_loopVars(EnterLock(t))
    /\ WF_loopVars(EnterPark(t)) /\ WF_loopVars(EnterRead(t))
    /\ WF_loopVars(EndHandler(t))
    /\ SF_loopVars(TakeYield(t)) /\ SF_loopVars(TakeExit(t))
    /\ SF_loopVars(ClaimLock(t)) /\ WF_loopVars(ClaimPark(t)) /\ WF_loopVars(Claim(t))
    /\ WF_loopVars(Relock(t)) /\ WF_loopVars(Prep(t)) /\ WF_loopVars(Release(t))
    /\ WF_loopVars(TakeWrite(t)) /\ WF_loopVars(Mutate(t)) /\ WF_loopVars(RelockAfter(t))
    /\ SF_loopVars(Clear(t))

OwnerFairness ==
    /\ SF_loopVars(EnterLock(Owner))
    /\ WF_loopVars(EnterPark(Owner)) /\ WF_loopVars(EnterRead(Owner))
    /\ WF_loopVars(TellExit) /\ WF_loopVars(EndDrop)

FairSpec == LoopSpec /\ (\A t \in Threads : ThreadFairness(t)) /\ OwnerFairness

-----------------------------------------------------------------------------
(* Properties.                                                             *)

\* Where a thread holds a read lock; and where it has marked its wish to write.
Reading == {"polling", "running", "claim", "claiming", "prep", "want", "clear"}

Marked == {"marked", "prep", "want", "wanting", "writing", "written", "clear"}

\* The lock knows where the threads are: nobody outside its event loop holds a
\* read lock, which no yield could make it give up (save a writer that waits for
\* its turn and still has, or has lost, the lock it came with), and wants_write
\* is marked exactly while one thread, and no second one, is changing the device.
LockMatchesThreads ==
    /\ \A t \in Actors : t \in readers => pc[t] \in Reading
    /\ \A t \in Actors : t \notin readers => pc[t] \notin Reading \ {"claim", "claiming"}
    /\ wants_write <=> \E t \in Threads : pc[t] \in Marked
    /\ \A t, u \in Threads : pc[t] \in Marked /\ pc[u] \in Marked => t = u

\* While mut_func changes the device, which frees handlers
\* (clear_event_by_fd), no other thread is in an event loop.
WriterAlone ==
    \A t, u \in Actors :
        pc[t] = "writing" /\ u # t => pc[u] \notin {"polling", "running"}

\* A thread that waits for the write lock has asked the others to yield, and no
\* other writer has taken that back.
YieldIsAsked ==
    \A t \in Threads : pc[t] = "wanting" => yield_notice

\* The yield notice does not outlive the change it was for: afterwards the
\* loops would yield again and again.
NoStaleYield == yield_notice => wants_write

\* A reader that has found wants_write false gets the read lock at once, so no
\* thread is ever blocked while it holds the mutex.
MutexIsBrief ==
    \A t \in Actors : pc[t] = "entering" /\ ~wants_write => CanRead

\* Every configuration request is carried out.
WriteCompletes ==
    \A t \in Threads : (pc[t] = "claim") ~> (pc[t] = "polling")

\* When one thread has left, all of them leave.
AllLeave ==
    (\E t \in Actors : pc[t] = "gone") ~> (\A t \in Threads : pc[t] = "gone")
==============================================================================
