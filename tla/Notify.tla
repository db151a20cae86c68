------------------------------- MODULE Notify -------------------------------
(***************************************************************************)
(* Notify and Notified of sync.rs: a one-permit notification with a queue  *)
(* of waiting futures and a broadcast generation.                          *)
(*                                                                         *)
(* Each future is polled by a task of its own, whose waker is the future's *)
(* name.  The critical sections under the queue's spin lock are single     *)
(* actions; the two lock-free looks ready_or_register takes before it      *)
(* locks, and the waker calls made after unlocking, are actions of their   *)
(* own, so that everything the other threads can do falls between them.    *)
(***************************************************************************)
EXTENDS WaitFifo, FiniteSets

CONSTANTS MaxNotify,      \* bound on the calls of notify_one
          MaxGeneration   \* bound on the calls of notify_waiters

Futures == Waiters

ASSUME FuturesAssumption ==
    /\ IsFiniteSet(Waiters)
    /\ Wakers = Waiters
    /\ NoWaker \notin Waiters

VARIABLES permit, generation,
          pc,        \* where the future's current call stands
          entry,     \* the waker of that call: the task's, or NoWaker in enable
          snapshot,  \* Notified.generation
          done, reserved,            \* Notified.done and .reserved_one
          asleep,    \* the last poll returned Pending and no wake came since
          issued, coalesced, delivered  \* history: notify_one calls, the ones
                                        \* merged into a permit already stored,
                                        \* the ones a poll returned Ready for

callVars == <<pc, entry, snapshot, done, reserved, asleep>>
history == <<issued, coalesced, delivered>>
vars == <<permit, generation, fifoVars, callVars, history>>

TypeOK ==
    /\ FifoTypeOK
    /\ permit \in BOOLEAN
    /\ generation \in Nat
    /\ pc \in [Futures -> {"absent", "idle", "generation", "permit", "lock"}]
    /\ entry \in [Futures -> Futures \cup {NoWaker}]
    /\ snapshot \in [Futures -> Nat]
    /\ done \in [Futures -> BOOLEAN]
    /\ reserved \in [Futures -> BOOLEAN]
    /\ asleep \in [Futures -> BOOLEAN]
    /\ issued \in Nat /\ coalesced \in Nat /\ delivered \in Nat

Init ==
    /\ FifoInit
    /\ permit = FALSE
    /\ generation = 0
    /\ pc = [f \in Futures |-> "absent"]
    /\ entry = [f \in Futures |-> NoWaker]
    /\ snapshot = [f \in Futures |-> 0]
    /\ done = [f \in Futures |-> FALSE]
    /\ reserved = [f \in Futures |-> FALSE]
    /\ asleep = [f \in Futures |-> FALSE]
    /\ issued = 0 /\ coalesced = 0 /\ delivered = 0

-----------------------------------------------------------------------------
(* Notify                                                                  *)

\* Notify::grant_one on the queue k, q, w: the next waiter, else the permit.
grant_one(k, q, w) ==
    IF q = <<>>
    THEN /\ permit' = TRUE
         /\ coalesced' = IF permit THEN coalesced + 1 ELSE coalesced
         /\ kind' = k /\ fifo' = q /\ waker' = w
         /\ UNCHANGED wakes
    ELSE /\ GrantHead(k, q, w)
         /\ UNCHANGED <<permit, coalesced>>

notify_one ==
    /\ issued < MaxNotify
    /\ issued' = issued + 1
    /\ grant_one(kind, fifo, waker)
    /\ UNCHANGED <<generation, callVars, delivered>>

notify_waiters ==
    /\ generation < MaxGeneration
    /\ generation' = generation + 1
    /\ GrantAll
    /\ UNCHANGED <<permit, callVars, history>>

\* The notifier invokes a waker it took from the queue.
WakeTask(f) ==
    /\ Wake(f)
    /\ asleep' = [asleep EXCEPT ![f] = FALSE]
    /\ UNCHANGED <<permit, generation, pc, entry, snapshot, done, reserved, history>>

-----------------------------------------------------------------------------
(* Notified                                                                *)

notified(f) ==
    /\ pc[f] = "absent"
    /\ pc' = [pc EXCEPT ![f] = "idle"]
    /\ snapshot' = [snapshot EXCEPT ![f] = generation]
    /\ UNCHANGED <<permit, generation, fifoVars, entry, done, reserved, asleep, history>>

\* ready_or_register returns true to enable (w = NoWaker), which keeps a single
\* notification reserved, or to poll, which delivers it.
Complete(f, w, one) ==
    /\ pc' = [pc EXCEPT ![f] = "idle"]
    /\ done' = [done EXCEPT ![f] = TRUE]
    /\ reserved' = [reserved EXCEPT ![f] = one /\ w = NoWaker]
    /\ delivered' = IF one /\ w # NoWaker THEN delivered + 1 ELSE delivered
    /\ UNCHANGED <<generation, entry, snapshot, asleep, issued, coalesced>>

\* enable() or poll() is called; a future that is done answers at once, one
\* that is registered goes straight to the lock.
Call(f, w) ==
    /\ pc[f] = "idle"
    /\ asleep' = [asleep EXCEPT ![f] = FALSE]
    /\ entry' = [entry EXCEPT ![f] = w]
    /\ IF done[f]
       THEN /\ reserved' = [reserved EXCEPT ![f] = @ /\ w = NoWaker]
            /\ delivered' = IF reserved[f] /\ w # NoWaker THEN delivered + 1 ELSE delivered
            /\ UNCHANGED pc
       ELSE /\ pc' = [pc EXCEPT ![f] = IF kind[f] = "None" THEN "generation" ELSE "lock"]
            /\ UNCHANGED <<reserved, delivered>>
    /\ UNCHANGED <<permit, generation, fifoVars, snapshot, done, issued, coalesced>>

enable(f) == Call(f, NoWaker)
poll(f) == Call(f, f)

CheckGeneration(f) ==
    /\ pc[f] = "generation"
    /\ IF generation # snapshot[f]
       THEN Complete(f, entry[f], FALSE)
       ELSE /\ pc' = [pc EXCEPT ![f] = "permit"]
            /\ UNCHANGED <<generation, entry, snapshot, done, reserved, asleep, history>>
    /\ UNCHANGED <<permit, fifoVars>>

\* The uncontended path: compare_exchange(true, false) without the lock.
TakePermit(f) ==
    /\ pc[f] = "permit"
    /\ IF permit
       THEN /\ permit' = FALSE
            /\ Complete(f, entry[f], TRUE)
       ELSE /\ pc' = [pc EXCEPT ![f] = "lock"]
            /\ UNCHANGED <<permit, generation, entry, snapshot, done, reserved, asleep, history>>
    /\ UNCHANGED fifoVars

\* What the locked part of ready_or_register finds.
Assigned(f) == kind[f] \in {"One", "All"}

\* Slip: the permit is not looked at again under the lock.
NotificationNoPermit(f) ==
    IF Assigned(f) THEN kind[f]
    ELSE IF generation # snapshot[f] THEN "All"
    ELSE "None"

Notification(f) ==
    IF Assigned(f) THEN kind[f]
    ELSE IF generation # snapshot[f] THEN "All"
    ELSE IF permit THEN "One"
    ELSE "None"

\* Under the lock: take what was assigned, else look at the generation and
\* swap the permit again, else join the queue.
ready_or_register(f) ==
    /\ pc[f] = "lock"
    /\ permit' = IF ~Assigned(f) /\ Notification(f) = "One" THEN FALSE ELSE permit
    /\ IF Notification(f) # "None"
       THEN /\ Remove(f)
            /\ Complete(f, entry[f], Notification(f) = "One")
       ELSE /\ Register(f, entry[f])
            /\ pc' = [pc EXCEPT ![f] = "idle"]
            /\ asleep' = [asleep EXCEPT ![f] = entry[f] # NoWaker]
            /\ UNCHANGED <<generation, entry, snapshot, done, reserved, history>>

\* Slip: a cancelled future keeps the notification it was granted.
dropForgets(f) ==
    /\ pc[f] = "idle"
    /\ Remove(f)
    /\ pc' = [pc EXCEPT ![f] = "absent"]
    /\ done' = [done EXCEPT ![f] = FALSE]
    /\ reserved' = [reserved EXCEPT ![f] = FALSE]
    /\ asleep' = [asleep EXCEPT ![f] = FALSE]
    /\ snapshot' = [snapshot EXCEPT ![f] = 0]
    /\ UNCHANGED <<permit, coalesced, generation, entry, issued, delivered>>

\* Dropping the future passes on a notification it reserved or was granted.
drop(f) ==
    /\ pc[f] = "idle"
    /\ IF reserved[f] THEN grant_one(kind, fifo, waker)
       ELSE IF kind[f] = "One"
            THEN grant_one([kind EXCEPT ![f] = "None"], Without(fifo, f),
                           [waker EXCEPT ![f] = NoWaker])
            ELSE Remove(f) /\ UNCHANGED <<permit, coalesced>>
    /\ pc' = [pc EXCEPT ![f] = "absent"]
    /\ done' = [done EXCEPT ![f] = FALSE]
    /\ reserved' = [reserved EXCEPT ![f] = FALSE]
    /\ asleep' = [asleep EXCEPT ![f] = FALSE]
    /\ snapshot' = [snapshot EXCEPT ![f] = 0]
    /\ UNCHANGED <<generation, entry, issued, delivered>>

Next ==
    \/ notify_one
    \/ notify_waiters
    \/ \E f \in Futures :
          \/ notified(f)
          \/ enable(f)
          \/ poll(f)
          \/ CheckGeneration(f)
          \/ TakePermit(f)
          \/ ready_or_register(f)
          \/ drop(f)
          \/ WakeTask(f)

Spec == Init /\ [][Next]_vars

\* A thread inside a call finishes it, a waker that was taken is invoked, and
\* a task that was woken polls its future again until it is done.
Step(f) == CheckGeneration(f) \/ TakePermit(f) \/ ready_or_register(f)

Fairness ==
    \A f \in Futures :
        /\ WF_vars(Step(f))
        /\ WF_vars(WakeTask(f))
        /\ WF_vars(poll(f) /\ ~asleep[f] /\ ~done[f])

FairSpec == Spec /\ Fairness

-----------------------------------------------------------------------------
(* Properties                                                              *)

\* The comment in Notify::grant_one: registration and the permit store share
\* a lock, so a permit never sits beside a waiter it could have released.
PermitExcludesWaiters == permit => fifo = <<>>

Ones == {f \in Futures : kind[f] = "One"}
Reserved == {f \in Futures : reserved[f]}

\* No notification is lost or duplicated: each notify_one is still stored,
\* granted to a registration, reserved by enable, delivered, or was merged
\* into a permit already stored, whatever futures were cancelled meanwhile.
NotificationsConserved ==
    issued = coalesced + delivered + (IF permit THEN 1 ELSE 0)
               + Cardinality(Ones) + Cardinality(Reserved)

\* A task that sleeps can be woken: its future is still queued with the
\* task's own waker, or a notifier holds that waker and is about to call it.
SleeperReachable ==
    \A f \in Futures :
        asleep[f] => f \in wakes \/ (kind[f] = "Queued" /\ waker[f] = f)

\* A broadcast misses no future made before it: a queued future has seen
\* every generation, so one that is behind is granted or finds out itself.
QueuedIsCurrent ==
    \A f \in Futures : kind[f] = "Queued" => snapshot[f] = generation

\* No task sleeps through a notification: none is stored beside a waiter, no
\* broadcast passed one by, and every sleeper's waker is within reach.
SleepIsSafe == TypeOK /\ PermitExcludesWaiters /\ SleeperReachable /\ QueuedIsCurrent

\* A future made before a broadcast completes (or is dropped).
BroadcastDelivered ==
    \A f \in Futures :
        (pc[f] # "absent" /\ snapshot[f] # generation) ~> (done[f] \/ pc[f] = "absent")
=============================================================================
