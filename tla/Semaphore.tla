------------------------------ MODULE Semaphore ------------------------------
(***************************************************************************)
(* Semaphore, SemaphorePermit and Acquire of sync.rs.  The count is an     *)
(* atomic of its own, outside the waiter queue's lock, so a poll is a      *)
(* sequence of atomic steps (try, register, try again, remove) and so are  *)
(* a release (add, then wake) and the drop of a waiting future.            *)
(***************************************************************************)
EXTENDS WaitFifo, FiniteSets

CONSTANTS Permits,     \* the count the semaphore is created with
          MaxAdded,    \* bound on the permits add_permits hands over in all
          MayForget    \* whether callers use SemaphorePermit::forget

Tasks == Waiters

ASSUME SemaphoreAssumption ==
    /\ IsFiniteSet(Waiters)
    /\ Wakers = Waiters
    /\ NoWaker \notin Waiters
    /\ Permits \in Nat
    /\ MaxAdded \in Nat
    /\ MayForget \in BOOLEAN

VARIABLES permits,
          pc,        \* where each task stands, see TypeOK
          owed,      \* wake_one calls the task still has to make
          asleep,    \* no wake came since the future's last registration
          added, forgotten   \* history: permits added, permits forgotten

vars == <<fifoVars, permits, pc, owed, asleep, added, forgotten>>

\* none: no future, no permit; idle: an Acquire exists, not being polled;
\* try, register, retry, remove: inside Acquire::poll; holding: a permit;
\* dropping: Acquire::drop removed a granted waiter; waking: wake_one calls due.
TypeOK ==
    /\ FifoTypeOK
    /\ permits \in Nat
    /\ pc \in [Tasks -> {"none", "idle", "try", "register", "retry", "remove",
                         "holding", "dropping", "waking"}]
    /\ owed \in [Tasks -> Nat]
    /\ asleep \in [Tasks -> BOOLEAN]
    /\ added \in Nat /\ forgotten \in Nat

Init ==
    /\ FifoInit
    /\ permits = Permits
    /\ pc = [t \in Tasks |-> "none"]
    /\ owed = [t \in Tasks |-> 0]
    /\ asleep = [t \in Tasks |-> FALSE]
    /\ added = 0 /\ forgotten = 0

Goto(t, from, to) == pc[t] = from /\ pc' = [pc EXCEPT ![t] = to]

-----------------------------------------------------------------------------
\* The compare-exchange loop of try_acquire takes effect in one atomic step.
try_acquire(t) ==
    /\ permits > 0
    /\ permits' = permits - 1
    /\ Goto(t, "none", "holding")
    /\ UNCHANGED <<fifoVars, owed, asleep, added, forgotten>>

acquire(t) ==
    /\ Goto(t, "none", "idle")
    /\ UNCHANGED <<fifoVars, permits, owed, asleep, added, forgotten>>

\* A poll may also come without a wake (a combinator polls all its futures).
poll(t) ==
    /\ Goto(t, "idle", "try")
    /\ asleep' = [asleep EXCEPT ![t] = FALSE]
    /\ UNCHANGED <<fifoVars, permits, owed, added, forgotten>>

\* Slip: the count is read and stored in a way that can take a permit twice.
TryAcquireTwice(t, from, otherwise) ==
    /\ IF permits > 0
       THEN Goto(t, from, "remove") /\ permits' = IF permits > 1 THEN permits - 1 ELSE permits
       ELSE Goto(t, from, otherwise) /\ UNCHANGED permits
    /\ UNCHANGED <<fifoVars, owed, asleep, added, forgotten>>

TryAcquire(t, from, otherwise) ==
    /\ IF permits > 0
       THEN Goto(t, from, "remove") /\ permits' = permits - 1
       ELSE Goto(t, from, otherwise) /\ UNCHANGED permits
    /\ UNCHANGED <<fifoVars, owed, asleep, added, forgotten>>

PollTry(t) == TryAcquire(t, "try", "register")

\* Slip: poll parks right after registering, without looking again.
PollRegisterParks(t) ==
    /\ Goto(t, "register", "idle")
    /\ Register(t, t)
    /\ asleep' = [asleep EXCEPT ![t] = TRUE]
    /\ UNCHANGED <<permits, owed, added, forgotten>>

PollRegister(t) ==
    /\ Goto(t, "register", "retry")
    /\ Register(t, t)
    /\ asleep' = [asleep EXCEPT ![t] = TRUE]
    /\ UNCHANGED <<permits, owed, added, forgotten>>

\* The second try: without a permit the poll returns Pending.
PollRetry(t) == TryAcquire(t, "retry", "idle")

\* With a permit in hand poll removes the registration, granted or not.
PollRemove(t) ==
    /\ Goto(t, "remove", "holding")
    /\ Remove(t)
    /\ asleep' = [asleep EXCEPT ![t] = FALSE]
    /\ UNCHANGED <<permits, owed, added, forgotten>>

\* SemaphorePermit::drop and add_permits: the count first, the wakes after.
release(t) ==
    /\ Goto(t, "holding", "waking")
    /\ permits' = permits + 1
    /\ owed' = [owed EXCEPT ![t] = 1]
    /\ UNCHANGED <<fifoVars, asleep, added, forgotten>>

add_permits(t, n) ==
    /\ added + n <= MaxAdded
    /\ Goto(t, "none", "waking")
    /\ permits' = permits + n
    /\ added' = added + n
    /\ owed' = [owed EXCEPT ![t] = n]
    /\ UNCHANGED <<fifoVars, asleep, forgotten>>

forget(t) ==
    /\ MayForget
    /\ Goto(t, "holding", "none")
    /\ forgotten' = forgotten + 1
    /\ UNCHANGED <<fifoVars, permits, owed, asleep, added>>

wake_one(t) ==
    /\ pc[t] = "waking"
    /\ GrantOne
    /\ owed' = [owed EXCEPT ![t] = @ - 1]
    /\ pc' = [pc EXCEPT ![t] = IF owed[t] = 1 THEN "none" ELSE "waking"]
    /\ UNCHANGED <<permits, asleep, added, forgotten>>

WakeTask(t) ==
    /\ Wake(t)
    /\ asleep' = [asleep EXCEPT ![t] = FALSE]
    /\ UNCHANGED <<permits, pc, owed, added, forgotten>>

\* Acquire::drop of a future that has not completed.
drop(t) ==
    /\ Goto(t, "idle", IF kind[t] = "One" THEN "dropping" ELSE "none")
    /\ Remove(t)
    /\ asleep' = [asleep EXCEPT ![t] = FALSE]
    /\ UNCHANGED <<permits, owed, added, forgotten>>

\* Slip: a cancelled waiter never passes its wake-up on.
DropPassOnNever(t) ==
    /\ Goto(t, "dropping", "none")
    /\ UNCHANGED <<fifoVars, permits, owed, asleep, added, forgotten>>

\* It had been granted: pass the wake-up on if a permit is there to be had.
DropPassOn(t) ==
    /\ Goto(t, "dropping", IF permits # 0 THEN "waking" ELSE "none")
    /\ owed' = [owed EXCEPT ![t] = IF permits # 0 THEN 1 ELSE 0]
    /\ UNCHANGED <<fifoVars, permits, asleep, added, forgotten>>

Next ==
    \E t \in Tasks :
        \/ try_acquire(t)
        \/ acquire(t)
        \/ poll(t)
        \/ PollTry(t)
        \/ PollRegister(t)
        \/ PollRetry(t)
        \/ PollRemove(t)
        \/ release(t)
        \/ \E n \in 1..MaxAdded : add_permits(t, n)
        \/ forget(t)
        \/ wake_one(t)
        \/ WakeTask(t)
        \/ drop(t)
        \/ DropPassOn(t)

Spec == Init /\ [][Next]_vars

\* A thread inside a call finishes it, a woken task polls again, and a task
\* that holds a permit gives it back.
Step(t) ==
    \/ PollTry(t) \/ PollRegister(t) \/ PollRetry(t) \/ PollRemove(t)
    \/ wake_one(t) \/ DropPassOn(t)

Fairness ==
    \A t \in Tasks :
        /\ WF_vars(Step(t))
        /\ WF_vars(WakeTask(t))
        /\ WF_vars(poll(t) /\ ~asleep[t])
        /\ WF_vars(release(t))

FairSpec == Spec /\ Fairness

-----------------------------------------------------------------------------
(* Properties                                                              *)

Holders == {t \in Tasks : pc[t] \in {"remove", "holding"}}

\* No permit is lost or made: what is free, held and forgotten is what the
\* semaphore was created with plus what add_permits handed over.
PermitsConserved ==
    permits + Cardinality(Holders) + forgotten = Permits + added

\* A pending future can be woken: it is queued with its task's waker, or that
\* waker was taken by a wake_one and is about to be invoked.
SleeperReachable ==
    \A t \in Tasks :
        asleep[t] => t \in wakes \/ (kind[t] = "Queued" /\ waker[t] = t)

Sleepers == {t \in Tasks : pc[t] = "idle" /\ asleep[t]}

\* Nothing is under way: no thread is inside a call, no waker is about to be
\* invoked, and every waiting task sleeps.
Quiet ==
    /\ wakes = {}
    /\ \A t \in Tasks : pc[t] \in {"none", "holding"} \/ t \in Sleepers

\* The comment in add_permits says what must not happen: waiters that "would
\* sleep through permits that are already available".
NoSleepThroughPermits == Quiet /\ Sleepers # {} => permits = 0

\* What the code does keep: a task sleeps through a free permit only while
\* another one holds a permit (or has forgotten one) whose return wakes it.
SleepThroughIsBacked ==
    Quiet /\ Sleepers # {} /\ permits > 0 => Holders # {} \/ forgotten > 0

\* So while permits are given back and none is forgotten, a task that sleeps
\* although a permit is free is woken, or the permit is taken by another.
FreePermitFound ==
    \A t \in Tasks :
        (t \in Sleepers /\ permits > 0)
            ~> (t \notin Sleepers \/ permits = 0 \/ forgotten > 0)
=============================================================================
