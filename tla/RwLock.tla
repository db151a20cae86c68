-------------------------------- MODULE RwLock --------------------------------
(***************************************************************************)
(* RwLock of sync.rs with its guards and its four futures (Read, Write,    *)
(* ReadOwned, WriteOwned, which differ only in how they hold the lock).    *)
(* The lock word is an atomic of its own: 0 free, WRITER one writer, any   *)
(* other value the number of readers.  A poll tries, registers, tries      *)
(* again; a release changes the word and then wakes every waiter.          *)
(***************************************************************************)
EXTENDS WaitFifo, FiniteSets

CONSTANT WRITER   \* usize::MAX

Tasks == Waiters

\* A reader is a live guard, so there are fewer of them than WRITER.
ASSUME RwLockAssumption ==
    /\ IsFiniteSet(Waiters)
    /\ Wakers = Waiters
    /\ NoWaker \notin Waiters
    /\ WRITER \in Nat
    /\ Cardinality(Waiters) < WRITER

VARIABLES state, pc, mode, asleep

vars == <<fifoVars, state, pc, mode, asleep>>

\* none: no future, no guard; idle: a future exists, not being polled; try,
\* register, retry, remove: inside poll; holding: a guard; waking: released,
\* wake_all due.  mode is what the task's future or guard is for ("read" where
\* there is none).
TypeOK ==
    /\ FifoTypeOK
    /\ state \in 0..WRITER
    /\ pc \in [Tasks -> {"none", "idle", "try", "register", "retry", "remove",
                         "holding", "waking"}]
    /\ mode \in [Tasks -> {"read", "write"}]
    /\ asleep \in [Tasks -> BOOLEAN]

Init ==
    /\ FifoInit
    /\ state = 0
    /\ pc = [t \in Tasks |-> "none"]
    /\ mode = [t \in Tasks |-> "read"]
    /\ asleep = [t \in Tasks |-> FALSE]

Goto(t, from, to) == pc[t] = from /\ pc' = [pc EXCEPT ![t] = to]

-----------------------------------------------------------------------------
\* Slip: a writer checks only for another writer.
LockableWriterOnly(m) == state # WRITER

\* try_read_raw fails only on WRITER, try_write_raw on anything but 0.
Lockable(m) == IF m = "read" THEN state # WRITER ELSE state = 0

Locked(m) == IF m = "read" THEN state + 1 ELSE WRITER

\* try_read, try_write and their owned forms, when they succeed.
try_lock(t, m) ==
    /\ Goto(t, "none", "holding")
    /\ Lockable(m)
    /\ state' = Locked(m)
    /\ mode' = [mode EXCEPT ![t] = m]
    /\ UNCHANGED <<fifoVars, asleep>>

\* read, write, read_owned, write_owned: the future is made, unregistered.
lock(t, m) ==
    /\ Goto(t, "none", "idle")
    /\ mode' = [mode EXCEPT ![t] = m]
    /\ UNCHANGED <<fifoVars, state, asleep>>

poll(t) ==
    /\ Goto(t, "idle", "try")
    /\ asleep' = [asleep EXCEPT ![t] = FALSE]
    /\ UNCHANGED <<fifoVars, state, mode>>

TryLock(t, from, otherwise) ==
    /\ IF Lockable(mode[t])
       THEN Goto(t, from, "remove") /\ state' = Locked(mode[t])
       ELSE Goto(t, from, otherwise) /\ UNCHANGED state
    /\ UNCHANGED <<fifoVars, mode, asleep>>

PollTry(t) == TryLock(t, "try", "register")

\* Slip: the task parks right after registering, without trying again.
PollRegisterParks(t) ==
    /\ Goto(t, "register", "idle")
    /\ Register(t, t)
    /\ asleep' = [asleep EXCEPT ![t] = TRUE]
    /\ UNCHANGED <<state, mode>>

PollRegister(t) ==
    /\ Goto(t, "register", "retry")
    /\ Register(t, t)
    /\ asleep' = [asleep EXCEPT ![t] = TRUE]
    /\ UNCHANGED <<state, mode>>

PollRetry(t) == TryLock(t, "retry", "idle")

PollRemove(t) ==
    /\ Goto(t, "remove", "holding")
    /\ Remove(t)
    /\ asleep' = [asleep EXCEPT ![t] = FALSE]
    /\ UNCHANGED <<state, mode>>

\* Slip: the wake-up is decided on the count after the subtraction.
release_readStale(t) ==
    /\ mode[t] = "read"
    /\ state' = state - 1
    /\ Goto(t, "holding", IF state = 2 THEN "waking" ELSE "none")
    /\ UNCHANGED <<fifoVars, mode, asleep>>

\* The last reader out wakes the waiters.
release_read(t) ==
    /\ mode[t] = "read"
    /\ state' = state - 1
    /\ Goto(t, "holding", IF state = 1 THEN "waking" ELSE "none")
    /\ UNCHANGED <<fifoVars, mode, asleep>>

release_write(t) ==
    /\ mode[t] = "write"
    /\ state' = 0
    /\ Goto(t, "holding", "waking")
    /\ mode' = [mode EXCEPT ![t] = "read"]
    /\ UNCHANGED <<fifoVars, asleep>>

wake_all(t) ==
    /\ Goto(t, "waking", "none")
    /\ GrantAll
    /\ UNCHANGED <<state, mode, asleep>>

WakeTask(t) ==
    /\ Wake(t)
    /\ asleep' = [asleep EXCEPT ![t] = FALSE]
    /\ UNCHANGED <<state, pc, mode>>

\* Dropping a future that has not completed: nothing to pass on, since every
\* release wakes everyone.
drop(t) ==
    /\ Goto(t, "idle", "none")
    /\ Remove(t)
    /\ asleep' = [asleep EXCEPT ![t] = FALSE]
    /\ mode' = [mode EXCEPT ![t] = "read"]
    /\ UNCHANGED state

Next ==
    \E t \in Tasks :
        \/ \E m \in {"read", "write"} : try_lock(t, m) \/ lock(t, m)
        \/ poll(t)
        \/ PollTry(t)
        \/ PollRegister(t)
        \/ PollRetry(t)
        \/ PollRemove(t)
        \/ release_read(t)
        \/ release_write(t)
        \/ wake_all(t)
        \/ WakeTask(t)
        \/ drop(t)

Spec == Init /\ [][Next]_vars

\* A thread inside a call finishes it, a woken task polls again, and a task
\* that holds a guard drops it.
Step(t) ==
    PollTry(t) \/ PollRegister(t) \/ PollRetry(t) \/ PollRemove(t) \/ wake_all(t)

Fairness ==
    \A t \in Tasks :
        /\ WF_vars(Step(t))
        /\ WF_vars(WakeTask(t))
        /\ WF_vars(poll(t) /\ ~asleep[t])
        /\ WF_vars(release_read(t) \/ release_write(t))

FairSpec == Spec /\ Fairness

-----------------------------------------------------------------------------
(* Properties                                                              *)

Readers == {t \in Tasks : mode[t] = "read" /\ pc[t] \in {"remove", "holding"}}
Writers == {t \in Tasks : mode[t] = "write" /\ pc[t] \in {"remove", "holding"}}

\* The SAFETY comment of the Send and Sync impls: the word admits one writer
\* or any number of readers and never both.
Exclusion == \A w \in Writers, t \in Readers \cup Writers : t = w

\* The word says exactly who holds the lock, so that no release can underflow
\* it or leave it locked for ever.
WordIsExact == state = IF Writers # {} THEN WRITER ELSE Cardinality(Readers)

\* The lock excludes, and its word shows it: the SAFETY comments of the guards
\* rest on the two together.
LockIsExact == TypeOK /\ Exclusion /\ WordIsExact

\* A sleeping task can be woken: it is queued with its own waker, or a
\* releaser took that waker and is about to invoke it.
SleeperReachable ==
    \A t \in Tasks :
        asleep[t] => t \in wakes \/ (kind[t] = "Queued" /\ waker[t] = t)

Sleeping(t) == pc[t] = "idle" /\ asleep[t] /\ t \notin wakes

\* No task sleeps beside a lock it could take: a reader sleeps behind a writer
\* only, a writer behind any guard, or a release is about to wake everyone.
NoSleepBesideFreeLock ==
    \A t \in Tasks :
        Sleeping(t) /\ Lockable(mode[t]) => \E r \in Tasks : pc[r] = "waking"

\* No wake-up is lost: every sleeper's waker is within reach, and none sleeps
\* beside a lock it could take.
SleepIsSafe == SleeperReachable /\ NoSleepBesideFreeLock

\* The lock is not fair, so readers that overlap for ever starve a writer; but
\* whenever the lock becomes free again and again, every waiter is woken.
WokenWhenFreed ==
    []<>(state = 0) => \A t \in Tasks : Sleeping(t) ~> ~Sleeping(t)
=============================================================================
