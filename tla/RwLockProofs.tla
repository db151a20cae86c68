---------------------------- MODULE RwLockProofs ----------------------------
(***************************************************************************)
(* For any number of tasks: the lock word counts the guards exactly, a     *)
(* writer excludes everyone else, and no task sleeps beside a lock it      *)
(* could take unless a release is about to wake it.                        *)
(***************************************************************************)
EXTENDS RwLock, WaitFifoProofs, FiniteSetTheorems

\* A future that registered and was not woken is in or between its polls.
AsleepInPoll ==
    \A t \in Tasks : asleep[t] => pc[t] \in {"retry", "idle", "remove"}

\* The guards and the word.
Counted == Exclusion /\ WordIsExact

\* The sleepers and the wake-ups on their way.
Wakeful == AsleepInPoll /\ SleeperReachable /\ NoSleepBesideFreeLock

Inv == TypeOK /\ QueueExact /\ Counted /\ Wakeful

-----------------------------------------------------------------------------
\* The readers are finitely many tasks, so their number is a natural.
LEMMA HoldersFinite ==
    ASSUME TypeOK
    PROVE  /\ IsFiniteSet(Readers) /\ Cardinality(Readers) \in Nat
           /\ Cardinality(Readers) <= Cardinality(Tasks)
           /\ Cardinality(Readers) < WRITER
<1>1. Readers \subseteq Tasks
  BY DEF Readers
<1> QED
  BY <1>1, FS_Subset, FS_CardinalityType, RwLockAssumption DEF Tasks

\* The queue and the types, for every step.
LEMMA TypeStep ==
    ASSUME TypeOK, QueueExact, Counted, [Next]_vars
    PROVE  TypeOK' /\ QueueExact'
<1> USE DEF TypeOK, Tasks, Goto
<1>0. FifoInv
  BY DEF FifoInv
<1>u. ASSUME UNCHANGED fifoVars PROVE FifoTypeOK' /\ QueueExact'
  BY <1>0, <1>u DEF fifoVars, FifoInv, FifoTypeOK, QueueExact
<1>w. WRITER \in Nat /\ Wakers = Waiters
  BY RwLockAssumption
<1>1. ASSUME NEW t \in Tasks, NEW m \in {"read", "write"}, try_lock(t, m) \/ lock(t, m)
      PROVE  TypeOK' /\ QueueExact'
  BY <1>1, <1>u, <1>w DEF try_lock, lock, Lockable, Locked
<1>2. ASSUME NEW t \in Tasks, poll(t) \/ PollTry(t) \/ PollRetry(t)
      PROVE  TypeOK' /\ QueueExact'
  <2>1. CASE poll(t)
    BY <2>1, <1>u DEF poll
  <2>2. ASSUME NEW from, NEW to \in {"register", "idle"}, TryLock(t, from, to)
        PROVE  TypeOK' /\ QueueExact'
    BY <2>2, <1>u, <1>w DEF TryLock, Lockable, Locked
  <2> QED
    BY <1>2, <2>1, <2>2 DEF PollTry, PollRetry
<1>3. ASSUME NEW t \in Tasks, PollRegister(t)
      PROVE  TypeOK' /\ QueueExact'
  <2>1. FifoInv'
    BY <1>0, <1>3, <1>w, RegisterInv DEF PollRegister
  <2> QED
    BY <2>1, <1>3 DEF FifoInv, PollRegister
<1>4. ASSUME NEW t \in Tasks, PollRemove(t) \/ drop(t)
      PROVE  TypeOK' /\ QueueExact'
  <2>1. FifoInv'
    BY <1>0, <1>4, RemoveInv DEF PollRemove, drop
  <2> QED
    BY <2>1, <1>4 DEF FifoInv, PollRemove, drop
<1>5. ASSUME NEW t \in Tasks, release_read(t)
      PROVE  TypeOK' /\ QueueExact'
  <2>1. t \in Readers
    BY <1>5 DEF release_read, Readers
  <2>2. Writers = {} /\ state = Cardinality(Readers)
    BY <2>1, <1>5 DEF Counted, Exclusion, WordIsExact, release_read, Writers, Readers
  <2>3. state > 0
    BY <2>1, <2>2, HoldersFinite, FS_EmptySet
  <2> QED
    BY <2>3, <1>5, <1>u, <1>w DEF release_read
<1>6. ASSUME NEW t \in Tasks, release_write(t)
      PROVE  TypeOK' /\ QueueExact'
  BY <1>6, <1>u, <1>w DEF release_write
<1>7. ASSUME NEW t \in Tasks, wake_all(t)
      PROVE  TypeOK' /\ QueueExact'
  <2>1. FifoInv'
    BY <1>0, <1>7, GrantAllInv DEF wake_all
  <2> QED
    BY <2>1, <1>7 DEF FifoInv, wake_all
<1>8. ASSUME NEW t \in Tasks, WakeTask(t)
      PROVE  TypeOK' /\ QueueExact'
  <2>1. FifoInv'
    BY <1>0, <1>8, WakeInv DEF WakeTask
  <2> QED
    BY <2>1, <1>8 DEF FifoInv, WakeTask
<1>9. CASE UNCHANGED vars
  BY <1>9, <1>u DEF vars
<1> QED
  BY <1>1, <1>2, <1>3, <1>4, <1>5, <1>6, <1>7, <1>8, <1>9 DEF Next

-----------------------------------------------------------------------------
\* Taking the lock, by try_lock or inside a poll.
LEMMA TakeCounted ==
    ASSUME Inv, NEW t \in Tasks, NEW m \in {"read", "write"}, Lockable(m),
           state' = Locked(m), t \notin Readers \cup Writers,
           IF m = "read" THEN Readers' = Readers \cup {t} /\ Writers' = Writers
                         ELSE Readers' = Readers /\ Writers' = Writers \cup {t}
    PROVE  Counted'
<1> USE DEF Inv, Counted, WordIsExact
<1>0. /\ IsFiniteSet(Readers) /\ Cardinality(Readers) \in Nat
      /\ Cardinality(Readers) < WRITER
  BY HoldersFinite
<1>1. Writers = {}
  BY <1>0, RwLockAssumption DEF Lockable, TypeOK
<1>2. CASE m = "read"
  <2>1. Cardinality(Readers \cup {t}) = Cardinality(Readers) + 1
    BY <1>0, FS_AddElement
  <2> QED
    BY <1>1, <1>2, <2>1 DEF Locked, Exclusion
<1>3. CASE m = "write"
  <2>1. Readers = {}
    BY <1>0, <1>1, <1>3, FS_EmptySet DEF Lockable
  <2> QED
    BY <1>1, <1>3, <2>1 DEF Locked, Exclusion
<1> QED
  BY <1>2, <1>3

\* Every step keeps the word equal to what the guards are, and a writer alone.
LEMMA CountStep ==
    ASSUME Inv, [Next]_vars
    PROVE  Counted'
<1> USE DEF Tasks, Goto
<1>t. TypeOK
  BY DEF Inv
<1>k. ASSUME Readers' = Readers, Writers' = Writers, state' = state
      PROVE  Counted'
  BY <1>k DEF Inv, Counted, Exclusion, WordIsExact
<1>1. ASSUME NEW t \in Tasks, NEW m \in {"read", "write"}, try_lock(t, m)
      PROVE  Counted'
  <2>1. t \notin Readers \cup Writers
    BY <1>1 DEF try_lock, Readers, Writers
  <2>2. IF m = "read" THEN Readers' = Readers \cup {t} /\ Writers' = Writers
                      ELSE Readers' = Readers /\ Writers' = Writers \cup {t}
    BY <1>1, <1>t DEF try_lock, Readers, Writers, TypeOK
  <2> QED
    BY <1>1, <2>1, <2>2, TakeCounted DEF try_lock
<1>2. ASSUME NEW t \in Tasks, NEW m \in {"read", "write"}, lock(t, m)
      PROVE  Counted'
  <2>1. Readers' = Readers /\ Writers' = Writers
    BY <1>2, <1>t DEF lock, Readers, Writers, TypeOK
  <2> QED
    BY <1>2, <1>k, <2>1 DEF lock
<1>3. ASSUME NEW t \in Tasks, poll(t) \/ PollRegister(t) \/ PollRemove(t)
                               \/ wake_all(t) \/ WakeTask(t) \/ drop(t)
      PROVE  Counted'
  <2>1. Readers' = Readers /\ Writers' = Writers
    BY <1>3, <1>t DEF poll, PollRegister, PollRemove, wake_all, WakeTask, drop,
                      Readers, Writers, TypeOK
  <2> QED
    BY <1>3, <1>k, <2>1 DEF poll, PollRegister, PollRemove, wake_all, WakeTask, drop
<1>4. ASSUME NEW t \in Tasks, NEW from \in {"try", "retry"}, NEW to \in {"register", "idle"},
             TryLock(t, from, to)
      PROVE  Counted'
  <2>1. CASE Lockable(mode[t])
    <3>1. t \notin Readers \cup Writers
      BY <1>4 DEF TryLock, Readers, Writers
    <3>2. IF mode[t] = "read" THEN Readers' = Readers \cup {t} /\ Writers' = Writers
                              ELSE Readers' = Readers /\ Writers' = Writers \cup {t}
      BY <1>4, <1>t, <2>1 DEF TryLock, Readers, Writers, TypeOK
    <3>3. mode[t] \in {"read", "write"}
      BY <1>t DEF TypeOK
    <3>4. state' = Locked(mode[t])
      BY <1>4, <2>1 DEF TryLock
    <3> QED
      BY <2>1, <3>1, <3>2, <3>3, <3>4, TakeCounted
  <2>2. CASE ~Lockable(mode[t])
    <3>1. Readers' = Readers /\ Writers' = Writers
      BY <1>4, <1>t, <2>2 DEF TryLock, Readers, Writers, TypeOK
    <3> QED
      BY <1>4, <1>k, <2>2, <3>1 DEF TryLock
  <2> QED
    BY <2>1, <2>2
<1>5. ASSUME NEW t \in Tasks, release_read(t)
      PROVE  Counted'
  <2>1. t \in Readers
    BY <1>5 DEF release_read, Readers
  <2>2. Readers' = Readers \ {t} /\ Writers' = Writers
    BY <1>5, <1>t DEF release_read, Readers, Writers, TypeOK
  <2>3. Writers = {}
    BY <2>1 DEF Inv, Counted, Exclusion, Readers, Writers
  <2>4. Cardinality(Readers \ {t}) = Cardinality(Readers) - 1
    BY <1>t, <2>1, HoldersFinite, FS_RemoveElement
  <2> QED
    BY <1>5, <2>2, <2>3, <2>4 DEF release_read, Inv, Counted, Exclusion, WordIsExact
<1>6. ASSUME NEW t \in Tasks, release_write(t)
      PROVE  Counted'
  <2>1. t \in Writers
    BY <1>6 DEF release_write, Writers
  <2>2. Readers = {} /\ Writers = {t}
    BY <2>1 DEF Inv, Counted, Exclusion, Readers, Writers
  <2>3. Readers' = {} /\ Writers' = {}
    BY <1>6, <1>t, <2>2 DEF release_write, Readers, Writers, TypeOK
  <2> QED
    BY <1>6, <2>3, FS_EmptySet DEF release_write, Counted, Exclusion, WordIsExact
<1>7. CASE UNCHANGED vars
  BY <1>7, <1>k DEF vars, Readers, Writers
<1> QED
  BY <1>1, <1>2, <1>3, <1>4, <1>5, <1>6, <1>7 DEF Next, PollTry, PollRetry

-----------------------------------------------------------------------------
\* No step leaves a task asleep out of reach, or beside a lock it could take.
LEMMA WakefulStep ==
    ASSUME Inv, [Next]_vars
    PROVE  Wakeful'
<1> USE DEF Tasks, Goto
<1>t. TypeOK /\ Wakeful /\ Wakers = Waiters /\ NoWaker \notin Waiters
  BY RwLockAssumption DEF Inv
<1> USE DEF TypeOK, FifoTypeOK, Wakeful, AsleepInPoll, SleeperReachable,
            NoSleepBesideFreeLock, Sleeping
<1>1. ASSUME NEW t \in Tasks, NEW m \in {"read", "write"}, try_lock(t, m)
      PROVE  Wakeful'
  <2>1. \A r \in Tasks : Lockable(mode[r])' /\ r # t => Lockable(mode[r])
    BY <1>1, <1>t DEF try_lock, Lockable, Locked
  <2> QED
    BY <1>1, <1>t, <2>1 DEF try_lock, fifoVars
<1>2. ASSUME NEW t \in Tasks, NEW m \in {"read", "write"}, lock(t, m)
      PROVE  Wakeful'
  BY <1>2, <1>t DEF lock, fifoVars, Lockable
<1>3. ASSUME NEW t \in Tasks, poll(t)
      PROVE  Wakeful'
  BY <1>3, <1>t DEF poll, fifoVars, Lockable
<1>4. ASSUME NEW t \in Tasks, PollRegister(t)
      PROVE  Wakeful'
  BY <1>4, <1>t DEF PollRegister, Register, Lockable
<1>5. ASSUME NEW t \in Tasks, PollTry(t) \/ PollRetry(t)
      PROVE  Wakeful'
  <2>1. CASE Lockable(mode[t])
    <3>1. \A r \in Tasks : Lockable(mode[r])' => Lockable(mode[r])
      BY <1>5, <1>t, <2>1 DEF PollTry, PollRetry, TryLock, Lockable, Locked
    <3> QED
      BY <1>5, <1>t, <2>1, <3>1 DEF PollTry, PollRetry, TryLock, fifoVars
  <2>2. CASE ~Lockable(mode[t])
    BY <1>5, <1>t, <2>2 DEF PollTry, PollRetry, TryLock, fifoVars, Lockable
  <2> QED
    BY <2>1, <2>2
<1>6. ASSUME NEW t \in Tasks, PollRemove(t) \/ drop(t)
      PROVE  Wakeful'
  BY <1>6, <1>t DEF PollRemove, drop, Remove, Lockable
<1>7. ASSUME NEW t \in Tasks, release_read(t)
      PROVE  Wakeful'
  <2>1. CASE state = 1
    BY <1>7, <1>t, <2>1 DEF release_read, fifoVars
  <2>2. CASE state # 1
    <3>1. \A r \in Tasks : Lockable(mode[r])' => Lockable(mode[r])
      <4>1. t \in Readers
        BY <1>7 DEF release_read, Readers
      <4>2. Writers = {} /\ state = Cardinality(Readers)
        BY <4>1 DEF Inv, Counted, Exclusion, WordIsExact, Writers, Readers
      <4>3. state \in Nat /\ state > 0 /\ state < WRITER /\ WRITER \in Nat
        BY <4>1, <4>2, <1>t, HoldersFinite, FS_EmptySet, RwLockAssumption
      <4> QED
        BY <1>7, <1>t, <2>2, <4>3 DEF release_read, Lockable
    <3> QED
      BY <1>7, <1>t, <2>2, <3>1 DEF release_read, fifoVars
  <2> QED
    BY <2>1, <2>2
<1>8. ASSUME NEW t \in Tasks, release_write(t)
      PROVE  Wakeful'
  BY <1>8, <1>t DEF release_write, fifoVars
<1>9. ASSUME NEW t \in Tasks, wake_all(t)
      PROVE  Wakeful'
  <2>1. \A r \in Tasks : asleep[r] => r \in wakes'
    BY <1>9, <1>t DEF wake_all, GrantAll
  <2>2. asleep' = asleep /\ AsleepInPoll'
    BY <1>9, <1>t DEF wake_all
  <2> QED
    BY <2>1, <2>2
<1>10. ASSUME NEW t \in Tasks, WakeTask(t)
       PROVE  Wakeful'
  BY <1>10, <1>t DEF WakeTask, Wake, Lockable
<1>11. CASE UNCHANGED vars
  BY <1>11, <1>t DEF vars, fifoVars, Lockable
<1> QED
  BY <1>1, <1>2, <1>3, <1>4, <1>5, <1>6, <1>7, <1>8, <1>9, <1>10, <1>11 DEF Next

\* The inductive invariant holds in every reachable state.
LEMMA InvHolds == Spec => []Inv
<1>1. Init => Inv
  <2> SUFFICES ASSUME Init PROVE Inv
    OBVIOUS
  <2>1. TypeOK /\ QueueExact
    BY RwLockAssumption DEF Init, FifoInit, TypeOK, FifoTypeOK, QueueExact, Kinds, Tasks
  <2>2. Readers = {} /\ Writers = {}
    BY DEF Init, Readers, Writers, Tasks
  <2>3. Counted
    BY <2>2, FS_EmptySet DEF Init, Counted, Exclusion, WordIsExact
  <2>4. Wakeful
    BY DEF Init, Wakeful, AsleepInPoll, SleeperReachable, NoSleepBesideFreeLock,
           Sleeping, Tasks
  <2> QED
    BY <2>1, <2>3, <2>4 DEF Inv
<1>2. Inv /\ [Next]_vars => Inv'
  BY TypeStep, CountStep, WakefulStep DEF Inv
<1> QED
  BY <1>1, <1>2, PTL DEF Spec

\* Every step of every task keeps the state of the lock well typed; above all
\* the word stays in 0..WRITER, so release_read never underflows it.
THEOREM TypeCorrect == Spec => []TypeOK
<1>1. Inv => TypeOK
  BY DEF Inv
<1> QED
  BY <1>1, InvHolds, PTL

\* A writer's guard is the only guard (the SAFETY comments of the guards).
THEOREM MutualExclusion == Spec => []Exclusion
<1>1. Inv => Exclusion
  BY DEF Inv, Counted
<1> QED
  BY <1>1, InvHolds, PTL

\* The lock word is the number of readers, or WRITER while a writer holds it.
THEOREM WordCountsGuards == Spec => []WordIsExact
<1>1. Inv => WordIsExact
  BY DEF Inv, Counted
<1> QED
  BY <1>1, InvHolds, PTL

\* A task asleep in a read or write is queued with its waker, or a releaser is
\* about to invoke that waker.
THEOREM SleepersCanBeWoken == Spec => []SleeperReachable
<1>1. Inv => SleeperReachable
  BY DEF Inv, Wakeful
<1> QED
  BY <1>1, InvHolds, PTL

\* No wake-up is lost between the try and the registration of a poll: a task
\* that sleeps although it could take the lock has a release on its way.
THEOREM NoLostWakeup == Spec => []SleepIsSafe
<1>1. Inv => NoSleepBesideFreeLock
  BY DEF Inv, Wakeful
<1>2. SleeperReachable /\ NoSleepBesideFreeLock => SleepIsSafe
  BY DEF SleepIsSafe
<1> QED
  BY <1>1, <1>2, InvHolds, SleepersCanBeWoken, PTL

\* The word admits one writer or readers and counts them exactly, for any
\* number of tasks: the claim of the SAFETY comments of the guards.
THEOREM LockIsSound == Spec => []LockIsExact
<1>1. TypeOK /\ Exclusion /\ WordIsExact => LockIsExact
  BY DEF LockIsExact
<1> QED
  BY <1>1, TypeCorrect, MutualExclusion, WordCountsGuards, PTL
=============================================================================
