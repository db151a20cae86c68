--------------------------- MODULE SemaphoreProofs ---------------------------
(***************************************************************************)
(* For any number of tasks and permits: no permit is lost or made, a task  *)
(* that sleeps in Acquire can be woken, and it sleeps through a free       *)
(* permit only while another one is out.                                   *)
(***************************************************************************)
EXTENDS Semaphore, WaitFifoProofs, FiniteSetTheorems

\* A thread that is waking still owes at least one wake_one.
WakingOwes == \A t \in Tasks : pc[t] = "waking" => owed[t] > 0

\* A registration belongs to a future that exists and has not completed.
RegisteredInPoll ==
    \A t \in Tasks : kind[t] # "None" => pc[t] \in {"idle", "try", "register", "retry", "remove"}

\* Who will yet look at the permits, or wake somebody who does: a poll before
\* its last try, a future that was granted a wake-up (it polls, or its drop
\* passes the wake-up on), and a thread with wake_one calls to make.
WillLook(t) ==
    pc[t] \in {"try", "register", "retry", "dropping", "waking"} \/ kind[t] = "One"

\* Beside a free permit with none held or forgotten, the queue is not left to
\* itself.  Quiet is not enough to carry this from step to step: a future that
\* was never polled is not quiet, and nothing follows from its drop.
QueueIsAttended ==
    (\E t \in Tasks : kind[t] = "Queued") /\ permits > 0 /\ Holders = {} /\ forgotten = 0
        => \E u \in Tasks : WillLook(u)

Inv == /\ TypeOK /\ QueueExact /\ WakingOwes /\ PermitsConserved /\ SleeperReachable
       /\ RegisteredInPoll /\ QueueIsAttended

-----------------------------------------------------------------------------
\* The queue, the types and the wake-ups owed, for every step.
LEMMA TypeStep ==
    ASSUME TypeOK, QueueExact, WakingOwes, [Next]_vars
    PROVE  TypeOK' /\ QueueExact' /\ WakingOwes'
<1> USE DEF TypeOK, WakingOwes, Tasks, Goto
<1>0. FifoInv
  BY DEF FifoInv
<1>u. ASSUME UNCHANGED fifoVars PROVE FifoTypeOK' /\ QueueExact'
  BY <1>0, <1>u DEF fifoVars, FifoInv, FifoTypeOK, QueueExact
<1>w. Wakers = Waiters /\ MaxAdded \in Nat
  BY SemaphoreAssumption
<1>1. ASSUME NEW t \in Tasks, try_acquire(t) \/ acquire(t) \/ poll(t)
      PROVE  TypeOK' /\ QueueExact' /\ WakingOwes'
  <2>1. CASE try_acquire(t)
    BY <2>1, <1>u DEF try_acquire
  <2>2. CASE acquire(t)
    BY <2>2, <1>u DEF acquire
  <2>3. CASE poll(t)
    BY <2>3, <1>u DEF poll
  <2> QED
    BY <1>1, <2>1, <2>2, <2>3
<1>2. ASSUME NEW t \in Tasks, NEW from, NEW to \in {"register", "idle"},
             TryAcquire(t, from, to)
      PROVE  TypeOK' /\ QueueExact' /\ WakingOwes'
  BY <1>2, <1>u DEF TryAcquire
<1>3. ASSUME NEW t \in Tasks, PollRegister(t)
      PROVE  TypeOK' /\ QueueExact' /\ WakingOwes'
  <2>1. FifoInv'
    BY <1>0, <1>3, <1>w, RegisterInv DEF PollRegister
  <2> QED
    BY <2>1, <1>3 DEF FifoInv, PollRegister
<1>4. ASSUME NEW t \in Tasks, PollRemove(t) \/ drop(t)
      PROVE  TypeOK' /\ QueueExact' /\ WakingOwes'
  <2>1. FifoInv'
    BY <1>0, <1>4, RemoveInv DEF PollRemove, drop
  <2> QED
    BY <2>1, <1>4 DEF FifoInv, PollRemove, drop
<1>5. ASSUME NEW t \in Tasks, release(t) \/ forget(t)
      PROVE  TypeOK' /\ QueueExact' /\ WakingOwes'
  BY <1>5, <1>u DEF release, forget
<1>6. ASSUME NEW t \in Tasks, NEW n \in 1..MaxAdded, add_permits(t, n)
      PROVE  TypeOK' /\ QueueExact' /\ WakingOwes'
  BY <1>6, <1>u, <1>w DEF add_permits
<1>7. ASSUME NEW t \in Tasks, wake_one(t)
      PROVE  TypeOK' /\ QueueExact' /\ WakingOwes'
  <2>1. FifoInv'
    BY <1>0, <1>7, GrantOneInv DEF wake_one
  <2> QED
    BY <2>1, <1>7 DEF FifoInv, wake_one
<1>8. ASSUME NEW t \in Tasks, WakeTask(t)
      PROVE  TypeOK' /\ QueueExact' /\ WakingOwes'
  <2>1. FifoInv'
    BY <1>0, <1>8, WakeInv DEF WakeTask
  <2> QED
    BY <2>1, <1>8 DEF FifoInv, WakeTask
<1>9. ASSUME NEW t \in Tasks, DropPassOn(t)
      PROVE  TypeOK' /\ QueueExact' /\ WakingOwes'
  BY <1>9, <1>u DEF DropPassOn
<1>10. CASE UNCHANGED vars
  BY <1>10, <1>u DEF vars
<1> QED
  BY <1>1, <1>2, <1>3, <1>4, <1>5, <1>6, <1>7, <1>8, <1>9, <1>10
     DEF Next, PollTry, PollRetry

-----------------------------------------------------------------------------
\* The holders are finitely many tasks, so their number is a natural.
LEMMA HoldersFinite ==
    ASSUME TypeOK
    PROVE  IsFiniteSet(Holders) /\ Cardinality(Holders) \in Nat
<1>1. Holders \subseteq Waiters
  BY DEF Holders, Tasks
<1> QED
  BY <1>1, FS_Subset, FS_CardinalityType, SemaphoreAssumption

\* A step that takes a permit adds a holder, one that returns or forgets it
\* removes one; every other step leaves the holders alone.
LEMMA ConservedStep ==
    ASSUME Inv, [Next]_vars
    PROVE  PermitsConserved'
<1> USE DEF Tasks, Goto
<1>t. /\ TypeOK /\ PermitsConserved
      /\ IsFiniteSet(Holders) /\ Cardinality(Holders) \in Nat
      /\ Permits \in Nat /\ MaxAdded \in Nat
  BY HoldersFinite, SemaphoreAssumption DEF Inv
<1>in. ASSUME NEW t, t \notin Holders
       PROVE  Cardinality(Holders \cup {t}) = Cardinality(Holders) + 1
  BY <1>t, <1>in, FS_AddElement
<1>out. ASSUME NEW t \in Holders
        PROVE  Cardinality(Holders \ {t}) = Cardinality(Holders) - 1
  BY <1>t, <1>out, FS_RemoveElement
<1> USE DEF TypeOK, PermitsConserved
<1>1. ASSUME NEW t \in Tasks, try_acquire(t)
      PROVE  PermitsConserved'
  <2>1. t \notin Holders /\ Holders' = Holders \cup {t}
    BY <1>1, <1>t DEF try_acquire, Holders
  <2>2. Cardinality(Holders') = Cardinality(Holders) + 1
    BY <2>1, <1>in
  <2> QED
    BY <1>1, <1>t, <2>2 DEF try_acquire
<1>2. ASSUME NEW t \in Tasks, NEW from \in {"try", "retry"}, NEW to \in {"register", "idle"},
             TryAcquire(t, from, to)
      PROVE  PermitsConserved'
  <2>1. CASE permits > 0
    <3>1. t \notin Holders /\ Holders' = Holders \cup {t}
      BY <1>2, <1>t, <2>1 DEF TryAcquire, Holders
    <3>2. Cardinality(Holders') = Cardinality(Holders) + 1
      BY <3>1, <1>in
    <3> QED
      BY <1>2, <1>t, <2>1, <3>2 DEF TryAcquire
  <2>2. CASE ~(permits > 0)
    <3>1. Holders' = Holders
      BY <1>2, <1>t, <2>2 DEF TryAcquire, Holders
    <3> QED
      BY <1>2, <1>t, <2>2, <3>1 DEF TryAcquire
  <2> QED
    BY <2>1, <2>2
<1>3. ASSUME NEW t \in Tasks, release(t)
      PROVE  PermitsConserved'
  <2>1. t \in Holders /\ Holders' = Holders \ {t}
    BY <1>3, <1>t DEF release, Holders
  <2>2. Cardinality(Holders') = Cardinality(Holders) - 1
    BY <2>1, <1>out
  <2> QED
    BY <1>3, <1>t, <2>2 DEF release
<1>4. ASSUME NEW t \in Tasks, forget(t)
      PROVE  PermitsConserved'
  <2>1. t \in Holders /\ Holders' = Holders \ {t}
    BY <1>4, <1>t DEF forget, Holders
  <2>2. Cardinality(Holders') = Cardinality(Holders) - 1
    BY <2>1, <1>out
  <2> QED
    BY <1>4, <1>t, <2>2 DEF forget
<1>5. ASSUME NEW t \in Tasks, NEW n \in 1..MaxAdded, add_permits(t, n)
      PROVE  PermitsConserved'
  <2>1. Holders' = Holders
    BY <1>5, <1>t DEF add_permits, Holders
  <2> QED
    BY <1>5, <1>t, <2>1 DEF add_permits
<1>6. ASSUME NEW t \in Tasks,
             \/ acquire(t) \/ poll(t) \/ PollRegister(t) \/ PollRemove(t)
             \/ wake_one(t) \/ WakeTask(t) \/ drop(t) \/ DropPassOn(t)
      PROVE  PermitsConserved'
  <2>1. Holders' = Holders
    BY <1>6, <1>t DEF acquire, poll, PollRegister, PollRemove, wake_one, WakeTask,
                      drop, DropPassOn, Holders
  <2> QED
    BY <1>6, <1>t, <2>1 DEF acquire, poll, PollRegister, PollRemove, wake_one,
                            WakeTask, drop, DropPassOn
<1>7. CASE UNCHANGED vars
  BY <1>7, <1>t DEF vars, Holders
<1> QED
  BY <1>1, <1>2, <1>3, <1>4, <1>5, <1>6, <1>7 DEF Next, PollTry, PollRetry

\* No step leaves a sleeping task out of reach of a waker.
LEMMA ReachableStep ==
    ASSUME Inv, [Next]_vars
    PROVE  SleeperReachable'
<1> USE DEF Tasks, Goto
<1>t. TypeOK /\ SleeperReachable /\ Wakers = Waiters /\ NoWaker \notin Waiters
  BY SemaphoreAssumption DEF Inv
<1> USE DEF TypeOK, FifoTypeOK, SleeperReachable
<1>1. ASSUME NEW t \in Tasks, PollRegister(t)
      PROVE  SleeperReachable'
  BY <1>1, <1>t DEF PollRegister, Register
<1>2. ASSUME NEW t \in Tasks, PollRemove(t) \/ drop(t)
      PROVE  SleeperReachable'
  BY <1>2, <1>t DEF PollRemove, drop, Remove
<1>3. ASSUME NEW t \in Tasks, wake_one(t)
      PROVE  SleeperReachable'
  <2>1. CASE fifo = <<>>
    BY <1>3, <1>t, <2>1 DEF wake_one, GrantOne, fifoVars
  <2>2. CASE fifo # <<>>
    <3>1. Head(fifo) \in Waiters
      BY <1>t, <2>2
    <3> QED
      BY <1>3, <1>t, <2>2, <3>1 DEF wake_one, GrantOne, GrantHead
  <2> QED
    BY <2>1, <2>2
<1>4. ASSUME NEW t \in Tasks, WakeTask(t)
      PROVE  SleeperReachable'
  BY <1>4, <1>t DEF WakeTask, Wake
<1>5. ASSUME UNCHANGED fifoVars, \A t \in Tasks : asleep'[t] => asleep[t]
      PROVE  SleeperReachable'
  BY <1>5, <1>t DEF fifoVars
<1>6. ASSUME NEW t \in Tasks,
             \/ try_acquire(t) \/ acquire(t) \/ poll(t) \/ PollTry(t) \/ PollRetry(t)
             \/ release(t) \/ (\E n \in 1..MaxAdded : add_permits(t, n))
             \/ forget(t) \/ DropPassOn(t)
      PROVE  UNCHANGED fifoVars /\ \A r \in Tasks : asleep'[r] => asleep[r]
  BY <1>6, <1>t DEF try_acquire, acquire, poll, PollTry, PollRetry, TryAcquire,
                    release, add_permits, forget, DropPassOn
<1>7. CASE UNCHANGED vars
  BY <1>7, <1>5 DEF vars
<1> QED
  BY <1>1, <1>2, <1>3, <1>4, <1>5, <1>6, <1>7 DEF Next

\* A registration goes with its future.
LEMMA RegisteredStep ==
    ASSUME Inv, [Next]_vars
    PROVE  RegisteredInPoll'
<1> USE DEF Tasks, Goto, RegisteredInPoll, TypeOK, FifoTypeOK, Kinds
<1>t. TypeOK /\ QueueExact /\ RegisteredInPoll
  BY DEF Inv
<1>1. ASSUME NEW t \in Tasks, PollRegister(t)
      PROVE  RegisteredInPoll'
  BY <1>1, <1>t DEF PollRegister, Register
<1>2. ASSUME NEW t \in Tasks, PollRemove(t) \/ drop(t)
      PROVE  RegisteredInPoll'
  BY <1>2, <1>t DEF PollRemove, drop, Remove
<1>3. ASSUME NEW t \in Tasks, wake_one(t)
      PROVE  RegisteredInPoll'
  <2>1. CASE fifo = <<>>
    BY <1>3, <1>t, <2>1 DEF wake_one, GrantOne, fifoVars
  <2>2. CASE fifo # <<>>
    <3>1. Head(fifo) \in Waiters /\ kind[Head(fifo)] = "Queued"
      <4>1. Head(fifo) = fifo[1] /\ 1 \in 1..Len(fifo)
        BY <1>t, <2>2
      <4> QED
        BY <1>t, <4>1 DEF QueueExact
    <3>2. kind' = [kind EXCEPT ![Head(fifo)] = "One"]
      BY <1>3, <2>2 DEF wake_one, GrantOne, GrantHead
    <3> QED
      BY <1>3, <1>t, <3>1, <3>2 DEF wake_one
  <2> QED
    BY <2>1, <2>2
<1>4. ASSUME NEW t \in Tasks,
             \/ try_acquire(t) \/ acquire(t) \/ poll(t) \/ PollTry(t) \/ PollRetry(t)
             \/ release(t) \/ (\E n \in 1..MaxAdded : add_permits(t, n))
             \/ forget(t) \/ WakeTask(t) \/ DropPassOn(t)
      PROVE  RegisteredInPoll'
  <2>1. kind' = kind
    BY <1>4 DEF try_acquire, acquire, poll, PollTry, PollRetry, TryAcquire, release,
                add_permits, forget, WakeTask, Wake, DropPassOn, fifoVars
  <2> QED
    BY <1>4, <1>t, <2>1 DEF try_acquire, acquire, poll, PollTry, PollRetry, TryAcquire, release,
                            add_permits, forget, WakeTask, DropPassOn
<1>5. CASE UNCHANGED vars
  BY <1>5, <1>t DEF vars, fifoVars
<1> QED
  BY <1>1, <1>2, <1>3, <1>4, <1>5 DEF Next

\* No step leaves the queue unattended beside a free permit: a poll gives up
\* only without one, wake_one stops at an empty queue or grants somebody, and
\* a granted future that is dropped passes the wake-up on.
LEMMA AttendedStep ==
    ASSUME Inv, [Next]_vars
    PROVE  QueueIsAttended'
<1> USE DEF Tasks, Goto, TypeOK, FifoTypeOK, Kinds
<1>t. TypeOK /\ QueueExact /\ QueueIsAttended /\ WakingOwes
  BY DEF Inv
<1>1. ASSUME NEW t \in Tasks, WillLook(t)' PROVE QueueIsAttended'
  BY <1>1 DEF QueueIsAttended
<1>2. ASSUME NEW t \in Tasks, pc'[t] \in {"remove", "holding"} PROVE QueueIsAttended'
  BY <1>2 DEF QueueIsAttended, Holders
<1>3. ASSUME NEW t \in Tasks,
             \/ poll(t) \/ PollRegister(t) \/ release(t) \/ PollTry(t) \/ try_acquire(t)
             \/ PollRemove(t) \/ \E n \in 1..MaxAdded : add_permits(t, n)
      PROVE  QueueIsAttended'
  <2>1. pc'[t] \in {"try", "retry", "waking", "register", "remove", "holding"}
    BY <1>3, <1>t DEF poll, PollRegister, release, PollTry, TryAcquire, try_acquire, PollRemove,
                      add_permits
  <2> QED
    BY <2>1, <1>1, <1>2 DEF WillLook
<1>4. ASSUME NEW t \in Tasks, PollRetry(t) PROVE QueueIsAttended'
  <2>1. pc'[t] = "remove" \/ permits' = 0
    BY <1>4, <1>t DEF PollRetry, TryAcquire
  <2> QED
    BY <2>1, <1>2 DEF QueueIsAttended
<1>5. ASSUME NEW t \in Tasks, forget(t) PROVE QueueIsAttended'
  BY <1>5, <1>t DEF forget, QueueIsAttended
<1>6. ASSUME NEW t \in Tasks, wake_one(t) PROVE QueueIsAttended'
  <2>1. CASE fifo = <<>>
    <3>1. \A u \in Waiters : kind'[u] # "Queued"
      BY <1>6, <1>t, <2>1 DEF wake_one, GrantOne, fifoVars, QueueExact
    <3> QED
      BY <3>1 DEF QueueIsAttended
  <2>2. CASE fifo # <<>>
    <3>1. PICK h \in Tasks : h = Head(fifo)
      BY <1>t, <2>2
    <3>2. kind' = [kind EXCEPT ![h] = "One"]
      BY <1>6, <2>2, <3>1 DEF wake_one, GrantOne, GrantHead
    <3>3. WillLook(h)'
      BY <1>t, <3>2 DEF WillLook
    <3> QED
      BY <1>1, <3>3
  <2> QED
    BY <2>1, <2>2
<1>7. ASSUME NEW t \in Tasks, drop(t) PROVE QueueIsAttended'
  <2>1. CASE kind[t] = "One"
    <3>1. WillLook(t)'
      BY <1>7, <1>t, <2>1 DEF drop, WillLook
    <3> QED
      BY <1>1, <3>1
  <2>2. CASE kind[t] # "One"
    <3>1. /\ \A u \in Tasks : u # t => kind'[u] = kind[u] /\ pc'[u] = pc[u]
          /\ kind'[t] = "None" /\ pc[t] = "idle" /\ pc'[t] = "none"
          /\ permits' = permits /\ forgotten' = forgotten
      BY <1>7, <1>t, <2>2 DEF drop, Remove
    <3>2. Holders' = Holders
      BY <3>1 DEF Holders
    <3>3. ~WillLook(t) /\ \A u \in Tasks : u # t => (WillLook(u)' <=> WillLook(u))
      BY <2>2, <3>1 DEF WillLook
    <3> QED
      BY <1>t, <3>1, <3>2, <3>3 DEF QueueIsAttended
  <2> QED
    BY <2>1, <2>2
<1>8. ASSUME NEW t \in Tasks, DropPassOn(t) PROVE QueueIsAttended'
  <2>1. pc'[t] = "waking" \/ permits' = 0
    BY <1>8, <1>t DEF DropPassOn
  <2> QED
    BY <2>1, <1>1 DEF QueueIsAttended, WillLook
<1>9. ASSUME kind' = kind, permits' = permits, forgotten' = forgotten, Holders' = Holders,
             \A u \in Tasks : WillLook(u) => WillLook(u)'
      PROVE  QueueIsAttended'
  BY <1>9, <1>t DEF QueueIsAttended
<1>10. ASSUME NEW t \in Tasks, acquire(t) \/ WakeTask(t) PROVE QueueIsAttended'
  <2>1. kind' = kind /\ permits' = permits /\ forgotten' = forgotten
    BY <1>10 DEF acquire, WakeTask, Wake, fifoVars
  <2>2. Holders' = Holders /\ \A u \in Tasks : WillLook(u) => WillLook(u)'
    BY <1>10, <1>t, <2>1 DEF acquire, WakeTask, Holders, WillLook
  <2> QED
    BY <1>9, <2>1, <2>2
<1>11. CASE UNCHANGED vars
  <2>1. kind' = kind /\ pc' = pc /\ permits' = permits /\ forgotten' = forgotten
    BY <1>11 DEF vars, fifoVars
  <2> QED
    BY <1>9, <2>1 DEF Holders, WillLook
<1> QED
  BY <1>3, <1>4, <1>5, <1>6, <1>7, <1>8, <1>10, <1>11 DEF Next

\* The inductive invariant holds in every reachable state.
LEMMA InvHolds == Spec => []Inv
<1>1. Init => Inv
  <2> SUFFICES ASSUME Init PROVE Inv
    OBVIOUS
  <2>1. TypeOK /\ QueueExact /\ WakingOwes /\ SleeperReachable
    BY SemaphoreAssumption
       DEF Init, FifoInit, TypeOK, FifoTypeOK, QueueExact, WakingOwes,
           SleeperReachable, Kinds, Tasks
  <2>2. Holders = {}
    BY DEF Init, Holders, Tasks
  <2>3. PermitsConserved
    BY <2>2, FS_EmptySet, SemaphoreAssumption DEF Init, PermitsConserved
  <2>4. RegisteredInPoll /\ QueueIsAttended
    BY DEF Init, FifoInit, RegisteredInPoll, QueueIsAttended, Tasks
  <2> QED
    BY <2>1, <2>3, <2>4 DEF Inv
<1>2. Inv /\ [Next]_vars => Inv'
  BY TypeStep, ConservedStep, ReachableStep, RegisteredStep, AttendedStep DEF Inv
<1> QED
  BY <1>1, <1>2, PTL DEF Spec

\* Every step keeps the semaphore well typed; above all no count and no
\* number of wake-ups owed goes below zero.
THEOREM TypeCorrect == Spec => []TypeOK
<1>1. Inv => TypeOK
  BY DEF Inv
<1> QED
  BY <1>1, InvHolds, PTL

\* Permits are neither lost nor made, whatever polls, cancellations, releases
\* and add_permits calls interleave.
THEOREM PermitsAreConserved == Spec => []PermitsConserved
<1>1. Inv => PermitsConserved
  BY DEF Inv
<1> QED
  BY <1>1, InvHolds, PTL

\* A task asleep in Acquire is queued with its waker, or a wake_one took that
\* waker and is about to invoke it.
THEOREM SleepersCanBeWoken == Spec => []SleeperReachable
<1>1. Inv => SleeperReachable
  BY DEF Inv
<1> QED
  BY <1>1, InvHolds, PTL

\* What is true of the comment in add_permits: a task sleeps through a free
\* permit only while another permit is held, whose return wakes it, or one was
\* forgotten.  For any number of tasks and permits.
THEOREM FreePermitIsBacked == Spec => []SleepThroughIsBacked
<1>1. Inv => SleepThroughIsBacked
  <2> SUFFICES ASSUME Inv, Quiet, Sleepers # {}, permits > 0, Holders = {}, ~(forgotten > 0)
               PROVE  FALSE
    BY DEF SleepThroughIsBacked
  <2>1. /\ SleeperReachable /\ RegisteredInPoll /\ QueueIsAttended /\ forgotten \in Nat
    BY DEF Inv, TypeOK
  <2>2. PICK t \in Tasks : asleep[t]
    BY DEF Sleepers
  <2>3. \A u \in Tasks : asleep[u] => kind[u] = "Queued"
    BY <2>1 DEF Quiet, SleeperReachable
  <2>4. forgotten = 0
    BY <2>1
  <2>5. PICK u \in Tasks : WillLook(u)
    BY <2>1, <2>2, <2>3, <2>4 DEF QueueIsAttended
  <2>6. pc[u] \in {"none", "holding"} \/ (pc[u] = "idle" /\ asleep[u])
    BY DEF Quiet, Sleepers
  <2>7. kind[u] = "One"
    BY <2>5, <2>6 DEF WillLook
  <2> QED
    BY <2>1, <2>3, <2>6, <2>7 DEF RegisteredInPoll
<1> QED
  BY <1>1, InvHolds, PTL
=============================================================================
