---------------------------- MODULE NotifyProofs ----------------------------
(***************************************************************************)
(* For any number of futures: a permit never sits beside a queued waiter,  *)
(* no single notification is lost or duplicated by cancellations, a        *)
(* sleeping task can be woken, and a broadcast misses nobody.              *)
(***************************************************************************)
EXTENDS Notify, WaitFifoProofs, FiniteSetTheorems

\* What a future's fields say about each other at each point of its calls.
CallShape ==
    \A f \in Futures :
        /\ entry[f] \in {f, NoWaker}
        /\ pc[f] \in {"generation", "permit", "lock"} => ~done[f] /\ ~asleep[f]
        /\ pc[f] \in {"generation", "permit"} => kind[f] = "None"
        /\ pc[f] = "absent" => kind[f] = "None" /\ ~done[f] /\ ~asleep[f]
        /\ reserved[f] => done[f]
        /\ done[f] => kind[f] = "None"

QueueInv == PermitExcludesWaiters /\ QueuedIsCurrent

Inv ==
    /\ TypeOK /\ QueueExact
    /\ CallShape
    /\ QueueInv
    /\ SleeperReachable
    /\ NotificationsConserved

Stored(p) == IF p THEN 1 ELSE 0

-----------------------------------------------------------------------------
(* Notify::grant_one on a queue k, q, w.                                   *)

ExactQueue(k, q, w) ==
    /\ k \in [Waiters -> Kinds] /\ q \in Seq(Waiters)
    /\ w \in [Waiters -> Wakers \cup {NoWaker}]
    /\ \A i, j \in 1..Len(q) : q[i] = q[j] => i = j
    /\ \A f \in Waiters : k[f] = "Queued" <=> \E i \in 1..Len(q) : q[i] = f
    /\ permit => q = <<>>

OnesOf(k) == {f \in Futures : k[f] = "One"}

\* Notifications that are stored, granted or merged.
Pending(k, p, c) == Cardinality(OnesOf(k)) + Stored(p) + c

\* At most one waiter changes, from Queued to One, its waker on its way.
OneGranted(k, w) ==
    \A f \in Waiters :
        \/ kind'[f] = k[f] /\ waker'[f] = w[f]
        \/ k[f] = "Queued" /\ kind'[f] = "One" /\ w[f] \in wakes' \cup {NoWaker}

GrantTyped ==
    /\ FifoInv' /\ permit' \in BOOLEAN /\ coalesced' \in Nat
    /\ PermitExcludesWaiters' /\ wakes \subseteq wakes'

\* The granted and the reserved futures are finitely many.
LEMMA OnesFinite ==
    ASSUME NEW k
    PROVE  IsFiniteSet(OnesOf(k)) /\ Cardinality(OnesOf(k)) \in Nat
<1>1. OnesOf(k) \subseteq Waiters
  BY DEF Futures, OnesOf
<1> QED
  BY <1>1, FS_Subset, FS_CardinalityType, FuturesAssumption

\* A grant adds one pending notification, keeps the queue exact, and stores
\* no permit beside a waiter.
LEMMA Grant ==
    ASSUME NEW k, NEW q, NEW w, ExactQueue(k, q, w), TypeOK, grant_one(k, q, w)
    PROVE  /\ GrantTyped /\ OneGranted(k, w)
           /\ Pending(kind', permit', coalesced') = Pending(k, permit, coalesced) + 1
<1>t. permit \in BOOLEAN /\ coalesced \in Nat /\ wakes \in SUBSET Wakers
  BY DEF TypeOK, FifoTypeOK
<1>f. IsFiniteSet(OnesOf(k)) /\ Cardinality(OnesOf(k)) \in Nat
  BY OnesFinite
<1>1. CASE q = <<>>
  <2>1. kind' = k /\ fifo' = q /\ waker' = w /\ wakes' = wakes /\ permit' = TRUE
        /\ coalesced' = IF permit THEN coalesced + 1 ELSE coalesced
    BY <1>1 DEF grant_one
  <2>2. FifoInv'
    BY <1>1, <1>t, <2>1 DEF ExactQueue, FifoInv, FifoTypeOK, QueueExact
  <2>3. GrantTyped
    BY <1>1, <1>t, <2>1, <2>2 DEF GrantTyped, PermitExcludesWaiters
  <2>4. Pending(kind', permit', coalesced') = Pending(k, permit, coalesced) + 1
    BY <1>t, <1>f, <2>1 DEF Pending, Stored
  <2> QED
    BY <2>1, <2>3, <2>4 DEF OneGranted
<1>2. CASE q # <<>>
  <2> DEFINE h == Head(q)
  <2>1. GrantHead(k, q, w) /\ permit' = permit /\ coalesced' = coalesced
    BY <1>2 DEF grant_one
  <2>2. FifoInv' /\ h \in Waiters /\ k[h] = "Queued"
    BY <1>2, <1>t, <2>1, GrantHeadInv DEF ExactQueue
  <2>3. permit = FALSE
    BY <1>2, <1>t DEF ExactQueue
  <2>4. /\ kind' = [k EXCEPT ![h] = "One"] /\ waker' = [w EXCEPT ![h] = NoWaker]
        /\ wakes' = wakes \cup ({w[h]} \ {NoWaker})
    BY <2>1 DEF GrantHead
  <2> HIDE DEF h
  <2>5. OnesOf(kind') = OnesOf(k) \cup {h} /\ h \notin OnesOf(k)
    BY <2>2, <2>4 DEF OnesOf, Futures, ExactQueue
  <2>6. Cardinality(OnesOf(kind')) = Cardinality(OnesOf(k)) + 1
    BY <1>f, <2>5, FS_AddElement
  <2>7. OneGranted(k, w)
    BY <2>2, <2>4 DEF OneGranted, ExactQueue
  <2>8. GrantTyped
    BY <1>t, <2>1, <2>2, <2>3, <2>4 DEF GrantTyped, PermitExcludesWaiters
  <2>9. Pending(kind', permit', coalesced') = Pending(k, permit, coalesced) + 1
    BY <1>f, <1>t, <2>1, <2>3, <2>6 DEF Pending, Stored
  <2> QED
    BY <2>7, <2>8, <2>9
<1> QED
  BY <1>1, <1>2

\* What the queue lemmas of WaitFifoProofs need follows from the invariant.
LEMMA InvExactQueue ==
    ASSUME Inv
    PROVE  ExactQueue(kind, fifo, waker)
BY DEF Inv, TypeOK, FifoTypeOK, QueueExact, QueueInv, PermitExcludesWaiters, ExactQueue

\* A cancelled future passes on what it was granted: nothing is gained or lost.
LEMMA GrantCancelled ==
    ASSUME Inv, NEW f \in Futures, kind[f] = "One",
           NEW k, k = [kind EXCEPT ![f] = "None"],
           NEW w, w = [waker EXCEPT ![f] = NoWaker],
           grant_one(k, Without(fifo, f), w)
    PROVE  /\ GrantTyped /\ OneGranted(k, w)
           /\ Pending(kind', permit', coalesced') = Pending(kind, permit, coalesced)
<1>0. TypeOK /\ ExactQueue(kind, fifo, waker)
  BY InvExactQueue DEF Inv
<1>1. Without(fifo, f) = fifo
  BY <1>0 DEF ExactQueue, Without, Futures
<1>2. ExactQueue(k, fifo, w)
  BY <1>0 DEF ExactQueue, Kinds
<1>3. /\ GrantTyped /\ OneGranted(k, w)
      /\ Pending(kind', permit', coalesced') = Pending(k, permit, coalesced) + 1
  BY <1>0, <1>1, <1>2, Grant
<1>4. OnesOf(k) = OnesOf(kind) \ {f} /\ f \in OnesOf(kind)
  BY <1>0 DEF OnesOf, Futures, ExactQueue
<1>5. /\ Cardinality(OnesOf(k)) = Cardinality(OnesOf(kind)) - 1
      /\ Cardinality(OnesOf(kind)) \in Nat
  BY <1>4, OnesFinite, FS_RemoveElement
<1>6. Pending(k, permit, coalesced) + 1 = Pending(kind, permit, coalesced)
  BY <1>0, <1>5 DEF Pending, Stored, TypeOK
<1> QED
  BY <1>3, <1>6

\* What dropping a future does to the queue and to the notifications.
DropEffect(f) ==
    /\ GrantTyped
    /\ kind'[f] = "None"
    /\ \A g \in Waiters \ {f} :
          \/ kind'[g] = kind[g] /\ waker'[g] = waker[g]
          \/ kind[g] = "Queued" /\ kind'[g] = "One" /\ waker[g] \in wakes' \cup {NoWaker}
    /\ Pending(kind', permit', coalesced')
          = Pending(kind, permit, coalesced) + Stored(reserved[f])

\* The drop of a future with a reserved notification passes it on, once.
LEMMA DropNotification ==
    ASSUME Inv, NEW f \in Futures, drop(f)
    PROVE  DropEffect(f)
<1>0. /\ TypeOK /\ FifoInv /\ ExactQueue(kind, fifo, waker) /\ f \in Waiters
      /\ Pending(kind, permit, coalesced) \in Int
  BY InvExactQueue, OnesFinite DEF Inv, TypeOK, FifoInv, Futures, Pending, Stored
<1>1. CASE reserved[f]
  <2>1. kind[f] = "None"
    BY <1>1 DEF Inv, CallShape
  <2>2. grant_one(kind, fifo, waker)
    BY <1>1 DEF drop
  <2>3. /\ GrantTyped /\ OneGranted(kind, waker)
        /\ Pending(kind', permit', coalesced') = Pending(kind, permit, coalesced) + 1
    BY <1>0, <2>2, Grant
  <2> QED
    BY <1>0, <1>1, <2>1, <2>3 DEF DropEffect, OneGranted, Stored
<1>2. CASE ~reserved[f] /\ kind[f] = "One"
  <2> DEFINE k == [kind EXCEPT ![f] = "None"]
             w == [waker EXCEPT ![f] = NoWaker]
  <2>1. grant_one(k, Without(fifo, f), w)
    BY <1>2 DEF drop
  <2>2. /\ k[f] = "None"
        /\ \A g \in Waiters \ {f} : k[g] = kind[g] /\ w[g] = waker[g]
    BY <1>0 DEF TypeOK, FifoTypeOK
  <2>3. /\ GrantTyped /\ OneGranted(k, w)
        /\ Pending(kind', permit', coalesced') = Pending(kind, permit, coalesced)
    BY <1>2, <2>1, GrantCancelled
  <2> HIDE DEF k, w
  <2> QED
    BY <1>0, <1>2, <2>2, <2>3 DEF DropEffect, OneGranted, Stored
<1>3. CASE ~reserved[f] /\ kind[f] # "One"
  <2>1. Remove(f) /\ permit' = permit /\ coalesced' = coalesced
    BY <1>3 DEF drop
  <2>2. FifoInv'
    BY <1>0, <2>1, RemoveInv
  <2>3. OnesOf(kind') = OnesOf(kind)
    BY <1>0, <1>3, <2>1 DEF OnesOf, Remove, TypeOK, FifoTypeOK, Futures
  <2>4. PermitExcludesWaiters'
    BY <1>0, <2>1 DEF Remove, Without, ExactQueue, PermitExcludesWaiters
  <2>5. GrantTyped
    BY <1>0, <2>1, <2>2, <2>4 DEF GrantTyped, TypeOK, Remove
  <2>6. /\ kind'[f] = "None"
        /\ \A g \in Waiters \ {f} : kind'[g] = kind[g] /\ waker'[g] = waker[g]
    BY <1>0, <2>1 DEF Remove, TypeOK, FifoTypeOK
  <2>7. Pending(kind', permit', coalesced') = Pending(kind, permit, coalesced)
    BY <2>1, <2>3 DEF Pending
  <2> QED
    BY <1>0, <1>3, <2>5, <2>6, <2>7 DEF DropEffect, Stored
<1> QED
  BY <1>0, <1>1, <1>2, <1>3

-----------------------------------------------------------------------------
\* Types and the exact queue, for every step.
LEMMA TypeStep ==
    ASSUME Inv, [Next]_vars
    PROVE  TypeOK' /\ QueueExact'
<1> USE DEF Futures
<1>0. TypeOK /\ FifoInv /\ ExactQueue(kind, fifo, waker)
  BY InvExactQueue DEF Inv, TypeOK, FifoInv
<1>u. ASSUME UNCHANGED fifoVars
      PROVE  FifoTypeOK' /\ QueueExact'
  BY <1>0, <1>u DEF fifoVars, FifoInv, FifoTypeOK, QueueExact
<1> USE DEF TypeOK
<1>1. CASE notify_one
  <2>1. GrantTyped
    BY <1>0, <1>1, Grant DEF notify_one
  <2> QED
    BY <1>0, <1>1, <2>1 DEF notify_one, GrantTyped, FifoInv, callVars
<1>2. CASE notify_waiters
  <2>1. FifoInv'
    BY <1>0, <1>2, GrantAllInv DEF notify_waiters
  <2> QED
    BY <1>0, <1>2, <2>1 DEF notify_waiters, FifoInv, callVars, history
<1>3. ASSUME NEW f \in Futures, notified(f)
      PROVE  TypeOK' /\ QueueExact'
  BY <1>0, <1>3, <1>u DEF notified, history
<1>4. ASSUME NEW f \in Futures, NEW w \in {f, NoWaker}, Call(f, w)
      PROVE  TypeOK' /\ QueueExact'
  <2>1. CASE done[f]
    <3>1. reserved' \in [Futures -> BOOLEAN]
      <4>1. CASE w = NoWaker
        BY <1>0, <1>4, <2>1, <4>1 DEF Call
      <4>2. CASE w # NoWaker
        BY <1>0, <1>4, <2>1, <4>2 DEF Call
      <4> QED
        BY <4>1, <4>2
    <3> QED
      BY <1>0, <1>4, <1>u, <2>1, <3>1 DEF Call
  <2>2. CASE ~done[f]
    BY <1>0, <1>4, <1>u, <2>2 DEF Call
  <2> QED
    BY <2>1, <2>2
<1>5. ASSUME NEW f \in Futures, CheckGeneration(f)
      PROVE  TypeOK' /\ QueueExact'
  <2>1. CASE generation # snapshot[f]
    BY <1>0, <1>5, <1>u, <2>1 DEF CheckGeneration, Complete
  <2>2. CASE generation = snapshot[f]
    BY <1>0, <1>5, <1>u, <2>2 DEF CheckGeneration, history
  <2> QED
    BY <2>1, <2>2
<1>6. ASSUME NEW f \in Futures, TakePermit(f)
      PROVE  TypeOK' /\ QueueExact'
  <2>1. CASE permit
    <3>1. Complete(f, entry[f], TRUE) /\ permit' = FALSE /\ UNCHANGED fifoVars
      BY <1>6, <2>1 DEF TakePermit
    <3>2. reserved' \in [Futures -> BOOLEAN] /\ delivered' \in Nat
      BY <1>0, <3>1 DEF Complete
    <3>3. permit' \in BOOLEAN /\ FifoTypeOK' /\ QueueExact'
      BY <1>u, <3>1
    <3> QED
      BY <1>0, <3>1, <3>2, <3>3 DEF Complete
  <2>2. CASE ~permit
    BY <1>0, <1>6, <1>u, <2>2 DEF TakePermit, history
  <2> QED
    BY <2>1, <2>2
<1>7. ASSUME NEW f \in Futures, ready_or_register(f)
      PROVE  TypeOK' /\ QueueExact'
  <2>0. permit' \in BOOLEAN
    BY <1>0, <1>7 DEF ready_or_register
  <2>1. CASE Notification(f) # "None"
    <3>1. FifoInv' /\ Complete(f, entry[f], Notification(f) = "One")
      BY <1>0, <1>7, <2>1, RemoveInv DEF ready_or_register
    <3> QED
      BY <1>0, <2>0, <3>1 DEF Complete, FifoInv
  <2>2. CASE Notification(f) = "None"
    <3>1. entry[f] \in Wakers \cup {NoWaker}
      BY <1>0, FuturesAssumption
    <3>2. FifoInv'
      BY <1>0, <1>7, <2>2, <3>1, RegisterInv DEF ready_or_register
    <3> QED
      BY <1>0, <1>7, <2>0, <2>2, <3>2 DEF ready_or_register, FifoInv, history
  <2> QED
    BY <2>1, <2>2
<1>8. ASSUME NEW f \in Futures, drop(f)
      PROVE  TypeOK' /\ QueueExact'
  <2>1. GrantTyped
    BY <1>8, DropNotification DEF DropEffect
  <2> QED
    BY <1>0, <1>8, <2>1 DEF drop, GrantTyped, FifoInv
<1>9. ASSUME NEW f \in Futures, WakeTask(f)
      PROVE  TypeOK' /\ QueueExact'
  <2>1. FifoInv'
    BY <1>0, <1>9, WakeInv DEF WakeTask
  <2> QED
    BY <1>0, <1>9, <2>1 DEF WakeTask, FifoInv, history
<1>10. CASE UNCHANGED vars
  BY <1>0, <1>10, <1>u DEF vars, callVars, history
<1> QED
  BY <1>1, <1>2, <1>3, <1>4, <1>5, <1>6, <1>7, <1>8, <1>9, <1>10
  DEF Next, enable, poll

\* No step puts a permit beside a waiter, leaves a queued future behind the
\* generation, or a sleeping one out of reach; a future's life cycle is kept.
LEMMA QueueStep ==
    ASSUME Inv, [Next]_vars
    PROVE  CallShape' /\ QueueInv' /\ SleeperReachable'
<1> USE DEF Futures
<1>0. /\ TypeOK /\ FifoTypeOK /\ ExactQueue(kind, fifo, waker)
      /\ CallShape /\ QueueInv /\ SleeperReachable
      /\ Wakers = Waiters /\ NoWaker \notin Waiters
  BY InvExactQueue, FuturesAssumption DEF Inv, TypeOK
<1> DEFINE Goal == CallShape' /\ QueueInv' /\ SleeperReachable'
<1> USE DEF TypeOK, CallShape, QueueInv, PermitExcludesWaiters, QueuedIsCurrent,
            SleeperReachable
<1>1. CASE notify_one
  <2>1. GrantTyped /\ OneGranted(kind, waker)
    BY <1>0, <1>1, Grant DEF notify_one
  <2> QED
    BY <1>0, <1>1, <2>1 DEF notify_one, GrantTyped, OneGranted, callVars, FifoTypeOK
<1>2. CASE notify_waiters
  <2>1. /\ \A f \in Futures : kind'[f] = IF kind[f] = "Queued" THEN "All" ELSE kind[f]
        /\ fifo' = <<>>
        /\ wakes \subseteq wakes'
        /\ \A f \in Futures : kind[f] = "Queued" /\ waker[f] = f => f \in wakes'
    BY <1>0, <1>2 DEF notify_waiters, GrantAll
  <2> QED
    BY <1>0, <1>2, <2>1 DEF notify_waiters, callVars
<1>3. ASSUME NEW f \in Futures, notified(f)
      PROVE  Goal
  BY <1>0, <1>3 DEF notified, fifoVars
<1>4. ASSUME NEW f \in Futures, NEW w \in {f, NoWaker}, Call(f, w)
      PROVE  Goal
  <2>1. CASE done[f]
    BY <1>0, <1>4, <2>1 DEF Call, fifoVars
  <2>2. CASE ~done[f]
    BY <1>0, <1>4, <2>2 DEF Call, fifoVars
  <2> QED
    BY <2>1, <2>2
<1>5. ASSUME NEW f \in Futures, CheckGeneration(f)
      PROVE  Goal
  <2>1. CASE generation # snapshot[f]
    BY <1>0, <1>5, <2>1 DEF CheckGeneration, Complete, fifoVars
  <2>2. CASE generation = snapshot[f]
    BY <1>0, <1>5, <2>2 DEF CheckGeneration, fifoVars
  <2> QED
    BY <2>1, <2>2
<1>6. ASSUME NEW f \in Futures, TakePermit(f)
      PROVE  Goal
  <2>1. CASE permit
    <3>1. /\ pc' = [pc EXCEPT ![f] = "idle"] /\ done' = [done EXCEPT ![f] = TRUE]
          /\ \A g \in Futures : reserved'[g] => reserved[g] \/ g = f
          /\ permit' = FALSE
          /\ UNCHANGED <<generation, entry, snapshot, asleep, kind, fifo, waker, wakes>>
      BY <1>0, <1>6, <2>1 DEF TakePermit, Complete, fifoVars
    <3>2. pc[f] = "permit"
      BY <1>6 DEF TakePermit
    <3> QED
      BY <1>0, <3>1, <3>2
  <2>2. CASE ~permit
    BY <1>0, <1>6, <2>2 DEF TakePermit, fifoVars
  <2> QED
    BY <2>1, <2>2
<1>7. ASSUME NEW f \in Futures, ready_or_register(f)
      PROVE  Goal
  <2>1. CASE Notification(f) # "None"
    <3>1. /\ Complete(f, entry[f], Notification(f) = "One")
          /\ kind' = [kind EXCEPT ![f] = "None"]
          /\ waker' = [waker EXCEPT ![f] = NoWaker]
          /\ wakes' = wakes
      BY <1>7, <2>1 DEF ready_or_register, Remove
    <3>2. permit' => fifo' = <<>>
      <4>1. permit' => permit
        BY <1>0, <1>7 DEF ready_or_register
      <4>2. fifo' = Without(fifo, f)
        BY <1>7, <2>1 DEF ready_or_register, Remove
      <4>3. fifo = <<>> => fifo' = <<>>
        BY <4>2 DEF Without
      <4> QED
        BY <1>0, <4>1, <4>3
    <3>3. /\ pc' = [pc EXCEPT ![f] = "idle"] /\ done' = [done EXCEPT ![f] = TRUE]
          /\ \A g \in Futures : reserved'[g] => reserved[g] \/ g = f
          /\ UNCHANGED <<generation, entry, snapshot, asleep>>
      BY <1>0, <3>1 DEF Complete
    <3>4. pc[f] = "lock"
      BY <1>7 DEF ready_or_register
    <3> QED
      BY <1>0, <3>1, <3>2, <3>3, <3>4 DEF FifoTypeOK
  <2>2. CASE Notification(f) = "None"
    <3>1. /\ kind' = [kind EXCEPT ![f] = "Queued"] /\ wakes' = wakes
          /\ waker' = IF entry[f] = NoWaker THEN waker ELSE [waker EXCEPT ![f] = entry[f]]
          /\ pc' = [pc EXCEPT ![f] = "idle"]
          /\ asleep' = [asleep EXCEPT ![f] = entry[f] # NoWaker]
          /\ UNCHANGED <<generation, entry, snapshot, done, reserved>>
      BY <1>7, <2>2 DEF ready_or_register, Register
    <3>2. snapshot[f] = generation /\ ~permit
      BY <1>0, <2>2 DEF Notification, Assigned, FifoTypeOK, Kinds
    <3>3. permit' = FALSE
      BY <1>0, <1>7, <2>2, <3>2 DEF ready_or_register
    <3>4. ~done[f] /\ entry[f] \in {f, NoWaker}
      BY <1>0, <1>7 DEF ready_or_register
    <3>5. CASE entry[f] = NoWaker
      BY <1>0, <3>1, <3>2, <3>3, <3>4, <3>5 DEF FifoTypeOK
    <3>6. CASE entry[f] = f
      BY <1>0, <3>1, <3>2, <3>3, <3>4, <3>6 DEF FifoTypeOK
    <3> QED
      BY <3>4, <3>5, <3>6
  <2> QED
    BY <2>1, <2>2
<1>8. ASSUME NEW f \in Futures, drop(f)
      PROVE  Goal
  <2>1. DropEffect(f)
    BY <1>8, DropNotification
  <2>2. /\ pc' = [pc EXCEPT ![f] = "absent"] /\ done' = [done EXCEPT ![f] = FALSE]
        /\ reserved' = [reserved EXCEPT ![f] = FALSE]
        /\ asleep' = [asleep EXCEPT ![f] = FALSE]
        /\ snapshot' = [snapshot EXCEPT ![f] = 0]
        /\ UNCHANGED <<generation, entry>>
    BY <1>8 DEF drop
  <2>3. /\ kind'[f] = "None" /\ wakes \subseteq wakes' /\ (permit' => fifo' = <<>>)
        /\ \A g \in Waiters \ {f} :
              \/ kind'[g] = kind[g] /\ waker'[g] = waker[g]
              \/ /\ kind[g] = "Queued" /\ kind'[g] = "One"
                 /\ waker[g] \in wakes' \cup {NoWaker}
    BY <2>1 DEF DropEffect, GrantTyped
  <2>4. CallShape'
    BY <1>0, <2>2, <2>3
  <2>5. QueueInv'
    BY <1>0, <2>2, <2>3
  <2>6. SleeperReachable'
    <3> SUFFICES ASSUME NEW g \in Futures, asleep'[g]
                 PROVE  g \in wakes' \/ (kind'[g] = "Queued" /\ waker'[g] = g)
      OBVIOUS
    <3>1. g # f /\ asleep[g]
      BY <1>0, <2>2
    <3>2. g \in wakes \/ (kind[g] = "Queued" /\ waker[g] = g)
      BY <1>0, <3>1
    <3> QED
      BY <1>0, <2>3, <3>1, <3>2
  <2> QED
    BY <2>4, <2>5, <2>6
<1>9. ASSUME NEW f \in Futures, WakeTask(f)
      PROVE  Goal
  BY <1>0, <1>9 DEF WakeTask, Wake
<1>10. CASE UNCHANGED vars
  BY <1>0, <1>10 DEF vars, callVars, fifoVars
<1> QED
  BY <1>1, <1>2, <1>3, <1>4, <1>5, <1>6, <1>7, <1>8, <1>9, <1>10
  DEF Next, enable, poll

\* Every step accounts for each notification: it stays where it is or moves.
LEMMA ConservedStep ==
    ASSUME Inv, [Next]_vars
    PROVE  NotificationsConserved'
<1> USE DEF Futures
<1>0. /\ TypeOK /\ ExactQueue(kind, fifo, waker) /\ CallShape
      /\ permit \in BOOLEAN /\ coalesced \in Nat /\ issued \in Nat /\ delivered \in Nat
      /\ kind \in [Waiters -> Kinds] /\ reserved \in [Waiters -> BOOLEAN]
      /\ done \in [Waiters -> BOOLEAN]
  BY InvExactQueue DEF Inv, TypeOK, FifoTypeOK
<1> DEFINE Held == Pending(kind, permit, coalesced)
           HeldNext == Pending(kind', permit', coalesced')
<1>r. IsFiniteSet(Reserved) /\ Cardinality(Reserved) \in Nat
  <2>1. Reserved \subseteq Waiters
    BY DEF Reserved
  <2> QED
    BY <2>1, FS_Subset, FS_CardinalityType, FuturesAssumption
<1>h. Held \in Nat /\ issued = Held + delivered + Cardinality(Reserved)
  <2>1. Cardinality(OnesOf(kind)) \in Nat
    BY OnesFinite
  <2> QED
    BY <1>0, <1>r, <2>1 DEF Inv, NotificationsConserved, Pending, Stored, OnesOf, Ones
<1>t. TypeOK'
  BY TypeStep
<1>n. delivered' \in Nat /\ IsFiniteSet(Reserved') /\ Cardinality(Reserved') \in Nat
  <2>1. Reserved' \subseteq Waiters
    BY DEF Reserved
  <2> QED
    BY <1>t, <2>1, FS_Subset, FS_CardinalityType, FuturesAssumption DEF TypeOK
<1>c. ASSUME issued' = HeldNext + delivered' + Cardinality(Reserved')
      PROVE  NotificationsConserved'
  <2>1. Cardinality(OnesOf(kind')) \in Nat
    BY OnesFinite
  <2>2. OnesOf(kind') = Ones'
    BY DEF OnesOf, Ones
  <2> QED
    BY <1>c, <1>n, <1>t, <2>1, <2>2 DEF NotificationsConserved, Pending, Stored, TypeOK
<1>k. ASSUME OnesOf(kind') = OnesOf(kind), permit' = permit, coalesced' = coalesced
      PROVE  HeldNext = Held
  BY <1>k DEF Pending
<1>s. ASSUME reserved' = reserved
      PROVE  Reserved' = Reserved
  BY <1>s DEF Reserved
<1> HIDE DEF Held, HeldNext
\* The future's call is answered: the notification it took is reserved by
\* enable or delivered by poll.
<1>a. ASSUME NEW f \in Futures, NEW w, NEW one \in BOOLEAN, Complete(f, w, one), ~done[f]
      PROVE  /\ issued' = issued
             /\ delivered' + Cardinality(Reserved')
                  = delivered + Cardinality(Reserved) + (IF one THEN 1 ELSE 0)
  <2>0. f \notin Reserved
    BY <1>0, <1>a DEF CallShape, Reserved
  <2>1. CASE one /\ w = NoWaker
    <3>1. Reserved' = Reserved \cup {f}
      BY <1>0, <1>a, <2>1 DEF Complete, Reserved
    <3>2. Cardinality(Reserved') = Cardinality(Reserved) + 1
      BY <1>r, <2>0, <3>1, FS_AddElement
    <3> QED
      BY <1>0, <1>a, <1>r, <2>1, <3>2 DEF Complete
  <2>2. CASE ~(one /\ w = NoWaker)
    <3>1. Reserved' = Reserved
      BY <1>0, <1>a, <2>0, <2>2 DEF Complete, Reserved
    <3> QED
      BY <1>0, <1>a, <1>r, <2>2, <3>1 DEF Complete
  <2> QED
    BY <2>1, <2>2
<1>1. CASE notify_one
  <2>1. HeldNext = Held + 1
    BY <1>0, <1>1, Grant DEF notify_one, Held, HeldNext
  <2>2. Reserved' = Reserved
    BY <1>1, <1>s DEF notify_one, callVars
  <2> QED
    BY <1>1, <1>c, <1>h, <1>r, <1>0, <2>1, <2>2 DEF notify_one
<1>2. CASE notify_waiters
  <2>1. OnesOf(kind') = OnesOf(kind)
    BY <1>2 DEF notify_waiters, GrantAll, OnesOf
  <2>2. Reserved' = Reserved
    BY <1>2, <1>s DEF notify_waiters, callVars
  <2> QED
    BY <1>2, <1>c, <1>h, <1>k, <2>1, <2>2 DEF notify_waiters, history
<1>3. ASSUME NEW f \in Futures, notified(f) \/ WakeTask(f)
      PROVE  NotificationsConserved'
  <2>1. kind' = kind /\ reserved' = reserved /\ permit' = permit /\ UNCHANGED history
    BY <1>3 DEF notified, WakeTask, Wake, fifoVars
  <2> QED
    BY <1>c, <1>h, <1>k, <1>s, <2>1 DEF history
<1>4. ASSUME NEW f \in Futures, NEW w \in {f, NoWaker}, Call(f, w)
      PROVE  NotificationsConserved'
  <2>0. HeldNext = Held /\ issued' = issued
    BY <1>4, <1>k DEF Call, fifoVars
  <2>1. CASE done[f] /\ reserved[f] /\ w # NoWaker
    <3>1. Reserved' = Reserved \ {f} /\ f \in Reserved
      BY <1>0, <1>4, <2>1 DEF Call, Reserved
    <3>2. Cardinality(Reserved') = Cardinality(Reserved) - 1
      BY <1>r, <3>1, FS_RemoveElement
    <3>3. delivered' = delivered + 1
      BY <1>4, <2>1 DEF Call
    <3> QED
      BY <1>0, <1>c, <1>h, <1>r, <2>0, <3>2, <3>3
  <2>2. CASE ~(done[f] /\ reserved[f] /\ w # NoWaker)
    <3>1. Reserved' = Reserved /\ delivered' = delivered
      <4>1. CASE done[f]
        BY <1>0, <1>4, <2>2, <4>1 DEF Call, Reserved
      <4>2. CASE ~done[f]
        BY <1>4, <1>s, <4>2 DEF Call
      <4> QED
        BY <4>1, <4>2
    <3> QED
      BY <1>c, <1>h, <2>0, <3>1
  <2> QED
    BY <2>1, <2>2
<1>5. ASSUME NEW f \in Futures, CheckGeneration(f)
      PROVE  NotificationsConserved'
  <2>0. HeldNext = Held /\ ~done[f]
    BY <1>0, <1>5, <1>k DEF CheckGeneration, Complete, fifoVars, history, CallShape
  <2>1. CASE generation # snapshot[f]
    <3>1. Complete(f, entry[f], FALSE)
      BY <1>5, <2>1 DEF CheckGeneration
    <3>2. /\ issued' = issued
          /\ delivered' + Cardinality(Reserved')
               = delivered + Cardinality(Reserved) + (IF FALSE THEN 1 ELSE 0)
      BY <1>a, <2>0, <3>1
    <3> QED
      BY <1>0, <1>c, <1>h, <1>n, <1>r, <2>0, <3>2
  <2>2. CASE generation = snapshot[f]
    BY <1>5, <1>c, <1>h, <1>s, <2>0, <2>2 DEF CheckGeneration, history
  <2> QED
    BY <2>1, <2>2
<1>6. ASSUME NEW f \in Futures, TakePermit(f)
      PROVE  NotificationsConserved'
  <2>1. CASE permit
    <3>1. Complete(f, entry[f], TRUE) /\ permit' = FALSE /\ kind' = kind /\ ~done[f]
      BY <1>0, <1>6, <2>1 DEF TakePermit, fifoVars, CallShape
    <3>2. HeldNext = Held - 1
      BY <1>0, <2>1, <3>1, OnesFinite DEF Held, HeldNext, Pending, Stored, Complete
    <3>3. /\ issued' = issued
          /\ delivered' + Cardinality(Reserved') = delivered + Cardinality(Reserved) + 1
      BY <1>a, <3>1
    <3> QED
      BY <1>0, <1>c, <1>h, <1>n, <1>r, <3>2, <3>3
  <2>2. CASE ~permit
    <3>1. HeldNext = Held
      BY <1>6, <1>k, <2>2 DEF TakePermit, fifoVars, history
    <3> QED
      BY <1>6, <1>c, <1>h, <1>s, <2>2, <3>1 DEF TakePermit, history
  <2> QED
    BY <2>1, <2>2
<1>7. ASSUME NEW f \in Futures, ready_or_register(f)
      PROVE  NotificationsConserved'
  <2>0. ~done[f] /\ kind[f] \in Kinds
    BY <1>0, <1>7 DEF ready_or_register, CallShape
  <2>1. CASE Notification(f) = "One"
    <3>1. Complete(f, entry[f], TRUE) /\ kind' = [kind EXCEPT ![f] = "None"]
      BY <1>7, <2>1 DEF ready_or_register, Remove
    <3>2. HeldNext = Held - 1
      <4>1. CASE kind[f] = "One"
        <5>1. OnesOf(kind') = OnesOf(kind) \ {f} /\ f \in OnesOf(kind)
          BY <1>0, <3>1, <4>1 DEF OnesOf
        <5>2. /\ Cardinality(OnesOf(kind')) = Cardinality(OnesOf(kind)) - 1
              /\ Cardinality(OnesOf(kind)) \in Nat
          BY <5>1, OnesFinite, FS_RemoveElement
        <5>3. permit' = permit /\ coalesced' = coalesced
          BY <1>7, <3>1, <4>1 DEF ready_or_register, Assigned, Complete
        <5> QED
          BY <1>0, <5>2, <5>3 DEF Held, HeldNext, Pending, Stored
      <4>2. CASE kind[f] # "One"
        <5>1. OnesOf(kind') = OnesOf(kind)
          BY <1>0, <3>1, <4>2 DEF OnesOf
        <5>2. permit = TRUE /\ permit' = FALSE /\ coalesced' = coalesced
          BY <1>0, <1>7, <2>1, <3>1, <4>2
          DEF ready_or_register, Assigned, Notification, Complete
        <5> QED
          BY <1>0, <5>1, <5>2, OnesFinite DEF Held, HeldNext, Pending, Stored
      <4> QED
        BY <4>1, <4>2
    <3>3. /\ issued' = issued
          /\ delivered' + Cardinality(Reserved') = delivered + Cardinality(Reserved) + 1
      BY <1>a, <2>0, <3>1
    <3> QED
      BY <1>0, <1>c, <1>h, <1>n, <1>r, <3>2, <3>3
  <2>2. CASE Notification(f) = "All"
    <3>1. Complete(f, entry[f], FALSE) /\ kind' = [kind EXCEPT ![f] = "None"]
      BY <1>7, <2>2 DEF ready_or_register, Remove
    <3>2. kind[f] # "One"
      BY <2>2 DEF Notification, Assigned
    <3>3. OnesOf(kind') = OnesOf(kind)
      BY <1>0, <3>1, <3>2 DEF OnesOf
    <3>4. HeldNext = Held
      BY <1>7, <1>k, <2>2, <3>1, <3>3 DEF ready_or_register, Complete
    <3>5. /\ issued' = issued
          /\ delivered' + Cardinality(Reserved')
               = delivered + Cardinality(Reserved) + (IF FALSE THEN 1 ELSE 0)
      BY <1>a, <2>0, <3>1
    <3> QED
      BY <1>0, <1>c, <1>h, <1>n, <1>r, <3>4, <3>5
  <2>3. CASE Notification(f) = "None"
    <3>1. /\ kind' = [kind EXCEPT ![f] = "Queued"] /\ kind[f] # "One"
          /\ reserved' = reserved /\ UNCHANGED history
      BY <1>7, <2>3 DEF ready_or_register, Register, Notification, Assigned
    <3>2. OnesOf(kind') = OnesOf(kind)
      BY <1>0, <3>1 DEF OnesOf
    <3>3. permit' = permit
      BY <1>7, <2>3 DEF ready_or_register
    <3> QED
      BY <1>c, <1>h, <1>k, <1>s, <3>1, <3>2, <3>3 DEF history
  <2>4. Notification(f) \in {"One", "All", "None"}
    BY <2>0 DEF Notification, Assigned, Kinds
  <2> QED
    BY <2>1, <2>2, <2>3, <2>4
<1>8. ASSUME NEW f \in Futures, drop(f)
      PROVE  NotificationsConserved'
  <2>1. HeldNext = Held + Stored(reserved[f])
    BY <1>8, DropNotification DEF DropEffect, Held, HeldNext
  <2>2. reserved' = [reserved EXCEPT ![f] = FALSE] /\ UNCHANGED <<issued, delivered>>
    BY <1>8 DEF drop
  <2>3. CASE reserved[f]
    <3>1. Reserved' = Reserved \ {f} /\ f \in Reserved
      BY <1>0, <2>2, <2>3 DEF Reserved
    <3>2. Cardinality(Reserved') = Cardinality(Reserved) - 1
      BY <1>r, <3>1, FS_RemoveElement
    <3> QED
      BY <1>0, <1>c, <1>h, <1>r, <2>1, <2>2, <2>3, <3>2 DEF Stored
  <2>4. CASE ~reserved[f]
    <3>1. Reserved' = Reserved
      BY <1>0, <2>2, <2>4 DEF Reserved
    <3> QED
      BY <1>c, <1>h, <2>1, <2>2, <2>4, <3>1 DEF Stored
  <2> QED
    BY <2>3, <2>4
<1>9. CASE UNCHANGED vars
  BY <1>9, <1>c, <1>h, <1>k, <1>s DEF vars, callVars, history, fifoVars
<1> QED
  BY <1>1, <1>2, <1>3, <1>4, <1>5, <1>6, <1>7, <1>8, <1>9 DEF Next, enable, poll

-----------------------------------------------------------------------------
\* The inductive invariant holds in every reachable state.
LEMMA InvHolds == Spec => []Inv
<1>1. Init => Inv
  <2> SUFFICES ASSUME Init PROVE Inv
    OBVIOUS
  <2>1. FifoTypeOK /\ QueueExact
    BY DEF Init, FifoInit, FifoTypeOK, QueueExact, Kinds
  <2>t. TypeOK
    BY <2>1 DEF Init, TypeOK, Futures
  <2>2. CallShape /\ QueueInv /\ SleeperReachable
    BY DEF Init, FifoInit, CallShape, QueueInv, PermitExcludesWaiters, QueuedIsCurrent,
           SleeperReachable, Futures
  <2>3. Ones = {} /\ Reserved = {}
    BY DEF Init, FifoInit, Ones, Reserved, Futures
  <2>4. NotificationsConserved
    BY <2>3, FS_EmptySet DEF Init, NotificationsConserved
  <2> QED
    BY <2>1, <2>t, <2>2, <2>4 DEF Inv
<1>2. Inv /\ [Next]_vars => Inv'
  BY TypeStep, QueueStep, ConservedStep DEF Inv
<1> QED
  BY <1>1, <1>2, PTL DEF Spec

\* Every step of notifiers and futures keeps the state of Notify well typed.
THEOREM TypeCorrect == Spec => []TypeOK
<1>1. Inv => TypeOK
  BY DEF Inv
<1> QED
  BY <1>1, InvHolds, PTL

\* A stored permit and a queued waiter never coexist: the promise of the
\* comment in Notify::grant_one, with the lock-free take of ready_or_register
\* racing it.
THEOREM PermitNeverBesideWaiter == Spec => []PermitExcludesWaiters
<1>1. Inv => PermitExcludesWaiters
  BY DEF Inv, QueueInv
<1> QED
  BY <1>1, InvHolds, PTL

\* Every notify_one is stored, granted, reserved, delivered or merged, in any
\* order of notifications, polls and cancellations.
THEOREM NothingLostOrDuplicated == Spec => []NotificationsConserved
<1>1. Inv => NotificationsConserved
  BY DEF Inv
<1> QED
  BY <1>1, InvHolds, PTL

\* A task asleep on a notification is queued with its own waker, or its waker
\* is about to be invoked.
THEOREM SleepersCanBeWoken == Spec => []SleeperReachable
<1>1. Inv => SleeperReachable
  BY DEF Inv
<1> QED
  BY <1>1, InvHolds, PTL

\* notify_waiters misses no queued future: one still in the queue was made
\* after the last broadcast.
THEOREM BroadcastMissesNobody == Spec => []QueuedIsCurrent
<1>1. Inv => QueuedIsCurrent
  BY DEF Inv, QueueInv
<1> QED
  BY <1>1, InvHolds, PTL

\* No task sleeps through a notification it should have had, from notify_one
\* or notify_waiters, whatever registrations and cancellations interleave.
THEOREM NoLostWakeup == Spec => []SleepIsSafe
<1>1. TypeOK /\ PermitExcludesWaiters /\ SleeperReachable /\ QueuedIsCurrent => SleepIsSafe
  BY DEF SleepIsSafe
<1> QED
  BY <1>1, TypeCorrect, PermitNeverBesideWaiter, SleepersCanBeWoken, BroadcastMissesNobody, PTL
=============================================================================
