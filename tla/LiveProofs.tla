----------------------------- MODULE LiveProofs -----------------------------
(***************************************************************************)
(* The two components that wait in the kernel.                             *)
(*                                                                         *)
(* The local executor, for any tasks and threads: the lock-free chain of   *)
(* woken tasks holds each of them once, and the thread does not sleep on a *)
(* wake.  The timers, for any sleeps, wakers and horizon, and either       *)
(* driver: no sleep fires before its deadline, the waker of a sleeping     *)
(* task stays within reach of a driver, and the driver in charge does not  *)
(* wait past an armed sleep.                                               *)
(***************************************************************************)
EXTENDS Local, Timers, TLAPS, WellFoundedInduction

-----------------------------------------------------------------------------
(* The local executor.                                                     *)

\* The types TLC checks, and those of a wake, of the walk and of the loop.
LocalTypes ==
    /\ LocalTypeOK
    /\ target \in [Threads -> Tasks \cup {END}] /\ seen \in [Threads -> Tasks \cup {END}]
    /\ cursor \in Tasks \cup {END} /\ following \in Tasks \cup {END}
    /\ block \in BOOLEAN /\ retry \in BOOLEAN /\ kicked \in BOOLEAN

\* Only a task that was pushed is queued, and only one that was polled can be
\* woken by a timer or an event.
EntriesExact ==
    /\ \A t \in Tasks : queued[t] => t \in entries
    /\ \A t \in Tasks : timer[t] # "off" => t \in polled
    /\ io \cup todo \subseteq polled
    /\ mpc \in {"clear", "run", "in"} => cursor \in entries
    /\ mpc = "in" => cursor \in polled

\* The driving thread wakes from inside a push, a task, a timer or dispatch;
\* a wait that fired timers does not block; waiting is its key while it is in
\* poll_once.
SelfExact ==
    /\ ~At(Self, "idle") => mpc \in {"poll", "in", "fire", "dispatch"}
    /\ mpc = "poll" => wpc[Self] \in {"idle", "store", "pushing"}
    /\ mpc = "fire" /\ (todo # {} \/ ~At(Self, "idle")) => ~block
    /\ waiting <=> mpc \in {"timers", "fire", "kernel", "dispatch", "out"}
    /\ mpc \in {"wait", "timers", "fire", "kernel", "dispatch", "loop"} => ~retry

\* The thread has queued its task and not linked it yet.
IsLinking(h) == wpc[h] \in {"store", "cas", "pushing"}

\* What a thread that links a task knows: the task is its own, and its link
\* is the head it saw.
LinkersExact ==
    /\ \A h \in Threads : IsLinking(h) => target[h] \in Tasks
    /\ \A h, g \in Threads : IsLinking(h) /\ IsLinking(g) /\ target[h] = target[g] => h = g
    /\ \A h \in Threads : wpc[h] \in {"cas", "pushing"} => link[target[h]] = seen[h]
    /\ \A h \in Threads : wpc[h] = "pushing" => h = Self /\ mpc = "poll"

\* The queued tasks are shared out between the chains and the linkers.
ChainShare ==
    /\ {t \in Tasks : queued[t]} = Walked \cup ChainFrom(head) \cup Linking
    /\ Walked \cap ChainFrom(head) = {}
    /\ (Walked \cup ChainFrom(head)) \cap Linking = {}

\* A chain does not lead back, so that the task the walk leaves is not ahead
\* of it.
OneWay ==
    /\ \A t \in Walked \cup ChainFrom(head) : t \notin ChainFrom(link[t])
    /\ mpc = "clear" => following = link[cursor]

\* From the registration of the set's parent until the set is polled again:
\* the parent's waker is there, or was taken by a thread that sets ready; and
\* a chain that was begun since has a thread that takes it.
ParentExact ==
    /\ mpc \notin {"poll", "register", "exit"} =>
          parent \/ ready \/ \E h \in Threads : At(h, "ready")
    /\ mpc \notin {"poll", "register", "take", "exit"} =>
          head = END \/ ~parent \/ \E h \in Threads : At(h, "parent")

\* A ready flag that the loop is not about to look at will interrupt the wait,
\* or there is none to interrupt.
ReadyExact ==
    mpc \notin {"loop", "dispatch", "out", "exit"} /\ ready =>
        \/ kicked \/ retry
        \/ \E h \in Remote : wpc[h] \in {"look", "kick"}
        \/ mpc = "in" /\ wpc[Self] \in {"look", "kick"}
        \/ mpc \in {"fire", "kernel"} /\ ~block

\* The inductive invariant of the local executor.
LocalInv ==
    /\ LocalTypes /\ EntriesExact /\ SelfExact /\ LinkersExact /\ ChainShare /\ OneWay
    /\ ParentExact /\ ReadyExact

-----------------------------------------------------------------------------
(* The least set closed under the links.                                   *)

\* It is a set of tasks, holds where it starts and is closed.
LEMMA ReachIsClosed ==
    ASSUME NEW l \in [Tasks -> Tasks \cup {END}], NEW i \in Tasks \cup {END}
    PROVE  /\ Reach(l, i) \in SUBSET Tasks /\ Closed(l, Reach(l, i))
           /\ i \in Tasks => i \in Reach(l, i)
           /\ i \notin Tasks => Reach(l, i) = {}
<1>1. ASSUME NEW t \in Reach(l, i), l[t] # END
      PROVE  l[t] \in Reach(l, i)
  BY <1>1 DEF Reach, Closed
<1> QED
  BY <1>1 DEF Reach, Closed

\* It is the least.
LEMMA ReachIsLeast ==
    ASSUME NEW l \in [Tasks -> Tasks \cup {END}], NEW i \in Tasks \cup {END},
           NEW S \in SUBSET Tasks, i \in Tasks => i \in S, Closed(l, S)
    PROVE  Reach(l, i) \subseteq S
BY DEF Reach

\* A chain is its first task and the chain from its link.
LEMMA ReachFirst ==
    ASSUME NEW l \in [Tasks -> Tasks \cup {END}], NEW i \in Tasks
    PROVE  Reach(l, i) = {i} \cup Reach(l, l[i])
<1> DEFINE N == {i} \cup Reach(l, l[i])
<1>1. l[i] \in Tasks \cup {END}
  OBVIOUS
<1>2. /\ Reach(l, l[i]) \in SUBSET Tasks /\ Closed(l, Reach(l, l[i]))
      /\ l[i] \in Tasks => l[i] \in Reach(l, l[i])
  BY <1>1, ReachIsClosed
<1>3. Closed(l, N)
  BY <1>1, <1>2 DEF Closed
<1>4. Reach(l, i) \subseteq N
  <2>1. N \in SUBSET Tasks /\ i \in N
    BY <1>2
  <2> HIDE DEF N
  <2> QED
    BY <1>3, <2>1, ReachIsLeast
<1>5. /\ Reach(l, i) \in SUBSET Tasks /\ Closed(l, Reach(l, i)) /\ i \in Reach(l, i)
  BY ReachIsClosed
<1>6. l[i] \in Tasks => l[i] \in Reach(l, i)
  BY <1>5, LocalAssumption DEF Closed
<1>7. Reach(l, l[i]) \subseteq Reach(l, i)
  BY <1>1, <1>5, <1>6, ReachIsLeast
<1> QED
  BY <1>4, <1>5, <1>7

\* The chain from a task of a chain is part of it.
LEMMA ReachInside ==
    ASSUME NEW l \in [Tasks -> Tasks \cup {END}], NEW i \in Tasks \cup {END},
           NEW t \in Reach(l, i)
    PROVE  Reach(l, t) \subseteq Reach(l, i) /\ Reach(l, l[t]) \subseteq Reach(l, i)
<1>1. Reach(l, i) \in SUBSET Tasks /\ Closed(l, Reach(l, i))
  BY ReachIsClosed
<1>2. t \in Tasks /\ l[t] \in Tasks \cup {END} /\ (l[t] \in Tasks => l[t] \in Reach(l, i))
  BY <1>1, LocalAssumption DEF Closed
<1> QED
  BY <1>1, <1>2, ReachIsLeast

\* Links outside a chain do not matter to it.
LEMMA ReachKept ==
    ASSUME NEW l \in [Tasks -> Tasks \cup {END}], NEW m \in [Tasks -> Tasks \cup {END}],
           NEW i \in Tasks \cup {END}, \A t \in Reach(l, i) : m[t] = l[t]
    PROVE  Reach(m, i) = Reach(l, i)
<1>1. /\ Reach(l, i) \in SUBSET Tasks /\ Closed(l, Reach(l, i))
      /\ i \in Tasks => i \in Reach(l, i)
  BY ReachIsClosed
<1>2. Closed(m, Reach(l, i))
  BY <1>1 DEF Closed
<1>3. Reach(m, i) \subseteq Reach(l, i)
  BY <1>1, <1>2, ReachIsLeast
<1>4. /\ Reach(m, i) \in SUBSET Tasks /\ Closed(m, Reach(m, i))
      /\ i \in Tasks => i \in Reach(m, i)
  BY ReachIsClosed
<1>5. Closed(l, Reach(m, i))
  BY <1>3, <1>4 DEF Closed
<1>6. Reach(l, i) \subseteq Reach(m, i)
  BY <1>4, <1>5, ReachIsLeast
<1> QED
  BY <1>3, <1>6

-----------------------------------------------------------------------------
\* Every step keeps the types.
LEMMA LocalTypesStep ==
    ASSUME LocalInv, LocalNext
    PROVE  LocalTypes'
<1>s. /\ Self \in Threads /\ Remote \subseteq Threads /\ Self \notin Remote
      /\ END \notin Tasks
  BY LocalAssumption DEF Threads
<1> USE <1>s DEF wakerVars, chainVars, setVars, slotVars, walkVars, loopVars, kernelVars,
            ghostVars
<1> USE DEF LocalInv, LocalTypes, LocalTypeOK, EntriesExact, LinkersExact, IsLinking
<1>1. ASSUME NEW h \in Threads, StoreNext(h) PROVE LocalTypes'
  BY <1>1 DEF StoreNext, At, Jump
<1>2. ASSUME NEW h \in Threads, LinkHead(h) PROVE LocalTypes'
  BY <1>2 DEF LinkHead, At, Jump, Ret
<1>3. ASSUME NEW h \in Threads, ParentWake(h) PROVE LocalTypes'
  <2>1. /\ wpc' \in [Threads -> {"idle", "store", "cas", "parent", "ready", "look", "kick", "pushing"}]
        /\ target' \in [Threads -> Tasks \cup {END}] /\ seen' \in [Threads -> Tasks \cup {END}]
    BY <1>3 DEF ParentWake, At, Jump, Ret
  <2>2. parent' \in BOOLEAN
    BY <1>3 DEF ParentWake, At, Jump, Ret
  <2> QED
    BY <1>3, <2>1, <2>2 DEF ParentWake
<1>4. ASSUME NEW h \in Threads, SetReady(h) PROVE LocalTypes'
  BY <1>4 DEF SetReady, At, Jump
<1>5. ASSUME NEW h \in Threads, Look(h) PROVE LocalTypes'
  BY <1>5 DEF Look, LookAtWaiting, At, Jump, Ret
<1>6. ASSUME NEW h \in Threads, Kick(h) PROVE LocalTypes'
  BY <1>6 DEF Kick, At, Ret
<1>7. ASSUME NEW h \in Remote, NEW t \in Tasks, RemoteWake(h, t) PROVE LocalTypes'
  BY <1>7 DEF RemoteWake, SlotWake, At, Jump
<1>8. ASSUME NEW t \in Tasks, push(t) PROVE LocalTypes'
  BY <1>8 DEF push, InSelf, At, Jump
<1>9. CASE PollSet
  BY <1>9 DEF PollSet, InSelf, At
<1>10. CASE Register
  BY <1>10 DEF Register, InSelf, At
<1>11. CASE TakeChain
  BY <1>11 DEF TakeChain, InSelf, At
<1>12. CASE WalkNext
  BY <1>12 DEF WalkNext, InSelf, At
<1>13. CASE Unqueue
  BY <1>13 DEF Unqueue, InSelf, At
<1>14. CASE PollTask
  BY <1>14 DEF PollTask, InSelf, At
<1>15. ASSUME NEW t \in Tasks, WakeInside(t) PROVE LocalTypes'
  BY <1>15 DEF WakeInside, SlotWake, At, Jump
<1>16. CASE Arm
  BY <1>16 DEF Arm, InSelf, At
<1>17. CASE LeaveTask
  BY <1>17 DEF LeaveTask, Advance, InSelf, At
<1>18. CASE WalkEnd
  BY <1>18 DEF WalkEnd, InSelf, At
<1>19. CASE SwapReady
  BY <1>19 DEF SwapReady, InSelf, At
<1>20. CASE SetWaiting
  BY <1>20 DEF SetWaiting, InSelf, At
<1>21. CASE ServiceTimers
  BY <1>21 DEF ServiceTimers, Timeout, InSelf, At
<1>22. CASE WakeCollected
  BY <1>22 DEF WakeCollected, SlotWake, At, Jump
<1>23. CASE WakesMade
  BY <1>23 DEF WakesMade, InSelf, At
<1>24. CASE Wait
  BY <1>24 DEF Wait, InSelf, At
<1>25. CASE WaitFails
  BY <1>25 DEF WaitFails, InSelf, At
<1>26. CASE ClearWaiting
  BY <1>26 DEF ClearWaiting, InSelf, At
<1>27. ASSUME NEW t \in Tasks, IoReady(t) PROVE LocalTypes'
  BY <1>27 DEF IoReady, At
<1>28. ASSUME NEW t \in Tasks, TimerDue(t) PROVE LocalTypes'
  BY <1>28 DEF TimerDue, At
<1> QED
  BY <1>s, <1>1, <1>2, <1>3, <1>4, <1>5, <1>6, <1>7, <1>8, <1>9, <1>10, <1>11, <1>12,
     <1>13, <1>14, <1>15, <1>16, <1>17, <1>18, <1>19, <1>20, <1>21, <1>22, <1>23, <1>24,
     <1>25, <1>26, <1>27, <1>28
     DEF LocalNext, Driver, WakeStep

\* Every step keeps the queued tasks among those pushed, and the wakes owed
\* among those polled.
LEMMA EntriesStep ==
    ASSUME LocalInv, LocalNext
    PROVE  EntriesExact'
<1>s. /\ Self \in Threads /\ Remote \subseteq Threads /\ Self \notin Remote
      /\ END \notin Tasks
  BY LocalAssumption DEF Threads
<1> USE <1>s DEF wakerVars, chainVars, setVars, slotVars, walkVars, loopVars, kernelVars,
            ghostVars
<1> USE DEF LocalInv, LocalTypes, LocalTypeOK, EntriesExact
<1>1. ASSUME NEW h \in Threads, StoreNext(h) PROVE EntriesExact'
  BY <1>1 DEF StoreNext, At, Jump
<1>2. ASSUME NEW h \in Threads, LinkHead(h) PROVE EntriesExact'
  BY <1>2 DEF LinkHead, At, Jump, Ret
<1>3. ASSUME NEW h \in Threads, ParentWake(h) PROVE EntriesExact'
  BY <1>3 DEF ParentWake, At, Jump, Ret
<1>4. ASSUME NEW h \in Threads, SetReady(h) PROVE EntriesExact'
  BY <1>4 DEF SetReady, At, Jump
<1>5. ASSUME NEW h \in Threads, Look(h) PROVE EntriesExact'
  BY <1>5 DEF Look, LookAtWaiting, At, Jump, Ret
<1>6. ASSUME NEW h \in Threads, Kick(h) PROVE EntriesExact'
  BY <1>6 DEF Kick, At, Ret
<1>7. ASSUME NEW h \in Remote, NEW t \in Tasks, RemoteWake(h, t) PROVE EntriesExact'
  BY <1>7 DEF RemoteWake, SlotWake, At, Jump
<1>8. ASSUME NEW t \in Tasks, push(t) PROVE EntriesExact'
  BY <1>8 DEF push, InSelf, At, Jump
<1>9. CASE PollSet
  BY <1>9 DEF PollSet, InSelf, At
<1>10. CASE Register
  BY <1>10 DEF Register, InSelf, At
<1>11. CASE TakeChain
  BY <1>11 DEF TakeChain, InSelf, At
<1>12. CASE WalkNext
  <2>1. cursor \in Tasks /\ cursor \in ChainFrom(cursor)
    BY <1>12, ReachIsClosed DEF WalkNext, ChainFrom
  <2>2. queued[cursor]
    BY <1>12, <2>1 DEF WalkNext, InSelf, ChainShare, Walked
  <2> QED
    BY <1>12, <2>1, <2>2 DEF WalkNext, InSelf, At
<1>13. CASE Unqueue
  BY <1>13 DEF Unqueue, InSelf, At
<1>14. CASE PollTask
  BY <1>14 DEF PollTask, InSelf, At
<1>15. ASSUME NEW t \in Tasks, WakeInside(t) PROVE EntriesExact'
  BY <1>15 DEF WakeInside, SlotWake, At, Jump
<1>16. CASE Arm
  BY <1>16 DEF Arm, InSelf, At
<1>17. CASE LeaveTask
  BY <1>17 DEF LeaveTask, Advance, InSelf, At
<1>18. CASE WalkEnd
  BY <1>18 DEF WalkEnd, InSelf, At
<1>19. CASE SwapReady
  BY <1>19 DEF SwapReady, InSelf, At
<1>20. CASE SetWaiting
  BY <1>20 DEF SetWaiting, InSelf, At
<1>21. CASE ServiceTimers
  BY <1>21 DEF ServiceTimers, Timeout, InSelf, At
<1>22. CASE WakeCollected
  BY <1>22 DEF WakeCollected, SlotWake, At, Jump
<1>23. CASE WakesMade
  BY <1>23 DEF WakesMade, InSelf, At
<1>24. CASE Wait
  BY <1>24 DEF Wait, InSelf, At
<1>25. CASE WaitFails
  BY <1>25 DEF WaitFails, InSelf, At
<1>26. CASE ClearWaiting
  BY <1>26 DEF ClearWaiting, InSelf, At
<1>27. ASSUME NEW t \in Tasks, IoReady(t) PROVE EntriesExact'
  BY <1>27 DEF IoReady, At
<1>28. ASSUME NEW t \in Tasks, TimerDue(t) PROVE EntriesExact'
  BY <1>28 DEF TimerDue, At
<1> QED
  BY <1>s, <1>1, <1>2, <1>3, <1>4, <1>5, <1>6, <1>7, <1>8, <1>9, <1>10, <1>11, <1>12,
     <1>13, <1>14, <1>15, <1>16, <1>17, <1>18, <1>19, <1>20, <1>21, <1>22, <1>23, <1>24,
     <1>25, <1>26, <1>27, <1>28
     DEF LocalNext, Driver, WakeStep

\* Every step keeps the driving thread's place in line with what it has
\* stored and is waking.
LEMMA SelfStep ==
    ASSUME LocalInv, LocalNext
    PROVE  SelfExact'
<1>s. /\ Self \in Threads /\ Remote \subseteq Threads /\ Self \notin Remote
      /\ END \notin Tasks
  BY LocalAssumption DEF Threads
<1> USE <1>s DEF wakerVars, chainVars, setVars, slotVars, walkVars, loopVars, kernelVars,
            ghostVars
<1> USE DEF LocalInv, LocalTypes, LocalTypeOK, SelfExact
<1>1. ASSUME NEW h \in Threads, StoreNext(h) PROVE SelfExact'
  BY <1>1 DEF StoreNext, At, Jump
<1>2. ASSUME NEW h \in Threads, LinkHead(h) PROVE SelfExact'
  BY <1>2 DEF LinkHead, At, Jump, Ret
<1>3. ASSUME NEW h \in Threads, ParentWake(h) PROVE SelfExact'
  BY <1>3 DEF ParentWake, At, Jump, Ret
<1>4. ASSUME NEW h \in Threads, SetReady(h) PROVE SelfExact'
  BY <1>4 DEF SetReady, At, Jump
<1>5. ASSUME NEW h \in Threads, Look(h) PROVE SelfExact'
  BY <1>5 DEF Look, LookAtWaiting, At, Jump, Ret
<1>6. ASSUME NEW h \in Threads, Kick(h) PROVE SelfExact'
  BY <1>6 DEF Kick, At, Ret
<1>7. ASSUME NEW h \in Remote, NEW t \in Tasks, RemoteWake(h, t) PROVE SelfExact'
  BY <1>7 DEF RemoteWake, SlotWake, At, Jump
<1>8. ASSUME NEW t \in Tasks, push(t) PROVE SelfExact'
  BY <1>8 DEF push, InSelf, At, Jump
<1>9. CASE PollSet
  BY <1>9 DEF PollSet, InSelf, At
<1>10. CASE Register
  BY <1>10 DEF Register, InSelf, At
<1>11. CASE TakeChain
  BY <1>11 DEF TakeChain, InSelf, At
<1>12. CASE WalkNext
  BY <1>12 DEF WalkNext, InSelf, At
<1>13. CASE Unqueue
  BY <1>13 DEF Unqueue, InSelf, At
<1>14. CASE PollTask
  BY <1>14 DEF PollTask, InSelf, At
<1>15. ASSUME NEW t \in Tasks, WakeInside(t) PROVE SelfExact'
  BY <1>15 DEF WakeInside, SlotWake, At, Jump
<1>16. CASE Arm
  BY <1>16 DEF Arm, InSelf, At
<1>17. CASE LeaveTask
  BY <1>17 DEF LeaveTask, Advance, InSelf, At
<1>18. CASE WalkEnd
  BY <1>18 DEF WalkEnd, InSelf, At
<1>19. CASE SwapReady
  BY <1>19 DEF SwapReady, InSelf, At
<1>20. CASE SetWaiting
  BY <1>20 DEF SetWaiting, InSelf, At
<1>21. CASE ServiceTimers
  BY <1>21 DEF ServiceTimers, Timeout, InSelf, At
<1>22. CASE WakeCollected
  BY <1>22 DEF WakeCollected, SlotWake, At, Jump
<1>23. CASE WakesMade
  BY <1>23 DEF WakesMade, InSelf, At
<1>24. CASE Wait
  BY <1>24 DEF Wait, InSelf, At
<1>25. CASE WaitFails
  BY <1>25 DEF WaitFails, InSelf, At
<1>26. CASE ClearWaiting
  BY <1>26 DEF ClearWaiting, InSelf, At
<1>27. ASSUME NEW t \in Tasks, IoReady(t) PROVE SelfExact'
  BY <1>27 DEF IoReady, At
<1>28. ASSUME NEW t \in Tasks, TimerDue(t) PROVE SelfExact'
  BY <1>28 DEF TimerDue, At
<1> QED
  BY <1>s, <1>1, <1>2, <1>3, <1>4, <1>5, <1>6, <1>7, <1>8, <1>9, <1>10, <1>11, <1>12,
     <1>13, <1>14, <1>15, <1>16, <1>17, <1>18, <1>19, <1>20, <1>21, <1>22, <1>23, <1>24,
     <1>25, <1>26, <1>27, <1>28
     DEF LocalNext, Driver, WakeStep

\* Every step keeps the linkers apart: queued.swap lets one thread link a
\* task.
LEMMA LinkersStep ==
    ASSUME LocalInv, LocalNext
    PROVE  LinkersExact'
<1>s. /\ Self \in Threads /\ Remote \subseteq Threads /\ Self \notin Remote
      /\ END \notin Tasks
  BY LocalAssumption DEF Threads
<1>l. \A h \in Threads : IsLinking(h) => queued[target[h]]
  BY DEF LocalInv, ChainShare, Linking, IsLinking
<1> USE <1>s DEF wakerVars, chainVars, setVars, slotVars, walkVars, loopVars, kernelVars,
            ghostVars
<1> USE DEF LocalInv, LocalTypes, LocalTypeOK, SelfExact, LinkersExact, IsLinking
<1>1. ASSUME NEW h \in Threads, StoreNext(h) PROVE LinkersExact'
  BY <1>1 DEF StoreNext, At, Jump
<1>2. ASSUME NEW h \in Threads, LinkHead(h) PROVE LinkersExact'
  BY <1>2 DEF LinkHead, At, Jump, Ret
<1>3. ASSUME NEW h \in Threads, ParentWake(h) PROVE LinkersExact'
  BY <1>3 DEF ParentWake, At, Jump, Ret
<1>4. ASSUME NEW h \in Threads, SetReady(h) PROVE LinkersExact'
  BY <1>4 DEF SetReady, At, Jump
<1>5. ASSUME NEW h \in Threads, Look(h) PROVE LinkersExact'
  BY <1>5 DEF Look, LookAtWaiting, At, Jump, Ret
<1>6. ASSUME NEW h \in Threads, Kick(h) PROVE LinkersExact'
  BY <1>6 DEF Kick, At, Ret
<1>7. ASSUME NEW h \in Remote, NEW t \in Tasks, RemoteWake(h, t) PROVE LinkersExact'
  <2>1. \A g \in Threads : IsLinking(g) /\ ~queued[t] => target[g] # t
    BY <1>l
  <2> QED
    BY <1>7, <2>1 DEF RemoteWake, SlotWake, At, Jump
<1>8. ASSUME NEW t \in Tasks, push(t) PROVE LinkersExact'
  <2>0. ~queued[t]
    BY <1>8 DEF push, EntriesExact
  <2>1. \A g \in Threads : IsLinking(g) /\ ~queued[t] => target[g] # t
    BY <1>l
  <2> QED
    BY <1>8, <2>1, <2>0 DEF push, InSelf, At, Jump
<1>9. CASE PollSet
  BY <1>9 DEF PollSet, InSelf, At
<1>10. CASE Register
  BY <1>10 DEF Register, InSelf, At
<1>11. CASE TakeChain
  BY <1>11 DEF TakeChain, InSelf, At
<1>12. CASE WalkNext
  BY <1>12 DEF WalkNext, InSelf, At
<1>13. CASE Unqueue
  BY <1>13 DEF Unqueue, InSelf, At
<1>14. CASE PollTask
  BY <1>14 DEF PollTask, InSelf, At
<1>15. ASSUME NEW t \in Tasks, WakeInside(t) PROVE LinkersExact'
  <2>1. \A g \in Threads : IsLinking(g) /\ ~queued[t] => target[g] # t
    BY <1>l
  <2> QED
    BY <1>15, <2>1 DEF WakeInside, SlotWake, At, Jump
<1>16. CASE Arm
  BY <1>16 DEF Arm, InSelf, At
<1>17. CASE LeaveTask
  BY <1>17 DEF LeaveTask, Advance, InSelf, At
<1>18. CASE WalkEnd
  BY <1>18 DEF WalkEnd, InSelf, At
<1>19. CASE SwapReady
  BY <1>19 DEF SwapReady, InSelf, At
<1>20. CASE SetWaiting
  BY <1>20 DEF SetWaiting, InSelf, At
<1>21. CASE ServiceTimers
  BY <1>21 DEF ServiceTimers, Timeout, InSelf, At
<1>22. CASE WakeCollected
  <2>0. PICK t \in Tasks : SlotWake(Self, t)
    BY <1>22 DEF WakeCollected
  <2>1. \A g \in Threads : IsLinking(g) /\ ~queued[t] => target[g] # t
    BY <1>l
  <2> QED
    BY <1>22, <2>0, <2>1 DEF WakeCollected, SlotWake, At, Jump
<1>23. CASE WakesMade
  BY <1>23 DEF WakesMade, InSelf, At
<1>24. CASE Wait
  BY <1>24 DEF Wait, InSelf, At
<1>25. CASE WaitFails
  BY <1>25 DEF WaitFails, InSelf, At
<1>26. CASE ClearWaiting
  BY <1>26 DEF ClearWaiting, InSelf, At
<1>27. ASSUME NEW t \in Tasks, IoReady(t) PROVE LinkersExact'
  BY <1>27 DEF IoReady, At
<1>28. ASSUME NEW t \in Tasks, TimerDue(t) PROVE LinkersExact'
  BY <1>28 DEF TimerDue, At
<1> QED
  BY <1>s, <1>1, <1>2, <1>3, <1>4, <1>5, <1>6, <1>7, <1>8, <1>9, <1>10, <1>11, <1>12,
     <1>13, <1>14, <1>15, <1>16, <1>17, <1>18, <1>19, <1>20, <1>21, <1>22, <1>23, <1>24,
     <1>25, <1>26, <1>27, <1>28
     DEF LocalNext, Driver, WakeStep

\* Every step keeps the parent's waker, or the wake that took it, behind a
\* chain.
LEMMA ParentStep ==
    ASSUME LocalInv, LocalNext
    PROVE  ParentExact'
<1>s. /\ Self \in Threads /\ Remote \subseteq Threads /\ Self \notin Remote
      /\ END \notin Tasks
  BY LocalAssumption DEF Threads
<1> USE <1>s DEF wakerVars, chainVars, setVars, slotVars, walkVars, loopVars, kernelVars,
            ghostVars
<1> USE DEF LocalInv, LocalTypes, LocalTypeOK, SelfExact, LinkersExact, ParentExact
<1>1. ASSUME NEW h \in Threads, StoreNext(h) PROVE ParentExact'
  BY <1>1 DEF StoreNext, At, Jump
<1>2. ASSUME NEW h \in Threads, LinkHead(h) PROVE ParentExact'
  BY <1>2 DEF LinkHead, At, Jump, Ret
<1>3. ASSUME NEW h \in Threads, ParentWake(h) PROVE ParentExact'
  BY <1>3 DEF ParentWake, At, Jump, Ret
<1>4. ASSUME NEW h \in Threads, SetReady(h) PROVE ParentExact'
  BY <1>4 DEF SetReady, At, Jump
<1>5. ASSUME NEW h \in Threads, Look(h) PROVE ParentExact'
  BY <1>5 DEF Look, LookAtWaiting, At, Jump, Ret
<1>6. ASSUME NEW h \in Threads, Kick(h) PROVE ParentExact'
  BY <1>6 DEF Kick, At, Ret
<1>7. ASSUME NEW h \in Remote, NEW t \in Tasks, RemoteWake(h, t) PROVE ParentExact'
  BY <1>7 DEF RemoteWake, SlotWake, At, Jump
<1>8. ASSUME NEW t \in Tasks, push(t) PROVE ParentExact'
  BY <1>8 DEF push, InSelf, At, Jump
<1>9. CASE PollSet
  BY <1>9 DEF PollSet, InSelf, At
<1>10. CASE Register
  BY <1>10 DEF Register, InSelf, At
<1>11. CASE TakeChain
  BY <1>11 DEF TakeChain, InSelf, At
<1>12. CASE WalkNext
  BY <1>12 DEF WalkNext, InSelf, At
<1>13. CASE Unqueue
  BY <1>13 DEF Unqueue, InSelf, At
<1>14. CASE PollTask
  BY <1>14 DEF PollTask, InSelf, At
<1>15. ASSUME NEW t \in Tasks, WakeInside(t) PROVE ParentExact'
  BY <1>15 DEF WakeInside, SlotWake, At, Jump
<1>16. CASE Arm
  BY <1>16 DEF Arm, InSelf, At
<1>17. CASE LeaveTask
  BY <1>17 DEF LeaveTask, Advance, InSelf, At
<1>18. CASE WalkEnd
  BY <1>18 DEF WalkEnd, InSelf, At
<1>19. CASE SwapReady
  BY <1>19 DEF SwapReady, InSelf, At
<1>20. CASE SetWaiting
  BY <1>20 DEF SetWaiting, InSelf, At
<1>21. CASE ServiceTimers
  BY <1>21 DEF ServiceTimers, Timeout, InSelf, At
<1>22. CASE WakeCollected
  BY <1>22 DEF WakeCollected, SlotWake, At, Jump
<1>23. CASE WakesMade
  BY <1>23 DEF WakesMade, InSelf, At
<1>24. CASE Wait
  BY <1>24 DEF Wait, InSelf, At
<1>25. CASE WaitFails
  BY <1>25 DEF WaitFails, InSelf, At
<1>26. CASE ClearWaiting
  BY <1>26 DEF ClearWaiting, InSelf, At
<1>27. ASSUME NEW t \in Tasks, IoReady(t) PROVE ParentExact'
  BY <1>27 DEF IoReady, At
<1>28. ASSUME NEW t \in Tasks, TimerDue(t) PROVE ParentExact'
  BY <1>28 DEF TimerDue, At
<1> QED
  BY <1>s, <1>1, <1>2, <1>3, <1>4, <1>5, <1>6, <1>7, <1>8, <1>9, <1>10, <1>11, <1>12,
     <1>13, <1>14, <1>15, <1>16, <1>17, <1>18, <1>19, <1>20, <1>21, <1>22, <1>23, <1>24,
     <1>25, <1>26, <1>27, <1>28
     DEF LocalNext, Driver, WakeStep

\* Every step keeps a set ready flag from being slept through: it is kicked,
\* or the wait does not block, or the loop looks at it first.
LEMMA ReadyStep ==
    ASSUME LocalInv, LocalNext
    PROVE  ReadyExact'
<1>s. /\ Self \in Threads /\ Remote \subseteq Threads /\ Self \notin Remote
      /\ END \notin Tasks
  BY LocalAssumption DEF Threads
<1> USE <1>s DEF wakerVars, chainVars, setVars, slotVars, walkVars, loopVars, kernelVars,
            ghostVars
<1> USE DEF LocalInv, LocalTypes, LocalTypeOK, SelfExact, ReadyExact
<1>1. ASSUME NEW h \in Threads, StoreNext(h) PROVE ReadyExact'
  BY <1>1 DEF StoreNext, At, Jump
<1>2. ASSUME NEW h \in Threads, LinkHead(h) PROVE ReadyExact'
  BY <1>2 DEF LinkHead, At, Jump, Ret
<1>3. ASSUME NEW h \in Threads, ParentWake(h) PROVE ReadyExact'
  BY <1>3 DEF ParentWake, At, Jump, Ret
<1>4. ASSUME NEW h \in Threads, SetReady(h) PROVE ReadyExact'
  <2>1. wpc'[h] = "look" /\ \A g \in Threads : g # h => wpc'[g] = wpc[g]
    BY <1>4 DEF SetReady, At, Jump
  <2>2. UNCHANGED <<mpc, block, kicked, retry>> /\ wpc[h] = "ready"
    BY <1>4 DEF SetReady, At, Jump
  <2>3. CASE h \in Remote
    BY <2>1, <2>2, <2>3
  <2>4. CASE h = Self
    <3>1. mpc \in {"in", "fire", "dispatch"} /\ (mpc = "fire" => ~block)
      BY <2>2, <2>4 DEF At
    <3> QED
      BY <2>1, <2>2, <2>4, <3>1
  <2> QED
    BY <2>3, <2>4 DEF Threads
<1>5. ASSUME NEW h \in Threads, Look(h) PROVE ReadyExact'
  BY <1>5 DEF Look, LookAtWaiting, At, Jump, Ret
<1>6. ASSUME NEW h \in Threads, Kick(h) PROVE ReadyExact'
  BY <1>6 DEF Kick, At, Ret
<1>7. ASSUME NEW h \in Remote, NEW t \in Tasks, RemoteWake(h, t) PROVE ReadyExact'
  BY <1>7 DEF RemoteWake, SlotWake, At, Jump
<1>8. ASSUME NEW t \in Tasks, push(t) PROVE ReadyExact'
  BY <1>8 DEF push, InSelf, At, Jump
<1>9. CASE PollSet
  BY <1>9 DEF PollSet, InSelf, At
<1>10. CASE Register
  BY <1>10 DEF Register, InSelf, At
<1>11. CASE TakeChain
  BY <1>11 DEF TakeChain, InSelf, At
<1>12. CASE WalkNext
  BY <1>12 DEF WalkNext, InSelf, At
<1>13. CASE Unqueue
  BY <1>13 DEF Unqueue, InSelf, At
<1>14. CASE PollTask
  BY <1>14 DEF PollTask, InSelf, At
<1>15. ASSUME NEW t \in Tasks, WakeInside(t) PROVE ReadyExact'
  BY <1>15 DEF WakeInside, SlotWake, At, Jump
<1>16. CASE Arm
  BY <1>16 DEF Arm, InSelf, At
<1>17. CASE LeaveTask
  BY <1>17 DEF LeaveTask, Advance, InSelf, At
<1>18. CASE WalkEnd
  BY <1>18 DEF WalkEnd, InSelf, At
<1>19. CASE SwapReady
  BY <1>19 DEF SwapReady, InSelf, At
<1>20. CASE SetWaiting
  BY <1>20 DEF SetWaiting, InSelf, At
<1>21. CASE ServiceTimers
  BY <1>21 DEF ServiceTimers, Timeout, InSelf, At
<1>22. CASE WakeCollected
  BY <1>22 DEF WakeCollected, SlotWake, At, Jump
<1>23. CASE WakesMade
  BY <1>23 DEF WakesMade, InSelf, At
<1>24. CASE Wait
  BY <1>24 DEF Wait, InSelf, At
<1>25. CASE WaitFails
  BY <1>25 DEF WaitFails, InSelf, At
<1>26. CASE ClearWaiting
  BY <1>26 DEF ClearWaiting, InSelf, At
<1>27. ASSUME NEW t \in Tasks, IoReady(t) PROVE ReadyExact'
  BY <1>27 DEF IoReady, At
<1>28. ASSUME NEW t \in Tasks, TimerDue(t) PROVE ReadyExact'
  BY <1>28 DEF TimerDue, At
<1> QED
  BY <1>s, <1>1, <1>2, <1>3, <1>4, <1>5, <1>6, <1>7, <1>8, <1>9, <1>10, <1>11, <1>12,
     <1>13, <1>14, <1>15, <1>16, <1>17, <1>18, <1>19, <1>20, <1>21, <1>22, <1>23, <1>24,
     <1>25, <1>26, <1>27, <1>28
     DEF LocalNext, Driver, WakeStep

-----------------------------------------------------------------------------
(* The chains.                                                             *)

\* The two parts of the invariant about the chains.
Chains == ChainShare /\ OneWay

\* What is left of the walked chain, as a chain and the task ahead of it.
LEMMA WalkedParts ==
    ASSUME LocalInv
    PROVE  /\ link \in [Tasks -> Tasks \cup {END}] /\ head \in Tasks \cup {END}
           /\ cursor \in Tasks \cup {END} /\ following \in Tasks \cup {END}
           /\ END \notin Tasks
           /\ Walked \in SUBSET Tasks /\ ChainFrom(head) \in SUBSET Tasks
           /\ Linking \in SUBSET Tasks
<1>1. /\ link \in [Tasks -> Tasks \cup {END}] /\ head \in Tasks \cup {END}
      /\ cursor \in Tasks \cup {END} /\ following \in Tasks \cup {END} /\ END \notin Tasks
  BY LocalAssumption DEF LocalInv, LocalTypes, LocalTypeOK
<1>2. Walked \cup ChainFrom(head) \cup Linking \in SUBSET Tasks
  BY DEF LocalInv, ChainShare
<1> QED
  BY <1>1, <1>2

\* A step beside the chains.
LEMMA ChainStays ==
    ASSUME LocalInv, link' = link, queued' = queued, head' = head,
           Walked' = Walked, Linking' = Linking, mpc' = "clear" => following' = link[cursor']
    PROVE  Chains'
<1>1. ChainShare /\ OneWay /\ ChainFrom(head)' = ChainFrom(head)
  BY DEF LocalInv, ChainFrom
<1>2. ChainShare'
  BY <1>1 DEF ChainShare
<1>3. OneWay'
  BY <1>1 DEF OneWay, ChainFrom
<1> QED
  BY <1>2, <1>3 DEF Chains

\* Nobody begins or ends linking.
LEMMA LinkingStays ==
    ASSUME \A h \in Threads : /\ (wpc'[h] \in {"store", "cas", "pushing"}) <=> IsLinking(h)
                              /\ IsLinking(h) => target'[h] = target[h]
    PROVE  Linking' = Linking
BY DEF Linking, IsLinking

\* queued.swap(true) by thread h: it links the task if it was not queued yet.
LEMMA SlotWakeChains ==
    ASSUME LocalInv, NEW h \in Threads, NEW t \in Tasks, At(h, "idle"),
           queued' = [queued EXCEPT ![t] = TRUE],
           \/ queued[t] /\ UNCHANGED <<wpc, target>>
           \/ /\ ~queued[t] /\ wpc' = [wpc EXCEPT ![h] = "store"]
              /\ target' = [target EXCEPT ![h] = t],
           UNCHANGED <<head, link, mpc, cursor, following>>
    PROVE  Chains'
<1>t. /\ queued \in [Tasks -> BOOLEAN] /\ wpc \in [Threads -> {"idle", "store", "cas",
                 "parent", "ready", "look", "kick", "pushing"}]
      /\ target \in [Threads -> Tasks \cup {END}]
  BY DEF LocalInv, LocalTypes, LocalTypeOK
<1>1. /\ ChainShare /\ OneWay /\ ChainFrom(head)' = ChainFrom(head) /\ Walked' = Walked
      /\ \A u \in Tasks : ChainFrom(link[u])' = ChainFrom(link[u])
  BY DEF LocalInv, ChainFrom, Walked
<1>2. CASE queued[t]
  <2>1. queued' = queued
    BY <1>t, <1>2
  <2>2. Linking' = Linking
    BY <1>2 DEF Linking
  <2>3. mpc' = "clear" => following' = link[cursor']
    BY <1>1 DEF OneWay
  <2> QED
    BY <1>1, <2>1, <2>2, <2>3, ChainStays
<1>3. CASE ~queued[t]
  <2>1. Linking' = Linking \cup {t}
    BY <1>t, <1>3 DEF Linking, At
  <2>2. {u \in Tasks : queued'[u]} = {u \in Tasks : queued[u]} \cup {t}
    BY <1>t
  <2>3. t \notin Walked \cup ChainFrom(head)
    BY <1>1, <1>3 DEF ChainShare
  <2>4. ChainShare'
    BY <1>1, <2>1, <2>2, <2>3 DEF ChainShare
  <2>5. OneWay'
    BY <1>1 DEF OneWay, ChainFrom
  <2> QED
    BY <2>4, <2>5 DEF Chains
<1> QED
  BY <1>2, <1>3

\* A task that is being linked has its link stored, which no chain goes over.
LEMMA StoreChains ==
    ASSUME LocalInv, NEW x \in Linking, link' = [link EXCEPT ![x] = head],
           Linking' = Linking, UNCHANGED <<head, queued, mpc, cursor, following>>
    PROVE  Chains'
<1>1. /\ ChainShare /\ OneWay /\ link \in [Tasks -> Tasks \cup {END}]
      /\ link' \in [Tasks -> Tasks \cup {END}] /\ x \in Tasks
  BY WalkedParts DEF LocalInv
<1>2. \A u \in Walked \cup ChainFrom(head) : u \in Tasks /\ u # x /\ link'[u] = link[u]
  BY <1>1, WalkedParts DEF ChainShare
<1>3. ASSUME NEW i \in Tasks \cup {END}, Reach(link, i) \subseteq Walked \cup ChainFrom(head)
      PROVE  Reach(link', i) = Reach(link, i)
  BY <1>1, <1>2, <1>3, ReachKept
<1>4. ChainFrom(head)' = ChainFrom(head)
  BY <1>3, WalkedParts DEF ChainFrom
<1>5. Walked' = Walked
  <2>1. CASE mpc = "walk"
    BY <1>3, <2>1, WalkedParts DEF ChainFrom, Walked
  <2>2. CASE mpc \in {"clear", "run", "in"}
    BY <1>3, <2>2, WalkedParts DEF ChainFrom, Walked
  <2>3. CASE mpc \notin {"walk", "clear", "run", "in"}
    BY <2>3 DEF Walked
  <2> QED
    BY <2>1, <2>2, <2>3
<1>6. ChainShare'
  BY <1>1, <1>4, <1>5 DEF ChainShare
<1>7. ASSUME NEW u \in Walked \cup ChainFrom(head)
      PROVE  Reach(link', link'[u]) = Reach(link, link[u])
  <2>1. u \in Tasks /\ link'[u] = link[u] /\ link[u] \in Tasks \cup {END}
    BY <1>1, <1>2
  <2>2. Reach(link, link[u]) \subseteq Walked \cup ChainFrom(head)
    <3>1. CASE u \in ChainFrom(head)
      BY <1>1, <3>1, ReachInside, WalkedParts DEF ChainFrom
    <3>2. CASE u \in Walked /\ mpc = "walk"
      BY <1>1, <3>2, ReachInside, WalkedParts DEF ChainFrom, Walked
    <3>3. CASE u \in Walked /\ mpc \in {"clear", "run", "in"}
      <4>1. CASE u \in ChainFrom(following)
        BY <1>1, <3>3, <4>1, ReachInside, WalkedParts DEF ChainFrom, Walked
      <4>2. CASE mpc = "clear" /\ u = cursor
        BY <1>1, <4>2 DEF OneWay, Walked, ChainFrom
      <4> QED
        BY <3>3, <4>1, <4>2 DEF Walked
    <3> QED
      BY <3>1, <3>2, <3>3 DEF Walked
  <2> QED
    BY <1>3, <2>1, <2>2
<1>8. OneWay'
  <2>1. \A u \in Walked' \cup ChainFrom(head)' : u \notin Reach(link', link'[u])
    BY <1>1, <1>4, <1>5, <1>7 DEF OneWay, ChainFrom
  <2>2. mpc = "clear" => cursor \in Walked /\ following = link[cursor]
    BY <1>1 DEF OneWay, Walked
  <2>3. mpc' = "clear" => following' = link'[cursor']
    BY <1>2, <2>2
  <2> QED
    BY <2>1, <2>3 DEF OneWay, ChainFrom
<1> QED
  BY <1>6, <1>8 DEF Chains

\* The compare-exchange puts the task before the chain it is linked to.
LEMMA LinkChains ==
    ASSUME LocalInv, NEW x \in Linking, link[x] = head, head' = x,
           Linking' = Linking \ {x}, UNCHANGED <<link, queued, mpc, cursor, following>>
    PROVE  Chains'
<1>1. ChainShare /\ OneWay /\ link \in [Tasks -> Tasks \cup {END}] /\ x \in Tasks
  BY WalkedParts DEF LocalInv
<1>2. Reach(link, x) = {x} \cup Reach(link, head)
  BY <1>1, ReachFirst
<1>3. ChainFrom(head)' = {x} \cup ChainFrom(head) /\ Walked' = Walked
  BY <1>2 DEF ChainFrom, Walked
<1>4. ChainShare'
  BY <1>1, <1>3 DEF ChainShare
<1>5. OneWay'
  <2>1. x \notin ChainFrom(link[x])
    BY <1>1 DEF ChainShare
  <2>2. \A u \in Walked' \cup ChainFrom(head)' : u \notin Reach(link, link[u])
    BY <1>1, <1>3, <2>1 DEF OneWay, ChainFrom
  <2> QED
    BY <1>1, <2>2 DEF OneWay, ChainFrom
<1> QED
  BY <1>4, <1>5 DEF Chains

\* Every step keeps the chains: beside them most of the time, and by one of
\* the lemmas above when a task is queued, linked, taken or left.
LEMMA ChainsStep ==
    ASSUME LocalInv, LocalNext
    PROVE  Chains'
<1>s. /\ Self \in Threads /\ Remote \subseteq Threads /\ Self \notin Remote
      /\ END \notin Tasks
  BY LocalAssumption DEF Threads
<1>0. LocalTypes /\ LocalTypeOK /\ SelfExact /\ ChainShare /\ OneWay
  BY DEF LocalInv, LocalTypes
<1> USE <1>s, <1>0 DEF wakerVars, chainVars, setVars, slotVars, walkVars, loopVars,
            kernelVars, ghostVars
<1> USE DEF LocalTypes, LocalTypeOK
<1>1. ASSUME NEW h \in Threads, StoreNext(h) PROVE Chains'
  <2>1. target[h] \in Linking
    BY <1>1 DEF StoreNext, At, Linking
  <2>2. \A g \in Threads : /\ (wpc'[g] \in {"store", "cas", "pushing"}) <=> IsLinking(g)
                           /\ IsLinking(g) => target'[g] = target[g]
    BY <1>1 DEF StoreNext, At, Jump, IsLinking
  <2>3. Linking' = Linking
    BY <2>2, LinkingStays
  <2>4. /\ link' = [link EXCEPT ![target[h]] = head]
        /\ UNCHANGED <<head, queued, mpc, cursor, following>>
    BY <1>1 DEF StoreNext, At, Jump
  <2> QED
    BY <2>1, <2>3, <2>4, StoreChains
<1>2. ASSUME NEW h \in Threads, LinkHead(h) PROVE Chains'
  <2>1. target[h] \in Linking /\ IsLinking(h)
    BY <1>2 DEF LinkHead, Linking, IsLinking
  <2>2. CASE head # seen[h]
    <3>1. /\ link' = [link EXCEPT ![target[h]] = head]
          /\ UNCHANGED <<head, queued, mpc, cursor, following>>
      BY <1>2, <2>2 DEF LinkHead, At, Jump, Ret
    <3>2. Linking' = Linking
      BY <1>2, <2>2 DEF LinkHead, At, Jump, Ret, Linking
    <3> QED
      BY <2>1, <3>1, <3>2, StoreChains
  <2>3. CASE head = seen[h]
    <3>1. head' = target[h] /\ UNCHANGED <<link, queued, mpc, cursor, following>>
      BY <1>2, <2>3 DEF LinkHead, At, Jump, Ret
    <3>2. link[target[h]] = head
      BY <1>2, <2>3 DEF LinkHead, LocalInv, LinkersExact
    <3>3. /\ wpc'[h] \notin {"store", "cas", "pushing"}
          /\ \A g \in Threads : g # h => wpc'[g] = wpc[g] /\ target'[g] = target[g]
      BY <1>2, <2>3 DEF LinkHead, At, Jump, Ret
    <3>4. \A g \in Threads : g # h /\ IsLinking(g) => target[g] # target[h]
      BY <2>1 DEF LocalInv, LinkersExact
    <3>5. Linking' = Linking \ {target[h]}
      BY <2>1, <3>3, <3>4 DEF Linking, IsLinking
    <3> QED
      BY <2>1, <3>1, <3>2, <3>5, LinkChains
  <2> QED
    BY <2>2, <2>3
<1>3. ASSUME NEW h \in Threads, ParentWake(h) PROVE Chains'
  <2>1. ChainShare /\ OneWay
    BY DEF LocalInv
  <2>2. /\ link' = link /\ queued' = queued /\ head' = head
        /\ UNCHANGED <<mpc, cursor, following>>
    BY <1>3 DEF ParentWake, At, Jump, Ret
  <2>3. \A g \in Threads : /\ (wpc'[g] \in {"store", "cas", "pushing"}) <=> IsLinking(g)
                           /\ IsLinking(g) => target'[g] = target[g]
    BY <1>3 DEF ParentWake, At, Jump, Ret, IsLinking
  <2>4. Walked' = Walked /\ Linking' = Linking
    BY <2>2, <2>3, LinkingStays DEF Walked, ChainFrom
  <2>5. mpc' = "clear" => following' = link[cursor']
    BY <2>1, <2>2 DEF OneWay
  <2> QED
    BY <2>2, <2>4, <2>5, ChainStays
<1>4. ASSUME NEW h \in Threads, SetReady(h) PROVE Chains'
  <2>1. ChainShare /\ OneWay
    BY DEF LocalInv
  <2>2. /\ link' = link /\ queued' = queued /\ head' = head
        /\ UNCHANGED <<mpc, cursor, following>>
    BY <1>4 DEF SetReady, At, Jump
  <2>3. \A g \in Threads : /\ (wpc'[g] \in {"store", "cas", "pushing"}) <=> IsLinking(g)
                           /\ IsLinking(g) => target'[g] = target[g]
    BY <1>4 DEF SetReady, At, Jump, IsLinking
  <2>4. Walked' = Walked /\ Linking' = Linking
    BY <2>2, <2>3, LinkingStays DEF Walked, ChainFrom
  <2>5. mpc' = "clear" => following' = link[cursor']
    BY <2>1, <2>2 DEF OneWay
  <2> QED
    BY <2>2, <2>4, <2>5, ChainStays
<1>5. ASSUME NEW h \in Threads, Look(h) PROVE Chains'
  <2>1. ChainShare /\ OneWay
    BY DEF LocalInv
  <2>2. /\ link' = link /\ queued' = queued /\ head' = head
        /\ UNCHANGED <<mpc, cursor, following>>
    BY <1>5 DEF Look, LookAtWaiting, At, Jump, Ret
  <2>3. \A g \in Threads : /\ (wpc'[g] \in {"store", "cas", "pushing"}) <=> IsLinking(g)
                           /\ IsLinking(g) => target'[g] = target[g]
    BY <1>5 DEF Look, LookAtWaiting, At, Jump, Ret, IsLinking
  <2>4. Walked' = Walked /\ Linking' = Linking
    BY <2>2, <2>3, LinkingStays DEF Walked, ChainFrom
  <2>5. mpc' = "clear" => following' = link[cursor']
    BY <2>1, <2>2 DEF OneWay
  <2> QED
    BY <2>2, <2>4, <2>5, ChainStays
<1>6. ASSUME NEW h \in Threads, Kick(h) PROVE Chains'
  <2>1. ChainShare /\ OneWay
    BY DEF LocalInv
  <2>2. /\ link' = link /\ queued' = queued /\ head' = head
        /\ UNCHANGED <<mpc, cursor, following>>
    BY <1>6 DEF Kick, At, Ret
  <2>3. \A g \in Threads : /\ (wpc'[g] \in {"store", "cas", "pushing"}) <=> IsLinking(g)
                           /\ IsLinking(g) => target'[g] = target[g]
    BY <1>6 DEF Kick, At, Ret, IsLinking
  <2>4. Walked' = Walked /\ Linking' = Linking
    BY <2>2, <2>3, LinkingStays DEF Walked, ChainFrom
  <2>5. mpc' = "clear" => following' = link[cursor']
    BY <2>1, <2>2 DEF OneWay
  <2> QED
    BY <2>2, <2>4, <2>5, ChainStays
<1>7. ASSUME NEW h \in Remote, NEW t \in Tasks, RemoteWake(h, t) PROVE Chains'
  BY <1>7, SlotWakeChains DEF RemoteWake, SlotWake, At, Jump
<1>8. ASSUME NEW t \in Tasks, push(t) PROVE Chains'
  <2>1. ~queued[t]
    BY <1>8 DEF push, LocalInv, EntriesExact
  <2> QED
    BY <1>8, <2>1, SlotWakeChains DEF push, InSelf, At, Jump
<1>9. CASE PollSet
  <2>1. ChainShare /\ OneWay
    BY DEF LocalInv
  <2>2. /\ link' = link /\ queued' = queued /\ head' = head
        /\ Linking' = Linking
    BY <1>9 DEF PollSet, InSelf, At, Linking
  <2>3. Walked' = Walked
    BY <1>9, <2>2 DEF PollSet, InSelf, At, Walked, ChainFrom
  <2>4. mpc' = "clear" => following' = link[cursor']
    BY <1>9, <2>1 DEF PollSet, InSelf, At, OneWay
  <2> QED
    BY <2>2, <2>3, <2>4, ChainStays
<1>10. CASE Register
  <2>1. ChainShare /\ OneWay
    BY DEF LocalInv
  <2>2. /\ link' = link /\ queued' = queued /\ head' = head
        /\ Linking' = Linking
    BY <1>10 DEF Register, InSelf, At, Linking
  <2>3. Walked' = Walked
    BY <1>10, <2>2 DEF Register, InSelf, At, Walked, ChainFrom
  <2>4. mpc' = "clear" => following' = link[cursor']
    BY <1>10, <2>1 DEF Register, InSelf, At, OneWay
  <2> QED
    BY <2>2, <2>3, <2>4, ChainStays
<1>11. CASE TakeChain
  <2>1. /\ ChainShare /\ OneWay /\ Walked = {} /\ Linking' = Linking
        /\ link' = link /\ queued' = queued
    BY <1>11 DEF TakeChain, InSelf, At, Walked, Linking, LocalInv
  <2>2. ChainFrom(head)' = {} /\ Walked' = ChainFrom(head)
    BY <1>11, <2>1, ReachIsClosed, WalkedParts DEF TakeChain, InSelf, At, ChainFrom, Walked
  <2>3. ChainShare'
    BY <2>1, <2>2 DEF ChainShare
  <2>4. OneWay'
    BY <1>11, <2>1, <2>2 DEF TakeChain, OneWay, ChainFrom
  <2> QED
    BY <2>3, <2>4 DEF Chains
<1>12. CASE WalkNext
  <2>1. cursor \in Tasks /\ link' = link /\ queued' = queued /\ head' = head /\ Linking' = Linking
    BY <1>12, WalkedParts DEF WalkNext, InSelf, At, Linking
  <2>2. Reach(link, cursor) = {cursor} \cup Reach(link, link[cursor])
    BY <2>1, ReachFirst, WalkedParts
  <2>3. Walked' = Walked
    BY <1>12, <2>1, <2>2 DEF WalkNext, InSelf, At, Walked, ChainFrom
  <2>4. mpc' = "clear" => following' = link[cursor']
    BY <1>12 DEF WalkNext, InSelf, At
  <2> QED
    BY <2>1, <2>3, <2>4, ChainStays
<1>13. CASE Unqueue
  <2>1. /\ ChainShare /\ OneWay /\ cursor \in Walked /\ link' = link /\ head' = head
        /\ Linking' = Linking /\ queued \in [Tasks -> BOOLEAN]
    BY <1>13 DEF Unqueue, InSelf, At, Walked, Linking
  <2>2. cursor \notin ChainFrom(following)
    BY <1>13, <2>1 DEF Unqueue, InSelf, OneWay
  <2>3. ChainFrom(head)' = ChainFrom(head) /\ Walked' = Walked \ {cursor}
    BY <1>13, <2>1, <2>2 DEF Unqueue, InSelf, At, Walked, ChainFrom
  <2>4. {t \in Tasks : queued'[t]} = {t \in Tasks : queued[t]} \ {cursor}
    BY <1>13, <2>1 DEF Unqueue
  <2>5. ChainShare'
    BY <2>1, <2>3, <2>4 DEF ChainShare
  <2>6. OneWay'
    BY <1>13, <2>1, <2>3 DEF Unqueue, OneWay, ChainFrom
  <2> QED
    BY <2>5, <2>6 DEF Chains
<1>14. CASE PollTask
  <2>1. ChainShare /\ OneWay
    BY DEF LocalInv
  <2>2. /\ link' = link /\ queued' = queued /\ head' = head
        /\ Linking' = Linking
    BY <1>14 DEF PollTask, InSelf, At, Linking
  <2>3. Walked' = Walked
    BY <1>14, <2>2 DEF PollTask, InSelf, At, Walked, ChainFrom
  <2>4. mpc' = "clear" => following' = link[cursor']
    BY <1>14, <2>1 DEF PollTask, InSelf, At, OneWay
  <2> QED
    BY <2>2, <2>3, <2>4, ChainStays
<1>15. ASSUME NEW t \in Tasks, WakeInside(t) PROVE Chains'
  BY <1>15, SlotWakeChains DEF WakeInside, SlotWake, At, Jump
<1>16. CASE Arm
  <2>1. ChainShare /\ OneWay
    BY DEF LocalInv
  <2>2. /\ link' = link /\ queued' = queued /\ head' = head
        /\ Linking' = Linking
    BY <1>16 DEF Arm, InSelf, At, Linking
  <2>3. Walked' = Walked
    BY <1>16, <2>2 DEF Arm, InSelf, At, Walked, ChainFrom
  <2>4. mpc' = "clear" => following' = link[cursor']
    BY <1>16, <2>1 DEF Arm, InSelf, At, OneWay
  <2> QED
    BY <2>2, <2>3, <2>4, ChainStays
<1>17. CASE LeaveTask
  <2>1. ChainShare /\ OneWay
    BY DEF LocalInv
  <2>2. /\ link' = link /\ queued' = queued /\ head' = head
        /\ Linking' = Linking
    BY <1>17 DEF LeaveTask, Advance, InSelf, At, Linking
  <2>3. Walked' = Walked
    BY <1>17, <2>2 DEF LeaveTask, Advance, InSelf, At, Walked, ChainFrom
  <2>4. mpc' = "clear" => following' = link[cursor']
    BY <1>17, <2>1 DEF LeaveTask, Advance, InSelf, At, OneWay
  <2> QED
    BY <2>2, <2>3, <2>4, ChainStays
<1>18. CASE WalkEnd
  <2>1. ChainShare /\ OneWay
    BY DEF LocalInv
  <2>2. /\ link' = link /\ queued' = queued /\ head' = head
        /\ Linking' = Linking
    BY <1>18 DEF WalkEnd, InSelf, At, Linking
  <2>3. Walked' = Walked
    BY <1>18, <2>2, ReachIsClosed, WalkedParts DEF WalkEnd, InSelf, At, Walked, ChainFrom
  <2>4. mpc' = "clear" => following' = link[cursor']
    BY <1>18, <2>1 DEF WalkEnd, InSelf, At, OneWay
  <2> QED
    BY <2>2, <2>3, <2>4, ChainStays
<1>19. CASE SwapReady
  <2>1. ChainShare /\ OneWay
    BY DEF LocalInv
  <2>2. /\ link' = link /\ queued' = queued /\ head' = head
        /\ Linking' = Linking
    BY <1>19 DEF SwapReady, InSelf, At, Linking
  <2>3. Walked' = Walked
    BY <1>19, <2>2 DEF SwapReady, InSelf, At, Walked, ChainFrom
  <2>4. mpc' = "clear" => following' = link[cursor']
    BY <1>19, <2>1 DEF SwapReady, InSelf, At, OneWay
  <2> QED
    BY <2>2, <2>3, <2>4, ChainStays
<1>20. CASE SetWaiting
  <2>1. ChainShare /\ OneWay
    BY DEF LocalInv
  <2>2. /\ link' = link /\ queued' = queued /\ head' = head
        /\ Linking' = Linking
    BY <1>20 DEF SetWaiting, InSelf, At, Linking
  <2>3. Walked' = Walked
    BY <1>20, <2>2 DEF SetWaiting, InSelf, At, Walked, ChainFrom
  <2>4. mpc' = "clear" => following' = link[cursor']
    BY <1>20, <2>1 DEF SetWaiting, InSelf, At, OneWay
  <2> QED
    BY <2>2, <2>3, <2>4, ChainStays
<1>21. CASE ServiceTimers
  <2>1. ChainShare /\ OneWay
    BY DEF LocalInv
  <2>2. /\ link' = link /\ queued' = queued /\ head' = head
        /\ Linking' = Linking
    BY <1>21 DEF ServiceTimers, Timeout, InSelf, At, Linking
  <2>3. Walked' = Walked
    BY <1>21, <2>2 DEF ServiceTimers, Timeout, InSelf, At, Walked, ChainFrom
  <2>4. mpc' = "clear" => following' = link[cursor']
    BY <1>21, <2>1 DEF ServiceTimers, Timeout, InSelf, At, OneWay
  <2> QED
    BY <2>2, <2>3, <2>4, ChainStays
<1>22. CASE WakeCollected
  <2>1. PICK t \in Tasks : SlotWake(Self, t)
    BY <1>22 DEF WakeCollected
  <2> QED
    BY <1>22, <2>1, SlotWakeChains DEF WakeCollected, SlotWake, At, Jump
<1>23. CASE WakesMade
  <2>1. ChainShare /\ OneWay
    BY DEF LocalInv
  <2>2. /\ link' = link /\ queued' = queued /\ head' = head
        /\ Linking' = Linking
    BY <1>23 DEF WakesMade, InSelf, At, Linking
  <2>3. Walked' = Walked
    BY <1>23, <2>2 DEF WakesMade, InSelf, At, Walked, ChainFrom
  <2>4. mpc' = "clear" => following' = link[cursor']
    BY <1>23, <2>1 DEF WakesMade, InSelf, At, OneWay
  <2> QED
    BY <2>2, <2>3, <2>4, ChainStays
<1>24. CASE Wait
  <2>1. ChainShare /\ OneWay
    BY DEF LocalInv
  <2>2. /\ link' = link /\ queued' = queued /\ head' = head
        /\ Linking' = Linking
    BY <1>24 DEF Wait, InSelf, At, Linking
  <2>3. Walked' = Walked
    BY <1>24, <2>2 DEF Wait, InSelf, At, Walked, ChainFrom
  <2>4. mpc' = "clear" => following' = link[cursor']
    BY <1>24, <2>1 DEF Wait, InSelf, At, OneWay
  <2> QED
    BY <2>2, <2>3, <2>4, ChainStays
<1>25. CASE WaitFails
  <2>1. ChainShare /\ OneWay
    BY DEF LocalInv
  <2>2. /\ link' = link /\ queued' = queued /\ head' = head
        /\ Linking' = Linking
    BY <1>25 DEF WaitFails, InSelf, At, Linking
  <2>3. Walked' = Walked
    BY <1>25, <2>2 DEF WaitFails, InSelf, At, Walked, ChainFrom
  <2>4. mpc' = "clear" => following' = link[cursor']
    BY <1>25, <2>1 DEF WaitFails, InSelf, At, OneWay
  <2> QED
    BY <2>2, <2>3, <2>4, ChainStays
<1>26. CASE ClearWaiting
  <2>1. ChainShare /\ OneWay
    BY DEF LocalInv
  <2>2. /\ link' = link /\ queued' = queued /\ head' = head
        /\ Linking' = Linking
    BY <1>26 DEF ClearWaiting, InSelf, At, Linking
  <2>3. Walked' = Walked
    BY <1>26, <2>2 DEF ClearWaiting, InSelf, At, Walked, ChainFrom
  <2>4. mpc' = "clear" => following' = link[cursor']
    BY <1>26, <2>1 DEF ClearWaiting, InSelf, At, OneWay
  <2> QED
    BY <2>2, <2>3, <2>4, ChainStays
<1>27. ASSUME NEW t \in Tasks, IoReady(t) PROVE Chains'
  <2>1. ChainShare /\ OneWay
    BY DEF LocalInv
  <2>2. /\ link' = link /\ queued' = queued /\ head' = head
        /\ Linking' = Linking
    BY <1>27 DEF IoReady, At, Linking
  <2>3. Walked' = Walked
    BY <1>27, <2>2 DEF IoReady, At, Walked, ChainFrom
  <2>4. mpc' = "clear" => following' = link[cursor']
    BY <1>27, <2>1 DEF IoReady, At, OneWay
  <2> QED
    BY <2>2, <2>3, <2>4, ChainStays
<1>28. ASSUME NEW t \in Tasks, TimerDue(t) PROVE Chains'
  <2>1. ChainShare /\ OneWay
    BY DEF LocalInv
  <2>2. /\ link' = link /\ queued' = queued /\ head' = head
        /\ Linking' = Linking
    BY <1>28 DEF TimerDue, At, Linking
  <2>3. Walked' = Walked
    BY <1>28, <2>2 DEF TimerDue, At, Walked, ChainFrom
  <2>4. mpc' = "clear" => following' = link[cursor']
    BY <1>28, <2>1 DEF TimerDue, At, OneWay
  <2> QED
    BY <2>2, <2>3, <2>4, ChainStays
<1> QED
  BY <1>s, <1>1, <1>2, <1>3, <1>4, <1>5, <1>6, <1>7, <1>8, <1>9, <1>10, <1>11, <1>12,
     <1>13, <1>14, <1>15, <1>16, <1>17, <1>18, <1>19, <1>20, <1>21, <1>22, <1>23, <1>24,
     <1>25, <1>26, <1>27, <1>28
     DEF LocalNext, Driver, WakeStep

\* The invariant holds in every state of the executor.
LEMMA LocalInvariant == LocalSpec => []LocalInv
<1>1. LocalInit => LocalInv
  <2> SUFFICES ASSUME LocalInit PROVE LocalInv
    OBVIOUS
  <2>s. END \notin Tasks /\ END \in Tasks \cup {END}
    BY LocalAssumption
  <2>1. LocalTypes /\ EntriesExact /\ SelfExact /\ LinkersExact
    BY DEF LocalInit, LocalTypes, LocalTypeOK, EntriesExact, SelfExact, LinkersExact, IsLinking,
           At, Threads
  <2>2. Reach(link, END) = {}
    BY <2>1, <2>s, ReachIsClosed DEF LocalTypes, LocalTypeOK
  <2>3. Walked = {} /\ ChainFrom(head) = {} /\ Linking = {}
    BY <2>2 DEF LocalInit, Walked, ChainFrom, Linking
  <2>4. ChainShare
    BY <2>3 DEF LocalInit, ChainShare
  <2>5. OneWay
    BY <2>3 DEF LocalInit, OneWay
  <2>6. ParentExact /\ ReadyExact
    BY DEF LocalInit, ParentExact, ReadyExact
  <2> QED
    BY <2>1, <2>4, <2>5, <2>6 DEF LocalInv
<1>2. LocalInv /\ [LocalNext]_localVars => LocalInv'
  <2> SUFFICES ASSUME LocalInv, [LocalNext]_localVars PROVE LocalInv'
    OBVIOUS
  <2>1. CASE LocalNext
    BY <2>1, LocalTypesStep, EntriesStep, SelfStep, LinkersStep, ParentStep, ReadyStep, ChainsStep
       DEF LocalInv, Chains
  <2>2. CASE UNCHANGED localVars
    <3> USE <2>2 DEF localVars, wakerVars, chainVars, setVars, slotVars, walkVars, loopVars,
                     kernelVars, ghostVars
    <3>1. LocalTypes' /\ EntriesExact' /\ SelfExact'
      BY DEF LocalInv, LocalTypes, LocalTypeOK, EntriesExact, SelfExact, At
    <3>2. LinkersExact' /\ ParentExact' /\ ReadyExact'
      BY DEF LocalInv, LinkersExact, IsLinking, ParentExact, ReadyExact, At
    <3>3. Walked' = Walked /\ Linking' = Linking
      BY DEF Walked, ChainFrom, Linking
    <3>4. mpc' = "clear" => following' = link[cursor']
      BY DEF LocalInv, OneWay
    <3>5. Chains'
      BY <3>3, <3>4, ChainStays
    <3> QED
      BY <3>1, <3>2, <3>5 DEF LocalInv, Chains
  <2> QED
    BY <2>1, <2>2
<1> QED
  BY <1>1, <1>2, PTL DEF LocalSpec

\* A task is queued exactly while one chain holds it or a thread is linking
\* it, for any number of tasks and threads: it is neither polled twice for a
\* wake nor lost by the reuse of its link (Slot::wake_by_ref against
\* TaskSet::poll).
THEOREM TheChainIsExact == LocalSpec => []ChainExact
<1>1. LocalInv => ChainExact
  BY DEF LocalInv, LocalTypes, ChainShare, ChainExact
<1> QED
  BY <1>1, LocalInvariant, PTL

\* The thread that drives a set never sleeps in the kernel on a wake: beside a
\* queued task or a set ready flag another thread is in the middle of the
\* wake that interrupts it (LocalWaker::wake_by_ref, block_on_with).
THEOREM WakesAreNotSleptThrough == LocalSpec => []NoWakeSleptThrough
<1>1. LocalInv => NoWakeSleptThrough
  <2> SUFFICES ASSUME LocalInv, mpc = "kernel", Blocked,
                      ready \/ \E t \in Tasks : queued[t],
                      \A h \in Remote : At(h, "idle")
               PROVE  FALSE
    BY DEF NoWakeSleptThrough
  <2>1. \A h \in Threads : At(h, "idle")
    BY DEF LocalInv, SelfExact, Threads
  <2>2. ~retry /\ ~kicked /\ block
    BY DEF LocalInv, SelfExact, Blocked
  <2>3. ~ready
    BY <2>1, <2>2 DEF LocalInv, ReadyExact, At
  <2>4. Walked = {} /\ Linking = {}
    BY <2>1 DEF Walked, Linking, At
  <2>5. ChainFrom(head) # {}
    BY <2>3, <2>4 DEF LocalInv, ChainShare
  <2>6. head # END
    BY <2>5, ReachIsClosed, WalkedParts DEF ChainFrom
  <2>7. ~parent
    BY <2>1, <2>6 DEF LocalInv, ParentExact, At
  <2> QED
    BY <2>1, <2>3, <2>7 DEF LocalInv, ParentExact, At
<1> QED
  BY <1>1, LocalInvariant, PTL

-----------------------------------------------------------------------------
(* The timers.                                                             *)

\* A clock reading is never ahead of the clock.
ReadingsArePast == \A d \in Drivers : dnow[d] <= now

\* The registry's lock: one driver drains at a time, and has an entry in hand
\* only between popping it and taking its waker.
OneDrains ==
    /\ \A d, e \in Drivers :
          dpc[d] \in {"drain", "take"} /\ dpc[e] \in {"drain", "take"} => d = e
    /\ \A d \in Drivers : popped[d] # {} => dpc[d] = "take"
    /\ \A d \in Drivers : \A s \in popped[d] : fired[s]
    /\ host # "dedicated" => dpc["thread"] = "absent"

\* A task sleeps only between polls; what it armed is in the registry until it
\* fires; the waker it stored last is there until then.
TasksExact ==
    \A s \in Sleeps :
        /\ asleep[s] => pc[s] \in {"nudge", "signal", "idle"}
        /\ pc[s] # "new" => mine[s] \in Wakers
        /\ pc[s] \in {"nudge", "signal", "idle", "store", "again"} => s \in pending
                    \/ fired[s]
        /\ pc[s] = "again" /\ ~fired[s] => waker[s] = mine[s]
        /\ s \in pending => ~fired[s]
        /\ s \in pending \/ fired[s] => pc[s] \notin {"new", "arm"}
        /\ pc[s] = "signal" => host # "unset"

\* An armed sleep at or after t will be announced with its deadline.
Announced(s) == \E u \in Sleeps : pc[u] = "nudge" /\ deadline[u] <= deadline[s]

\* The dedicated thread: what it found, until it waits and while it does.
ThreadIsTold ==
    host = "dedicated" =>
        /\ dpc["thread"] \in {"wake", "check"} =>
              \/ nudged \/ \E u \in Sleeps : pc[u] = "nudge"
              \/ \A s \in pending : next["thread"] <= deadline[s]
        /\ dpc["thread"] = "waiting" =>
              \/ \E u \in Sleeps : pc[u] \in {"nudge", "signal"}
              \/ \A s \in pending : next["thread"] <= deadline[s]

\* The reactor: its cache is a lower bound, except while the registry is being
\* drained, when what was found stands in for it; a wait for longer than the
\* cache says is about to be ended.
ReactorIsTold ==
    host # "dedicated" =>
        /\ dpc["reactor"] \in {"look", "swap", "load", "waiting"} =>
              \A s \in pending : Announced(s) \/ next_deadline <= deadline[s]
        /\ dpc["reactor"] \in {"wake", "publish"} =>
              \A s \in pending : \/ Announced(s) \/ next_deadline <= deadline[s]
                                 \/ next["reactor"] <= deadline[s]
        /\ dpc["reactor"] = "waiting" =>
              \/ next["reactor"] <= next_deadline \/ eventfd
              \/ \E u \in Sleeps : pc[u] = "signal"

\* The inductive invariant of the sleeps and the two drivers.
TimersInv ==
    /\ TypeOK /\ NeverEarly /\ ReadingsArePast /\ OneDrains /\ TasksExact
    /\ SleeperReachable /\ ThreadIsTold /\ ReactorIsTold

USE TimersAssumption
USE DEF Drivers, Deadlines, NO_DEADLINE

-----------------------------------------------------------------------------
(* The operators.                                                          *)

\* A set of numbers that is not empty has a least element.
LEMMA LeastElement ==
    ASSUME NEW S \in SUBSET Nat, S # {}
    PROVE  \E m \in S : \A n \in S : m <= n
<1>1. PICK m \in S : \A n \in S : ~(<<n, m>> \in OpToRel(<, Nat))
  BY WFMin, NatLessThanWellFounded
<1>2. \A n \in S : ~(n < m)
  BY <1>1 DEF OpToRel
<1> QED
  BY <1>2

\* peek: the deadline of an armed sleep, and none is earlier.
LEMMA PeekIsLeast ==
    ASSUME TypeOK
    PROVE  /\ Peek \in Deadlines \cup {NO_DEADLINE}
           /\ \A s \in pending : Peek <= deadline[s]
           /\ pending = {} => Peek = NO_DEADLINE
           /\ pending # {} => \E s \in pending : deadline[s] = Peek
<1> USE DEF TypeOK
<1>1. CASE pending = {}
  BY <1>1 DEF Peek
<1>2. CASE pending # {}
  <2> DEFINE T == {deadline[s] : s \in pending}
             IsLeast(t) == /\ \E s \in pending : deadline[s] = t
                           /\ \A s \in pending : t <= deadline[s]
  <2>1. T \in SUBSET Nat /\ T # {} /\ T \subseteq Deadlines
    BY <1>2
  <2>2. PICK m \in T : \A n \in T : m <= n
    BY <2>1, LeastElement
  <2>3. m \in Deadlines /\ IsLeast(m)
    BY <2>1, <2>2
  <2>4. Peek = CHOOSE t \in Deadlines : IsLeast(t)
    BY <1>2 DEF Peek
  <2>5. Peek \in Deadlines /\ IsLeast(Peek)
    <3> HIDE DEF IsLeast, Deadlines
    <3> QED
      BY <2>3, <2>4
  <2> QED
    BY <1>2, <2>5
<1> QED
  BY <1>1, <1>2

-----------------------------------------------------------------------------
\* The invariant holds before the first sleep is polled.
LEMMA TimersStart == Init => TimersInv
<1> SUFFICES ASSUME Init PROVE TimersInv
  OBVIOUS
<1> USE DEF Init
<1>1. TypeOK
  <2>1. /\ dpc \in [Drivers -> {"look", "absent"}] /\ due \in [Drivers -> {{}}]
        /\ popped \in [Drivers -> {{}}] /\ dnow \in [Drivers -> {0}]
        /\ next \in [Drivers -> {NO_DEADLINE}]
    OBVIOUS
  <2>2. /\ fired \in [Sleeps -> BOOLEAN] /\ asleep \in [Sleeps -> BOOLEAN]
        /\ pc \in [Sleeps -> {"new"}] /\ mine \in [Sleeps -> {NoWaker}]
        /\ waker \in [Sleeps -> {NoWaker}]
    OBVIOUS
  <2>3. /\ now \in 0..Horizon /\ host \in {"unset"} /\ pending \in SUBSET Sleeps
        /\ deadline \in [Sleeps -> Deadlines] /\ next_deadline \in {NO_DEADLINE}
    OBVIOUS
  <2>5. nudged \in BOOLEAN /\ eventfd \in BOOLEAN
    OBVIOUS
  <2> HIDE DEF Init, Drivers, Deadlines, NO_DEADLINE
  <2>4. 0 \in 0..Horizon
    OBVIOUS
  <2> QED
    BY <2>1, <2>2, <2>3, <2>4, <2>5 DEF TypeOK
<1>2. NeverEarly /\ ReadingsArePast /\ OneDrains
  BY DEF NeverEarly, ReadingsArePast, OneDrains
<1>3. TasksExact /\ SleeperReachable
  BY DEF TasksExact, SleeperReachable
<1>4. ThreadIsTold /\ ReactorIsTold
  BY DEF ThreadIsTold, ReactorIsTold
<1> QED
  BY <1>1, <1>2, <1>3, <1>4 DEF TimersInv

\* Every step keeps the types.
LEMMA TypeStep ==
    ASSUME TimersInv, [Next]_vars
    PROVE  TypeOK'
<1> USE DEF TimersInv, TypeOK, registryVars, taskVars, wakeVars, driverVars, Goto, DGoto
<1>1. CASE UNCHANGED vars
  BY <1>1 DEF vars
<1>2. CASE Tick
  BY <1>2 DEF Tick
<1>3. CASE bind_reactor
  BY <1>3 DEF bind_reactor
<1>4. CASE ThreadWaitEnds
  BY <1>4 DEF ThreadWaitEnds
<1>5. CASE ReactorWaitEnds
  BY <1>5 DEF ReactorWaitEnds
<1>6. CASE ReadClock
  BY <1>6 DEF ReadClock
<1>7. CASE Check
  BY <1>7 DEF Check
<1>8. CASE ThreadWoken
  BY <1>8 DEF ThreadWoken
<1>9. CASE LookAtCache
  BY <1>9 DEF LookAtCache
<1>10. CASE SwapCache
  BY <1>10 DEF SwapCache
<1>11. CASE Publish
  BY <1>11 DEF Publish, Least
<1>12. CASE Load
  BY <1>12 DEF Load
<1>13. ASSUME NEW s \in Sleeps, NEW w \in Wakers, PollNew(s, w) PROVE TypeOK'
  BY <1>13 DEF PollNew
<1>14. ASSUME NEW s \in Sleeps, NEW w \in Wakers, Poll(s, w) PROVE TypeOK'
  BY <1>14 DEF Poll
<1>15. ASSUME NEW s \in Sleeps, arm(s) PROVE TypeOK'
  BY <1>15 DEF arm
<1>16. ASSUME NEW s \in Sleeps, start(s) PROVE TypeOK'
  BY <1>16 DEF start
<1>17. ASSUME NEW s \in Sleeps, nudge(s) PROVE TypeOK'
  <2>1. next_deadline' \in Deadlines \cup {NO_DEADLINE}
    BY <1>17 DEF nudge, Least
  <2>3. nudged' \in BOOLEAN
    BY <1>17 DEF nudge
  <2>2. PICK to \in {"idle", "signal"} : pc' = [pc EXCEPT ![s] = to]
    BY <1>17 DEF nudge
  <2> QED
    BY <1>17, <2>1, <2>2, <2>3 DEF nudge
<1>18. ASSUME NEW s \in Sleeps, Signal(s) PROVE TypeOK'
  BY <1>18 DEF Signal
<1>19. ASSUME NEW s \in Sleeps, PollStore(s) PROVE TypeOK'
  BY <1>19 DEF PollStore
<1>20. ASSUME NEW s \in Sleeps, PollAgain(s) PROVE TypeOK'
  BY <1>20 DEF PollAgain
<1>21. ASSUME NEW s \in Sleeps, drop(s) PROVE TypeOK'
  BY <1>21 DEF drop
<1>22. ASSUME NEW d \in Drivers, Lock(d) PROVE TypeOK'
  BY <1>22 DEF Lock
<1>23. ASSUME NEW d \in Drivers, NEW s \in Sleeps, Pop(d, s) PROVE TypeOK'
  BY <1>23 DEF Pop
<1>24. ASSUME NEW d \in Drivers, Take(d) PROVE TypeOK'
  BY <1>24 DEF Take
<1>25. ASSUME NEW d \in Drivers, Unlock(d) PROVE TypeOK'
  <2>1. Peek \in Deadlines \cup {NO_DEADLINE}
    BY PeekIsLeast
  <2>2. dpc' = [dpc EXCEPT ![d] = Waking(d, due[d])] /\ next' = [next EXCEPT ![d] = Peek]
    BY <1>25 DEF Unlock
  <2>3. Waking(d, due[d]) \in {"wake", "check", "publish"}
    BY DEF Waking
  <2>4. dpc' \in [Drivers -> {"absent", "clock", "look", "swap", "lock", "drain", "take",
              "wake",
                            "publish", "load", "check", "waiting", "woken"}]
    BY <2>2, <2>3
  <2>5. next' \in [Drivers -> Deadlines \cup {NO_DEADLINE}]
    BY <2>1, <2>2
  <2> QED
    BY <1>25, <2>4, <2>5 DEF Unlock
<1>26. ASSUME NEW d \in Drivers, NEW s \in Sleeps, NEW w \in Wakers, Wake(d, s, w)
      PROVE  TypeOK'
  <2>1. asleep' \in [Sleeps -> BOOLEAN]
    BY <1>26 DEF Wake
  <2>2. dpc' = [dpc EXCEPT ![d] = Waking(d, due'[d])]
    BY <1>26 DEF Wake
  <2>3. Waking(d, due'[d]) \in {"wake", "check", "publish"}
    BY DEF Waking
  <2>4. dpc' \in [Drivers -> {"absent", "clock", "look", "swap", "lock", "drain", "take",
              "wake",
                            "publish", "load", "check", "waiting", "woken"}]
    BY <2>2, <2>3
  <2>5. due' \in [Drivers -> SUBSET (Sleeps \X Wakers)]
    BY <1>26 DEF Wake
  <2> QED
    BY <1>26, <2>1, <2>4, <2>5 DEF Wake
<1> QED
  BY <1>1, <1>2, <1>3, <1>4, <1>5, <1>6, <1>7, <1>8, <1>9, <1>10, <1>11, <1>12, <1>13,
     <1>14, <1>15, <1>16, <1>17, <1>18, <1>19, <1>20, <1>21, <1>22, <1>23, <1>24, <1>25,
     <1>26 DEF Next, Drive, Step

\* One drainer, and no reading or firing ahead of the clock.
LEMMA LockStep ==
    ASSUME TimersInv, [Next]_vars, TypeOK'
    PROVE  (NeverEarly /\ ReadingsArePast /\ OneDrains)'
<1> USE DEF TimersInv, TypeOK, NeverEarly, ReadingsArePast, OneDrains, registryVars,
            taskVars, wakeVars, driverVars, Goto, DGoto
<1>1. CASE UNCHANGED vars
  BY <1>1 DEF vars
<1>2. CASE Tick
  BY <1>2 DEF Tick
<1>3. CASE bind_reactor
  BY <1>3 DEF bind_reactor
<1>4. CASE ThreadWaitEnds
  BY <1>4 DEF ThreadWaitEnds
<1>5. CASE ReactorWaitEnds
  BY <1>5 DEF ReactorWaitEnds
<1>6. CASE ReadClock
  BY <1>6 DEF ReadClock
<1>7. CASE Check
  BY <1>7 DEF Check
<1>8. CASE ThreadWoken
  BY <1>8 DEF ThreadWoken
<1>9. CASE LookAtCache
  BY <1>9 DEF LookAtCache
<1>10. CASE SwapCache
  BY <1>10 DEF SwapCache
<1>11. CASE Publish
  BY <1>11 DEF Publish
<1>12. CASE Load
  BY <1>12 DEF Load
<1>13. ASSUME NEW s \in Sleeps, NEW w \in Wakers, PollNew(s, w)
      PROVE  (NeverEarly /\ ReadingsArePast /\ OneDrains)'
  BY <1>13 DEF PollNew
<1>14. ASSUME NEW s \in Sleeps, NEW w \in Wakers, Poll(s, w)
      PROVE  (NeverEarly /\ ReadingsArePast /\ OneDrains)'
  BY <1>14 DEF Poll
<1>15. ASSUME NEW s \in Sleeps, arm(s) PROVE (NeverEarly /\ ReadingsArePast /\ OneDrains)'
  BY <1>15 DEF arm
<1>16. ASSUME NEW s \in Sleeps, start(s)
       PROVE  (NeverEarly /\ ReadingsArePast /\ OneDrains)'
  BY <1>16 DEF start
<1>17. ASSUME NEW s \in Sleeps, nudge(s)
       PROVE  (NeverEarly /\ ReadingsArePast /\ OneDrains)'
  BY <1>17 DEF nudge
<1>18. ASSUME NEW s \in Sleeps, Signal(s)
      PROVE  (NeverEarly /\ ReadingsArePast /\ OneDrains)'
  BY <1>18 DEF Signal
<1>19. ASSUME NEW s \in Sleeps, PollStore(s)
      PROVE  (NeverEarly /\ ReadingsArePast /\ OneDrains)'
  BY <1>19 DEF PollStore
<1>20. ASSUME NEW s \in Sleeps, PollAgain(s)
      PROVE  (NeverEarly /\ ReadingsArePast /\ OneDrains)'
  BY <1>20 DEF PollAgain
<1>21. ASSUME NEW s \in Sleeps, drop(s)
       PROVE  (NeverEarly /\ ReadingsArePast /\ OneDrains)'
  BY <1>21 DEF drop
<1>22. ASSUME NEW d \in Drivers, Lock(d)
       PROVE  (NeverEarly /\ ReadingsArePast /\ OneDrains)'
  BY <1>22 DEF Lock, Free
<1>23. ASSUME NEW d \in Drivers, NEW s \in Sleeps, Pop(d, s)
      PROVE  (NeverEarly /\ ReadingsArePast /\ OneDrains)'
  BY <1>23 DEF Pop, Due
<1>24. ASSUME NEW d \in Drivers, Take(d)
       PROVE  (NeverEarly /\ ReadingsArePast /\ OneDrains)'
  BY <1>24 DEF Take
<1>25. ASSUME NEW d \in Drivers, Unlock(d)
      PROVE  (NeverEarly /\ ReadingsArePast /\ OneDrains)'
  BY <1>25 DEF Unlock
<1>26. ASSUME NEW d \in Drivers, NEW s \in Sleeps, NEW w \in Wakers, Wake(d, s, w)
      PROVE  (NeverEarly /\ ReadingsArePast /\ OneDrains)'
  BY <1>26 DEF Wake, Waking
<1> QED
  BY <1>1, <1>2, <1>3, <1>4, <1>5, <1>6, <1>7, <1>8, <1>9, <1>10, <1>11, <1>12, <1>13,
     <1>14, <1>15, <1>16, <1>17, <1>18, <1>19, <1>20, <1>21, <1>22, <1>23, <1>24, <1>25,
     <1>26 DEF Next, Drive, Step

\* Tasks and the registry agree.
LEMMA TasksStep ==
    ASSUME TimersInv, [Next]_vars, TypeOK'
    PROVE  TasksExact'
<1> USE DEF TimersInv, TypeOK, TasksExact, registryVars, taskVars, wakeVars, driverVars,
            Goto, DGoto
<1>1. CASE UNCHANGED vars
  BY <1>1 DEF vars
<1>2. CASE Tick
  BY <1>2 DEF Tick
<1>3. CASE bind_reactor
  BY <1>3 DEF bind_reactor
<1>4. CASE ThreadWaitEnds
  BY <1>4 DEF ThreadWaitEnds
<1>5. CASE ReactorWaitEnds
  BY <1>5 DEF ReactorWaitEnds
<1>6. CASE ReadClock
  BY <1>6 DEF ReadClock
<1>7. CASE Check
  BY <1>7 DEF Check
<1>8. CASE ThreadWoken
  BY <1>8 DEF ThreadWoken
<1>9. CASE LookAtCache
  BY <1>9 DEF LookAtCache
<1>10. CASE SwapCache
  BY <1>10 DEF SwapCache
<1>11. CASE Publish
  BY <1>11 DEF Publish
<1>12. CASE Load
  BY <1>12 DEF Load
<1>13. ASSUME NEW s \in Sleeps, NEW w \in Wakers, PollNew(s, w) PROVE TasksExact'
  BY <1>13 DEF PollNew
<1>14. ASSUME NEW s \in Sleeps, NEW w \in Wakers, Poll(s, w) PROVE TasksExact'
  BY <1>14 DEF Poll
<1>15. ASSUME NEW s \in Sleeps, arm(s) PROVE TasksExact'
  BY <1>15 DEF arm
<1>16. ASSUME NEW s \in Sleeps, start(s) PROVE TasksExact'
  BY <1>16 DEF start
<1>17. ASSUME NEW s \in Sleeps, nudge(s) PROVE TasksExact'
  BY <1>17 DEF nudge
<1>18. ASSUME NEW s \in Sleeps, Signal(s) PROVE TasksExact'
  BY <1>18 DEF Signal
<1>19. ASSUME NEW s \in Sleeps, PollStore(s) PROVE TasksExact'
  BY <1>19 DEF PollStore
<1>20. ASSUME NEW s \in Sleeps, PollAgain(s) PROVE TasksExact'
  BY <1>20 DEF PollAgain
<1>21. ASSUME NEW s \in Sleeps, drop(s) PROVE TasksExact'
  BY <1>21 DEF drop
<1>22. ASSUME NEW d \in Drivers, Lock(d) PROVE TasksExact'
  BY <1>22 DEF Lock
<1>23. ASSUME NEW d \in Drivers, NEW s \in Sleeps, Pop(d, s) PROVE TasksExact'
  BY <1>23 DEF Pop
<1>24. ASSUME NEW d \in Drivers, Take(d) PROVE TasksExact'
  BY <1>24 DEF Take, OneDrains
<1>25. ASSUME NEW d \in Drivers, Unlock(d) PROVE TasksExact'
  BY <1>25 DEF Unlock
<1>26. ASSUME NEW d \in Drivers, NEW s \in Sleeps, NEW w \in Wakers, Wake(d, s, w)
      PROVE  TasksExact'
  BY <1>26 DEF Wake
<1> QED
  BY <1>1, <1>2, <1>3, <1>4, <1>5, <1>6, <1>7, <1>8, <1>9, <1>10, <1>11, <1>12, <1>13,
     <1>14, <1>15, <1>16, <1>17, <1>18, <1>19, <1>20, <1>21, <1>22, <1>23, <1>24, <1>25,
     <1>26 DEF Next, Drive, Step

\* A sleeper stays within reach.
LEMMA ReachStep ==
    ASSUME TimersInv, [Next]_vars, TypeOK'
    PROVE  SleeperReachable'
<1> USE DEF TimersInv, TypeOK, TasksExact, OneDrains, SleeperReachable, registryVars,
            taskVars, wakeVars, driverVars, Goto, DGoto
<1>1. CASE UNCHANGED vars
  BY <1>1 DEF vars
<1>2. CASE Tick
  BY <1>2 DEF Tick
<1>3. CASE bind_reactor
  BY <1>3 DEF bind_reactor
<1>4. CASE ThreadWaitEnds
  BY <1>4 DEF ThreadWaitEnds
<1>5. CASE ReactorWaitEnds
  BY <1>5 DEF ReactorWaitEnds
<1>6. CASE ReadClock
  BY <1>6 DEF ReadClock
<1>7. CASE Check
  BY <1>7 DEF Check
<1>8. CASE ThreadWoken
  BY <1>8 DEF ThreadWoken
<1>9. CASE LookAtCache
  BY <1>9 DEF LookAtCache
<1>10. CASE SwapCache
  BY <1>10 DEF SwapCache
<1>11. CASE Publish
  BY <1>11 DEF Publish
<1>12. CASE Load
  BY <1>12 DEF Load
<1>13. ASSUME NEW s \in Sleeps, NEW w \in Wakers, PollNew(s, w) PROVE SleeperReachable'
  BY <1>13 DEF PollNew
<1>14. ASSUME NEW s \in Sleeps, NEW w \in Wakers, Poll(s, w) PROVE SleeperReachable'
  BY <1>14 DEF Poll
<1>15. ASSUME NEW s \in Sleeps, arm(s) PROVE SleeperReachable'
  BY <1>15 DEF arm
<1>16. ASSUME NEW s \in Sleeps, start(s) PROVE SleeperReachable'
  BY <1>16 DEF start
<1>17. ASSUME NEW s \in Sleeps, nudge(s) PROVE SleeperReachable'
  BY <1>17 DEF nudge
<1>18. ASSUME NEW s \in Sleeps, Signal(s) PROVE SleeperReachable'
  BY <1>18 DEF Signal
<1>19. ASSUME NEW s \in Sleeps, PollStore(s) PROVE SleeperReachable'
  BY <1>19 DEF PollStore
<1>20. ASSUME NEW s \in Sleeps, PollAgain(s) PROVE SleeperReachable'
  BY <1>20 DEF PollAgain
<1>21. ASSUME NEW s \in Sleeps, drop(s) PROVE SleeperReachable'
  BY <1>21 DEF drop
<1>22. ASSUME NEW d \in Drivers, Lock(d) PROVE SleeperReachable'
  BY <1>22 DEF Lock
<1>23. ASSUME NEW d \in Drivers, NEW s \in Sleeps, Pop(d, s) PROVE SleeperReachable'
  BY <1>23 DEF Pop
<1>24. ASSUME NEW d \in Drivers, Take(d) PROVE SleeperReachable'
  BY <1>24 DEF Take
<1>25. ASSUME NEW d \in Drivers, Unlock(d) PROVE SleeperReachable'
  BY <1>25 DEF Unlock
<1>26. ASSUME NEW d \in Drivers, NEW s \in Sleeps, NEW w \in Wakers, Wake(d, s, w)
      PROVE  SleeperReachable'
  <2> SUFFICES ASSUME NEW u \in Sleeps, asleep'[u]
               PROVE  \/ u \in pending' /\ waker'[u] = mine'[u]
                      \/ \E e \in Drivers : \/ u \in popped'[e] /\ waker'[u] = mine'[u]
                                            \/ <<u, mine'[u]>> \in due'[e]
    OBVIOUS
  <2>1. /\ UNCHANGED <<pending, waker, mine, popped>>
        /\ due' = [due EXCEPT ![d] = @ \ {<<s, w>>}]
        /\ asleep' = [asleep EXCEPT ![s] = @ /\ mine[s] # w]
    BY <1>26 DEF Wake
  <2>2. asleep[u] /\ <<u, mine[u]>> # <<s, w>>
    <3>1. CASE u = s
      <4>1. asleep'[s] = (asleep[s] /\ mine[s] # w)
        BY <2>1
      <4> QED
        BY <3>1, <4>1
    <3>2. CASE u # s
      BY <2>1, <3>2
    <3> QED
      BY <3>1, <3>2
  <2>3. \A e \in Drivers : <<u, mine[u]>> \in due[e] => <<u, mine[u]>> \in due'[e]
    BY <2>1, <2>2
  <2> QED
    BY <2>1, <2>2, <2>3
<1> QED
  BY <1>1, <1>2, <1>3, <1>4, <1>5, <1>6, <1>7, <1>8, <1>9, <1>10, <1>11, <1>12, <1>13,
     <1>14, <1>15, <1>16, <1>17, <1>18, <1>19, <1>20, <1>21, <1>22, <1>23, <1>24, <1>25,
     <1>26 DEF Next, Drive, Step

\* The dedicated thread is told.
LEMMA ThreadStep ==
    ASSUME TimersInv, [Next]_vars, TypeOK'
    PROVE  ThreadIsTold'
<1> USE DEF TimersInv, TypeOK, ThreadIsTold, registryVars, taskVars, wakeVars, driverVars,
            Goto, DGoto
<1>1. CASE UNCHANGED vars
  BY <1>1 DEF vars
<1>2. CASE Tick
  BY <1>2 DEF Tick
<1>3. CASE bind_reactor
  BY <1>3 DEF bind_reactor
<1>4. CASE ThreadWaitEnds
  BY <1>4 DEF ThreadWaitEnds
<1>5. CASE ReactorWaitEnds
  BY <1>5 DEF ReactorWaitEnds
<1>6. CASE ReadClock
  BY <1>6 DEF ReadClock
<1>7. CASE Check
  BY <1>7 DEF Check
<1>8. CASE ThreadWoken
  BY <1>8 DEF ThreadWoken
<1>9. CASE LookAtCache
  BY <1>9 DEF LookAtCache
<1>10. CASE SwapCache
  BY <1>10 DEF SwapCache
<1>11. CASE Publish
  BY <1>11 DEF Publish
<1>12. CASE Load
  BY <1>12 DEF Load
<1>13. ASSUME NEW s \in Sleeps, NEW w \in Wakers, PollNew(s, w) PROVE ThreadIsTold'
  BY <1>13 DEF PollNew
<1>14. ASSUME NEW s \in Sleeps, NEW w \in Wakers, Poll(s, w) PROVE ThreadIsTold'
  BY <1>14 DEF Poll
<1>15. ASSUME NEW s \in Sleeps, arm(s) PROVE ThreadIsTold'
  <2>1. CASE Earliest(s)
    <3>1. pc' = [pc EXCEPT ![s] = "nudge"]
      BY <1>15, <2>1 DEF arm
    <3> QED
      BY <1>15, <3>1 DEF arm
  <2>2. CASE ~Earliest(s)
    <3>1. /\ pc' = [pc EXCEPT ![s] = "idle"] /\ pc[s] = "arm" /\ pending' = pending \cup {s}
          /\ UNCHANGED <<host, dpc, nudged, deadline, next>>
      BY <1>15, <2>2 DEF arm
    <3>2. PICK q \in pending : deadline[q] <= deadline[s]
      BY <2>2, PeekIsLeast DEF Earliest
    <3>3. (\A p \in pending : next["thread"] <= deadline[p]) =>
             \A p \in pending' : next["thread"] <= deadline[p]
      BY <3>1, <3>2
    <3>4. \A u \in Sleeps : pc[u] \in {"nudge", "signal"} => pc'[u] = pc[u]
      BY <3>1
    <3> QED
      BY <3>1, <3>3, <3>4
  <2> QED
    BY <2>1, <2>2
<1>16. ASSUME NEW s \in Sleeps, start(s) PROVE ThreadIsTold'
  BY <1>16 DEF start
<1>17. ASSUME NEW s \in Sleeps, nudge(s) PROVE ThreadIsTold'
  BY <1>17 DEF nudge
<1>18. ASSUME NEW s \in Sleeps, Signal(s) PROVE ThreadIsTold'
  BY <1>18 DEF Signal
<1>19. ASSUME NEW s \in Sleeps, PollStore(s) PROVE ThreadIsTold'
  BY <1>19 DEF PollStore
<1>20. ASSUME NEW s \in Sleeps, PollAgain(s) PROVE ThreadIsTold'
  BY <1>20 DEF PollAgain
<1>21. ASSUME NEW s \in Sleeps, drop(s) PROVE ThreadIsTold'
  BY <1>21 DEF drop
<1>22. ASSUME NEW d \in Drivers, Lock(d) PROVE ThreadIsTold'
  BY <1>22 DEF Lock
<1>23. ASSUME NEW d \in Drivers, NEW s \in Sleeps, Pop(d, s) PROVE ThreadIsTold'
  BY <1>23 DEF Pop
<1>24. ASSUME NEW d \in Drivers, Take(d) PROVE ThreadIsTold'
  BY <1>24 DEF Take
<1>25. ASSUME NEW d \in Drivers, Unlock(d) PROVE ThreadIsTold'
  BY <1>25, PeekIsLeast DEF Unlock
<1>26. ASSUME NEW d \in Drivers, NEW s \in Sleeps, NEW w \in Wakers, Wake(d, s, w)
      PROVE  ThreadIsTold'
  BY <1>26 DEF Wake, Waking
<1> QED
  BY <1>1, <1>2, <1>3, <1>4, <1>5, <1>6, <1>7, <1>8, <1>9, <1>10, <1>11, <1>12, <1>13,
     <1>14, <1>15, <1>16, <1>17, <1>18, <1>19, <1>20, <1>21, <1>22, <1>23, <1>24, <1>25,
     <1>26 DEF Next, Drive, Step

\* The reactor is told.
LEMMA ReactorStep ==
    ASSUME TimersInv, [Next]_vars, TypeOK'
    PROVE  ReactorIsTold'
<1> USE DEF TimersInv, TypeOK, ReactorIsTold, Announced, registryVars, taskVars, wakeVars,
            driverVars, Goto, DGoto
<1>1. CASE UNCHANGED vars
  BY <1>1 DEF vars
<1>2. CASE Tick
  BY <1>2 DEF Tick
<1>3. CASE bind_reactor
  BY <1>3 DEF bind_reactor
<1>4. CASE ThreadWaitEnds
  BY <1>4 DEF ThreadWaitEnds
<1>5. CASE ReactorWaitEnds
  BY <1>5 DEF ReactorWaitEnds
<1>6. CASE ReadClock
  BY <1>6 DEF ReadClock
<1>7. CASE Check
  BY <1>7 DEF Check
<1>8. CASE ThreadWoken
  BY <1>8 DEF ThreadWoken
<1>9. CASE LookAtCache
  BY <1>9 DEF LookAtCache
<1>10. CASE SwapCache
  BY <1>10 DEF SwapCache
<1>11. CASE Publish
  BY <1>11 DEF Publish, Least
<1>12. CASE Load
  BY <1>12 DEF Load
<1>13. ASSUME NEW s \in Sleeps, NEW w \in Wakers, PollNew(s, w) PROVE ReactorIsTold'
  BY <1>13 DEF PollNew
<1>14. ASSUME NEW s \in Sleeps, NEW w \in Wakers, Poll(s, w) PROVE ReactorIsTold'
  BY <1>14 DEF Poll
<1>15. ASSUME NEW s \in Sleeps, arm(s) PROVE ReactorIsTold'
  <2>1. /\ pc[s] = "arm" /\ pending' = pending \cup {s}
        /\ UNCHANGED <<host, dpc, deadline, next, next_deadline, eventfd>>
    BY <1>15 DEF arm
  <2>2. PICK to \in {"idle", "nudge"} : pc' = [pc EXCEPT ![s] = to] /\ (to = "nudge" <=>
              Earliest(s))
    BY <1>15 DEF arm
  <2>3. \A p \in Sleeps : Announced(p) => Announced(p)'
    BY <2>1, <2>2
  <2>4. Announced(s)' \/ \E q \in pending : deadline[q] <= deadline[s]
    <3>1. CASE Earliest(s)
      BY <2>1, <2>2, <3>1
    <3>2. CASE ~Earliest(s)
      BY <3>2, PeekIsLeast DEF Earliest
    <3> QED
      BY <3>1, <3>2
  <2>5. \A q \in pending : deadline[q] <= deadline[s] =>
           /\ Announced(q) => Announced(s)
           /\ next_deadline <= deadline[q] => next_deadline <= deadline[s]
           /\ next["reactor"] <= deadline[q] => next["reactor"] <= deadline[s]
    OBVIOUS
  <2>6. (\E u \in Sleeps : pc[u] = "signal") => \E u \in Sleeps : pc'[u] = "signal"
    BY <2>1, <2>2
  <2> HIDE DEF Announced
  <2> QED
    BY <2>1, <2>3, <2>4, <2>5, <2>6
<1>16. ASSUME NEW s \in Sleeps, start(s) PROVE ReactorIsTold'
  BY <1>16 DEF start
<1>17. ASSUME NEW s \in Sleeps, nudge(s) PROVE ReactorIsTold'
  <2>1. CASE host = "dedicated"
    BY <1>17, <2>1 DEF nudge
  <2>2. CASE host = "reactor"
    <3>1. /\ pc[s] = "nudge" /\ next_deadline' <= deadline[s] /\ next_deadline' <=
                next_deadline
          /\ next_deadline' # next_deadline => pc' = [pc EXCEPT ![s] = "signal"]
          /\ UNCHANGED <<host, pending, deadline, dpc, next, eventfd>>
          /\ next_deadline' \in Nat
      BY <1>17, <2>2 DEF nudge, Least
    <3>2. PICK to \in {"idle", "signal"} : pc' = [pc EXCEPT ![s] = to]
      BY <1>17 DEF nudge
    <3>3. \A p \in pending : Announced(p) => Announced(p)' \/ next_deadline' <= deadline[p]
      BY <3>1, <3>2
    <3>4. \A p \in pending : next_deadline <= deadline[p] => next_deadline' <= deadline[p]
      BY <3>1
    <3>5. (\E u \in Sleeps : pc[u] = "signal") => \E u \in Sleeps : pc'[u] = "signal"
      BY <3>1, <3>2
    <3>6. next_deadline' # next_deadline => \E u \in Sleeps : pc'[u] = "signal"
      BY <3>1
    <3> HIDE DEF Announced
    <3> QED
      BY <2>2, <3>1, <3>3, <3>4, <3>5, <3>6
  <2> QED
    BY <1>17, <2>1, <2>2 DEF nudge
<1>18. ASSUME NEW s \in Sleeps, Signal(s) PROVE ReactorIsTold'
  BY <1>18 DEF Signal, TasksExact
<1>19. ASSUME NEW s \in Sleeps, PollStore(s) PROVE ReactorIsTold'
  BY <1>19 DEF PollStore
<1>20. ASSUME NEW s \in Sleeps, PollAgain(s) PROVE ReactorIsTold'
  BY <1>20 DEF PollAgain
<1>21. ASSUME NEW s \in Sleeps, drop(s) PROVE ReactorIsTold'
  BY <1>21 DEF drop
<1>22. ASSUME NEW d \in Drivers, Lock(d) PROVE ReactorIsTold'
  BY <1>22 DEF Lock
<1>23. ASSUME NEW d \in Drivers, NEW s \in Sleeps, Pop(d, s) PROVE ReactorIsTold'
  BY <1>23 DEF Pop
<1>24. ASSUME NEW d \in Drivers, Take(d) PROVE ReactorIsTold'
  BY <1>24 DEF Take
<1>25. ASSUME NEW d \in Drivers, Unlock(d) PROVE ReactorIsTold'
  <2>1. /\ \A s \in pending : Peek <= deadline[s]
        /\ next' = [next EXCEPT ![d] = Peek]
        /\ dpc' = [dpc EXCEPT ![d] = Waking(d, due[d])]
        /\ UNCHANGED <<host, pending, pc, deadline, next_deadline, eventfd>>
    BY <1>25, PeekIsLeast DEF Unlock
  <2>2. Waking(d, due[d]) \in {"wake", "check", "publish"}
    BY DEF Waking
  <2>3. CASE d = "reactor"
    BY <2>1, <2>2, <2>3
  <2>4. CASE d = "thread"
    <3>1. dpc'["reactor"] = dpc["reactor"] /\ next'["reactor"] = next["reactor"]
      BY <2>1, <2>4
    <3> QED
      BY <2>1, <3>1
  <2> QED
    BY <2>3, <2>4
<1>26. ASSUME NEW d \in Drivers, NEW s \in Sleeps, NEW w \in Wakers, Wake(d, s, w)
      PROVE  ReactorIsTold'
  BY <1>26 DEF Wake, Waking
<1> QED
  BY <1>1, <1>2, <1>3, <1>4, <1>5, <1>6, <1>7, <1>8, <1>9, <1>10, <1>11, <1>12, <1>13,
     <1>14, <1>15, <1>16, <1>17, <1>18, <1>19, <1>20, <1>21, <1>22, <1>23, <1>24, <1>25,
     <1>26 DEF Next, Drive, Step

-----------------------------------------------------------------------------
\* Every step keeps the invariant, part by part.
LEMMA TimersStep == TimersInv /\ [Next]_vars => TimersInv'
<1> SUFFICES ASSUME TimersInv, [Next]_vars PROVE TimersInv'
  OBVIOUS
<1>1. TypeOK'
  BY TypeStep
<1>2. (NeverEarly /\ ReadingsArePast /\ OneDrains)' /\ TasksExact' /\ SleeperReachable'
  BY <1>1, LockStep, TasksStep, ReachStep
<1>3. ThreadIsTold' /\ ReactorIsTold'
  BY <1>1, ThreadStep, ReactorStep
<1> QED
  BY <1>1, <1>2, <1>3 DEF TimersInv

\* The invariant holds in every state.
LEMMA TimersInvariant == Spec => []TimersInv
BY TimersStart, TimersStep, PTL DEF Spec

-----------------------------------------------------------------------------
\* No sleep fires early: the deadline fire_due compares is compared with a
\* reading of the clock that cannot be ahead of it.
THEOREM SleepsNeverFireEarly == Spec => []NeverEarly
<1>1. TimersInv => NeverEarly
  BY DEF TimersInv
<1> QED
  BY <1>1, TimersInvariant, PTL

\* No sleep is forgotten, whichever driver was chosen and whenever: the waker
\* of a sleeping task stays within reach, and the driver that arming tasks
\* tell does not wait past an armed sleep.
THEOREM SleepsAreSafe == Spec => []SleepIsSafe
<1>1. ASSUME TimersInv PROVE NoOversleep
  <2> USE <1>1 DEF TimersInv
  <2>1. CASE host = "reactor"
    <3> SUFFICES ASSUME dpc["reactor"] = "waiting", ~eventfd,
                        \A s \in Sleeps : pc[s] \notin {"nudge", "signal"},
                        NEW s \in pending
                 PROVE  next["reactor"] <= deadline[s]
      BY <2>1 DEF NoOversleep, Told
    <3>1. next["reactor"] <= next_deadline /\ next_deadline <= deadline[s]
      BY <2>1 DEF ReactorIsTold, Announced
    <3> QED
      BY <3>1 DEF TypeOK
  <2>2. CASE host # "reactor"
    BY <2>2 DEF NoOversleep, Told, ThreadIsTold, OneDrains, TypeOK
  <2> QED
    BY <2>1, <2>2
<1>2. TimersInv => SleepIsSafe
  BY <1>1 DEF SleepIsSafe, TimersInv
<1> QED
  BY <1>2, TimersInvariant, PTL
=============================================================================
