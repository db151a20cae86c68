-------------------------------- MODULE Local --------------------------------
(***************************************************************************)
(* The executor of reactor/local.rs: one thread polls its futures and      *)
(* waits in the kernel itself.  block_on_with drives a TaskSet; the wakers *)
(* of the set's tasks link them on a lock-free chain and wake the set's    *)
(* parent, the LocalWaker, which interrupts the wait unless the wake comes *)
(* from the waiting thread itself.  poll_once_timeout (reactor/driver.rs)  *)
(* fires the timers that are due before it waits.                          *)
(*                                                                         *)
(* Every atomic instruction of a wake is a step, on whatever thread makes  *)
(* it: another one, or this one from inside a task, a timer or dispatch.   *)
(* news[t] stands for whatever the wake of t was about; a poll of t sees   *)
(* it.  The timers are the ones this thread armed, so its wait ends when   *)
(* one falls due; how timers are kept is module Timers.                    *)
(***************************************************************************)
EXTENDS Naturals, FiniteSets

CONSTANTS Tasks,       \* the futures pushed into the set
          Remote,      \* the other threads
          Self,        \* the thread in block_on_with
          END,         \* the end of the chain
          MaxEvents    \* bound on wakes, armed timers, descriptor events and
                       \* poller failures

ASSUME LocalAssumption ==
    /\ IsFiniteSet(Tasks) /\ IsFiniteSet(Remote)
    /\ END \notin Tasks /\ Self \notin Remote /\ MaxEvents \in Nat

Threads == Remote \cup {Self}

VARIABLES ready, waiting,              \* LocalWaker
          head, link, queued, parent,  \* Shared and the Slots
          entries, done,               \* tasks: pushed, and future None
          wpc, target, seen,            \* per thread: the wake_by_ref under way
          mpc, cursor, following,      \* Self: block_on_with, TaskSet::poll
          todo, block, retry,          \* Self: wakes to make, timeout, error
          kicked, io, timer,           \* kernel: wake event, descriptor
                                       \* events; the timers
          news, polled, events

wakerVars == <<ready, waiting>>
chainVars == <<head, link, queued, parent>>
setVars == <<entries, done>>
slotVars == <<wpc, target, seen>>
walkVars == <<cursor, following>>
loopVars == <<todo, block, retry>>
kernelVars == <<kicked, io, timer>>
ghostVars == <<news, polled, events>>
localVars == <<wakerVars, chainVars, setVars, slotVars, mpc, walkVars, loopVars,
          kernelVars, ghostVars>>

LocalTypeOK ==
    /\ ready \in BOOLEAN /\ waiting \in BOOLEAN /\ parent \in BOOLEAN
    /\ head \in Tasks \cup {END} /\ link \in [Tasks -> Tasks \cup {END}]
    /\ queued \in [Tasks -> BOOLEAN]
    /\ entries \subseteq Tasks /\ done \subseteq entries
    /\ wpc \in [Threads -> {"idle", "store", "cas", "parent", "ready", "look",
                           "kick", "pushing"}]
    /\ mpc \in {"loop", "poll", "register", "take", "walk", "clear", "run",
                "in", "wait", "timers", "fire", "kernel", "dispatch", "out",
                "exit"}
    /\ todo \subseteq Tasks /\ io \subseteq Tasks /\ polled \subseteq entries
    /\ timer \in [Tasks -> {"off", "set", "due"}]

LocalInit ==
    /\ ready = TRUE /\ waiting = FALSE /\ parent = FALSE
    /\ head = END /\ link = [t \in Tasks |-> END]
    /\ queued = [t \in Tasks |-> FALSE]
    /\ entries = {} /\ done = {}
    /\ wpc = [h \in Threads |-> "idle"]
    /\ target \in [Threads -> {END}] /\ seen \in [Threads -> {END}]
    /\ mpc = "loop" /\ cursor = END /\ following = END
    /\ todo = {} /\ block = FALSE /\ retry = FALSE
    /\ kicked = FALSE /\ io = {} /\ timer = [t \in Tasks |-> "off"]
    /\ news = [t \in Tasks |-> FALSE] /\ polled = {} /\ events = 0

Spend == events < MaxEvents /\ events' = events + 1
At(h, label) == wpc[h] = label
Jump(h, label) == wpc' = [wpc EXCEPT ![h] = label]
Ret(h) == /\ wpc' = [wpc EXCEPT ![h] = "idle"]
          /\ target' = [target EXCEPT ![h] = END]
          /\ seen' = [seen EXCEPT ![h] = END]
InSelf(label) == mpc = label /\ At(Self, "idle")

-----------------------------------------------------------------------------
(* Slot::wake_by_ref and LocalWaker::wake_by_ref, on thread h.             *)

\* queued.swap(true): a task already queued needs nothing more.
SlotWake(h, t) ==
    /\ At(h, "idle")
    /\ queued' = [queued EXCEPT ![t] = TRUE]
    /\ IF queued[t] THEN UNCHANGED <<wpc, target>>
       ELSE Jump(h, "store") /\ target' = [target EXCEPT ![h] = t]
    /\ UNCHANGED <<seen, head, link, parent>>

\* The head is loaded and stored as the link.
StoreNext(h) ==
    /\ At(h, "store")
    /\ seen' = [seen EXCEPT ![h] = head]
    /\ link' = [link EXCEPT ![target[h]] = head]
    /\ Jump(h, IF mpc = "poll" /\ h = Self THEN "pushing" ELSE "cas")
    /\ UNCHANGED <<wakerVars, head, queued, parent, setVars, target, mpc,
                   walkVars, loopVars, kernelVars, ghostVars>>

\* compare_exchange on the head; a failure stores the head it found.  push
\* ends here, a wake goes on to the parent.
LinkHead(h) ==
    /\ wpc[h] \in {"cas", "pushing"}
    /\ IF head = seen[h]
       THEN /\ head' = target[h]
            /\ IF At(h, "pushing") THEN Ret(h)
               ELSE Jump(h, "parent") /\ UNCHANGED <<target, seen>>
            /\ UNCHANGED link
       ELSE /\ seen' = [seen EXCEPT ![h] = head]
            /\ link' = [link EXCEPT ![target[h]] = head]
            /\ UNCHANGED <<head, wpc, target>>
    /\ UNCHANGED <<wakerVars, queued, parent, setVars, mpc, walkVars, loopVars,
                   kernelVars, ghostVars>>

\* parent.wake(): AtomicWaker takes the waker out.
ParentWake(h) ==
    /\ At(h, "parent")
    /\ parent' = FALSE
    /\ IF parent THEN Jump(h, "ready") /\ UNCHANGED <<target, seen>> ELSE Ret(h)
    /\ UNCHANGED <<wakerVars, head, link, queued, setVars, mpc, walkVars,
                   loopVars, kernelVars, ghostVars>>

SetReady(h) ==
    /\ At(h, "ready")
    /\ ready' = TRUE
    /\ Jump(h, "look")
    /\ UNCHANGED <<waiting, chainVars, setVars, target, seen, mpc, walkVars,
                   loopVars, kernelVars, ghostVars>>

\* Slip: whoever wakes, the wait is not interrupted while a thread is in it.
LookAtWaitingAny(h) ==
    IF waiting THEN Ret(h) ELSE Jump(h, "kick") /\ UNCHANGED <<target, seen>>

\* waiting.load() == thread_key(): only Self ever stores its key.
LookAtWaiting(h) ==
    IF waiting /\ h = Self THEN Ret(h)
    ELSE Jump(h, "kick") /\ UNCHANGED <<target, seen>>

Look(h) ==
    /\ At(h, "look")
    /\ LookAtWaiting(h)
    /\ UNCHANGED <<wakerVars, chainVars, setVars, mpc, walkVars, loopVars,
                   kernelVars, ghostVars>>

\* handle.wake(): the poller's own event.
Kick(h) ==
    /\ At(h, "kick")
    /\ kicked' = TRUE
    /\ Ret(h)
    /\ UNCHANGED <<wakerVars, chainVars, setVars, mpc, walkVars, loopVars, io,
                   timer, ghostVars>>

WakeStep(h) ==
    StoreNext(h) \/ LinkHead(h) \/ ParentWake(h) \/ SetReady(h) \/ Look(h) \/ Kick(h)

\* Another thread wakes a task: a channel, a timer thread, a late clone of the
\* waker of a task that is done.
RemoteWake(h, t) ==
    /\ Spend /\ t \in polled
    /\ news' = [news EXCEPT ![t] = t \notin done]
    /\ SlotWake(h, t)
    /\ UNCHANGED <<wakerVars, setVars, mpc, walkVars, loopVars, kernelVars, polled>>

-----------------------------------------------------------------------------
(* TaskSet, on thread Self.                                                *)

\* push: the entry first, queued from the start, then the link.  The future
\* block_on_with drives owns the set and pushes before it polls it.
push(t) ==
    /\ InSelf("poll") /\ t \notin entries
    /\ entries' = entries \cup {t}
    /\ queued' = [queued EXCEPT ![t] = TRUE]
    /\ news' = [news EXCEPT ![t] = TRUE]
    /\ Jump(Self, "store") /\ target' = [target EXCEPT ![Self] = t]
    /\ UNCHANGED <<wakerVars, head, link, parent, done, seen, mpc, walkVars,
                   loopVars, kernelVars, polled, events>>

\* poll of a set that never had a task is Ready.
PollSet ==
    /\ InSelf("poll")
    /\ mpc' = IF entries = {} THEN "exit" ELSE "register"
    /\ UNCHANGED <<wakerVars, chainVars, setVars, slotVars, walkVars, loopVars,
                   kernelVars, ghostVars>>

Register ==
    /\ InSelf("register")
    /\ parent' = TRUE
    /\ mpc' = "take"
    /\ UNCHANGED <<wakerVars, head, link, queued, setVars, slotVars, walkVars,
                   loopVars, kernelVars, ghostVars>>

\* head.swap(END).
TakeChain ==
    /\ InSelf("take")
    /\ cursor' = head /\ head' = END
    /\ mpc' = "walk"
    /\ UNCHANGED <<wakerVars, link, queued, parent, setVars, slotVars,
                   following, loopVars, kernelVars, ghostVars>>

\* The link is read before the task is unqueued.
WalkNext ==
    /\ InSelf("walk") /\ cursor # END
    /\ following' = link[cursor]
    /\ mpc' = "clear"
    /\ UNCHANGED <<wakerVars, chainVars, setVars, slotVars, cursor, loopVars,
                   kernelVars, ghostVars>>

\* queued.store(false) before the poll; a done task is passed over.
Unqueue ==
    /\ InSelf("clear")
    /\ queued' = [queued EXCEPT ![cursor] = FALSE]
    /\ mpc' = "run"
    /\ UNCHANGED <<wakerVars, head, link, parent, setVars, slotVars, walkVars,
                   loopVars, kernelVars, ghostVars>>

PollTask ==
    /\ InSelf("run")
    /\ mpc' = "in"
    /\ news' = [news EXCEPT ![cursor] = FALSE]
    /\ polled' = polled \cup {cursor}
    /\ UNCHANGED <<wakerVars, chainVars, setVars, slotVars, walkVars, loopVars,
                   kernelVars, events>>

\* Inside its poll a task may wake itself or another one ...
WakeInside(t) ==
    /\ mpc = "in" /\ cursor \notin done /\ t \in polled /\ Spend
    /\ news' = [news EXCEPT ![t] = t \notin done]
    /\ SlotWake(Self, t)
    /\ UNCHANGED <<wakerVars, setVars, mpc, walkVars, loopVars, kernelVars, polled>>

\* ... and may arm a timer.
Arm ==
    /\ InSelf("in") /\ cursor \notin done /\ timer[cursor] = "off" /\ Spend
    /\ timer' = [timer EXCEPT ![cursor] = "set"]
    /\ UNCHANGED <<wakerVars, chainVars, setVars, slotVars, mpc, walkVars,
                   loopVars, kicked, io, news, polled>>

\* Slip: the link is read again once the task may have been queued anew.
AdvanceReads == link[cursor]

\* cursor = following, read before the task was unqueued.
Advance == following

\* The task is pending, or Ready and its future dropped; left counts the rest.
\* A dropped future's timer leaves the registry with it.
LeaveTask ==
    /\ InSelf("in")
    /\ \/ UNCHANGED <<done, news, timer>>
       \/ /\ cursor \notin done
          /\ done' = done \cup {cursor}
          /\ news' = [news EXCEPT ![cursor] = FALSE]
          /\ timer' = [timer EXCEPT ![cursor] = "off"]
    /\ cursor' = Advance /\ following' = END
    /\ mpc' = "walk"
    /\ UNCHANGED <<wakerVars, chainVars, entries, slotVars, loopVars, kicked,
                   io, polled, events>>

\* Pending, or Ready when left is 0; after a poller failure the loop starts
\* over instead of waiting.
WalkEnd ==
    /\ InSelf("walk") /\ cursor = END
    /\ mpc' = IF done = entries THEN "exit" ELSE IF retry THEN "loop" ELSE "wait"
    /\ retry' = FALSE
    /\ UNCHANGED <<wakerVars, chainVars, setVars, slotVars, walkVars, todo,
                   block, kernelVars, ghostVars>>

-----------------------------------------------------------------------------
(* block_on_with and poll_once_timeout, on thread Self.                    *)

SwapReady ==
    /\ InSelf("loop")
    /\ ready' = FALSE
    /\ mpc' = IF ready THEN "poll" ELSE "wait"
    /\ UNCHANGED <<waiting, chainVars, setVars, slotVars, walkVars, loopVars,
                   kernelVars, ghostVars>>

SetWaiting ==
    /\ InSelf("wait")
    /\ waiting' = TRUE
    /\ mpc' = "timers"
    /\ UNCHANGED <<ready, chainVars, setVars, slotVars, walkVars, loopVars,
                   kernelVars, ghostVars>>

\* Slip: a wait that fired timers blocks like any other.
TimeoutIgnoresWoke(due) == TRUE

\* `_ if woke => Some(0)`: the wait after timers fired does not block.
Timeout(due) == due = {}

\* service_timers takes the due timers out of the registry.
ServiceTimers ==
    /\ InSelf("timers")
    /\ LET due == {t \in Tasks : timer[t] = "due"} IN
       /\ todo' = due
       /\ timer' = [t \in Tasks |-> IF t \in due THEN "off" ELSE timer[t]]
       /\ block' = Timeout(due)
    /\ mpc' = "fire"
    /\ UNCHANGED <<wakerVars, chainVars, setVars, slotVars, walkVars, retry,
                   kicked, io, ghostVars>>

\* fire_due and dispatch call the wakers they collected one by one.
WakeCollected ==
    /\ mpc \in {"fire", "dispatch"}
    /\ \E t \in todo : todo' = todo \ {t} /\ SlotWake(Self, t)
    /\ UNCHANGED <<wakerVars, setVars, mpc, walkVars, block, retry, kernelVars, ghostVars>>

WakesMade ==
    /\ mpc \in {"fire", "dispatch"} /\ At(Self, "idle") /\ todo = {}
    /\ mpc' = IF mpc = "fire" THEN "kernel" ELSE "out"
    /\ UNCHANGED <<wakerVars, chainVars, setVars, slotVars, walkVars, loopVars,
                   kernelVars, ghostVars>>

\* Nothing ends the wait: no event, no zero timeout, no deadline reached.
Blocked == block /\ ~kicked /\ io = {} /\ \A t \in Tasks : timer[t] # "due"

\* poller.wait returns with the events, which dispatch turns into wakes.
Wait ==
    /\ InSelf("kernel") /\ ~Blocked
    /\ kicked' = FALSE
    /\ todo' = io /\ io' = {}
    /\ mpc' = "dispatch"
    /\ UNCHANGED <<wakerVars, chainVars, setVars, slotVars, walkVars, block,
                   retry, timer, ghostVars>>

\* poller.wait fails: nothing is dispatched and the future is polled anyway.
WaitFails ==
    /\ InSelf("kernel") /\ Spend
    /\ retry' = TRUE
    /\ mpc' = "out"
    /\ UNCHANGED <<wakerVars, chainVars, setVars, slotVars, walkVars, todo,
                   block, kernelVars, news, polled>>

ClearWaiting ==
    /\ InSelf("out")
    /\ waiting' = FALSE
    /\ mpc' = IF retry THEN "poll" ELSE "loop"
    /\ UNCHANGED <<ready, chainVars, setVars, slotVars, walkVars, loopVars,
                   kernelVars, ghostVars>>

-----------------------------------------------------------------------------
(* The world: a descriptor a task waits for becomes ready, time passes.    *)

IoReady(t) ==
    /\ Spend /\ t \in polled \ done
    /\ io' = io \cup {t} /\ news' = [news EXCEPT ![t] = TRUE]
    /\ UNCHANGED <<wakerVars, chainVars, setVars, slotVars, mpc, walkVars,
                   loopVars, kicked, timer, polled>>

TimerDue(t) ==
    /\ timer[t] = "set"
    /\ timer' = [timer EXCEPT ![t] = "due"] /\ news' = [news EXCEPT ![t] = TRUE]
    /\ UNCHANGED <<wakerVars, chainVars, setVars, slotVars, mpc, walkVars,
                   loopVars, kicked, io, polled, events>>

Driver ==
    \/ WakeStep(Self) \/ PollSet \/ Register \/ TakeChain \/ WalkNext
    \/ Unqueue \/ PollTask \/ LeaveTask \/ WalkEnd \/ SwapReady \/ SetWaiting
    \/ ServiceTimers \/ WakeCollected \/ WakesMade \/ Wait \/ ClearWaiting

LocalNext ==
    \/ Driver \/ Arm \/ WaitFails
    \/ \E t \in Tasks : push(t) \/ WakeInside(t) \/ IoReady(t) \/ TimerDue(t)
    \/ \E h \in Remote : WakeStep(h) \/ \E t \in Tasks : RemoteWake(h, t)

LocalSpec == LocalInit /\ [][LocalNext]_localVars

\* Threads run on, and time passes.
LocalFairness ==
    /\ WF_localVars(Driver)
    /\ \A h \in Remote : WF_localVars(WakeStep(h))
    /\ \A t \in Tasks : WF_localVars(TimerDue(t))

-----------------------------------------------------------------------------
(* Properties.                                                             *)

\* The thread never sleeps in the kernel on a wake: while it is blocked, a
\* task that is queued or a ready flag that is set has another thread in the
\* middle of the wake that will interrupt it (the store and load order of
\* LocalWaker::wake_by_ref and block_on_with, poll_once's zero timeout).
NoWakeSleptThrough ==
    mpc = "kernel" /\ Blocked /\ (ready \/ \E t \in Tasks : queued[t]) =>
        \E h \in Remote : ~At(h, "idle")

\* The chain from i under the links l: the least set of tasks that holds i and
\* what the links of its members lead to.
Closed(l, S) == \A t \in S : l[t] \in S \cup {END}
Reach(l, i) ==
    {t \in Tasks : i \in Tasks /\ \A S \in SUBSET Tasks : i \in S /\ Closed(l, S) => t \in S}
ChainFrom(i) == Reach(link, i)

\* What is left of the chain TaskSet::poll took.
Walked == IF mpc = "walk" THEN ChainFrom(cursor)
          ELSE IF mpc = "clear" THEN {cursor} \cup ChainFrom(following)
          ELSE IF mpc \in {"run", "in"} THEN ChainFrom(following)
          ELSE {}

\* The tasks that a thread is about to link.
Linking == {target[h] : h \in {g \in Threads : wpc[g] \in {"store", "cas", "pushing"}}}

\* A task is queued exactly while one chain holds it or a thread is linking
\* it, so it is neither polled twice for a wake nor lost by the reuse of its
\* link (Slot::wake_by_ref against the walk of TaskSet::poll).
ChainExact ==
    /\ LocalTypeOK
    /\ {t \in Tasks : queued[t]} = Walked \cup ChainFrom(head) \cup Linking
    /\ Walked \cap ChainFrom(head) = {}
    /\ (Walked \cup ChainFrom(head)) \cap Linking = {}

\* Whatever a task was woken for, on any thread, it is polled to see, or it
\* or the whole set is done (block_on_with and TaskSet::poll).
EveryWakeIsSeen == \A t \in Tasks : news[t] ~> ~news[t]
=============================================================================
