------------------------------- MODULE Timers -------------------------------
(***************************************************************************)
(* Timers (time.rs) and what drives them: the dedicated timer thread       *)
(* (time.rs, mod driver) and the reactor's loop (service_timers and        *)
(* timer_armed of reactor/driver.rs).  Both drain the one registry, under  *)
(* its lock PENDING; HOST says which of them an arming task tells.         *)
(*                                                                         *)
(* The registry is the set of armed sleeps; TimerHeap keeps it in an       *)
(* indexed heap, whose order this module takes as given.  Each sleep is    *)
(* polled by a task of its own, which may come with another waker on every *)
(* poll.  Time is a clock that ticks up to a horizon; a timed wait may end *)
(* early, as the code must expect, and ends once its deadline is past.     *)
(***************************************************************************)
EXTENDS Naturals, FiniteSets

CONSTANTS Sleeps,      \* the Sleep futures
          Wakers,      \* the wakers a task may be polled with
          NoWaker,
          Horizon      \* bound on the clock and on the deadlines

ASSUME TimersAssumption ==
    /\ IsFiniteSet(Sleeps)
    /\ NoWaker \notin Wakers
    /\ Horizon \in Nat \ {0}

Deadlines == 1..Horizon
NO_DEADLINE == Horizon + 1

Drivers == {"thread", "reactor"}

VARIABLES now, host,
          pending,                    \* PENDING: the armed sleeps
          deadline, fired, waker,     \* per sleep: Sleep.deadline, its Slot
          pc, mine, asleep,           \* per sleep: its task, the waker of the
                                      \* poll under way, whether it sleeps
          nudged,                     \* NUDGE: the dedicated thread's flag
          next_deadline, eventfd,     \* the reactor's cache and its wake event
          dpc, dnow, popped, due,     \* per driver: where it is, its clock
                                      \* reading, fire_due's entry and wakers
          next                        \* the deadline it found or waits for

registryVars == <<pending, fired, waker>>
taskVars == <<deadline, pc, mine, asleep>>
wakeVars == <<nudged, next_deadline, eventfd>>
driverVars == <<dpc, dnow, popped, due, next>>
vars == <<now, host, registryVars, taskVars, wakeVars, driverVars>>

\* Sleep, by its task: new: not polled; arm: about to be armed; nudge, signal:
\* it is the earliest and the driver is being told; idle: the poll said
\* Pending; store, again: in a later poll; gone: Ready, or dropped.
\* Driver: lock, drain the registry, take the waker of a popped entry, wake;
\* the reactor looks at its cache and swaps it before, publishes and loads it
\* after; the thread reads the clock before and checks its flag after.  Then it is waiting.
TypeOK ==
    /\ now \in 0..Horizon
    /\ host \in {"unset", "dedicated", "reactor"}
    /\ pending \in SUBSET Sleeps
    /\ deadline \in [Sleeps -> Deadlines]
    /\ fired \in [Sleeps -> BOOLEAN]
    /\ waker \in [Sleeps -> Wakers \cup {NoWaker}]
    /\ pc \in [Sleeps -> {"new", "arm", "nudge", "signal", "idle", "store", "again", "gone"}]
    /\ mine \in [Sleeps -> Wakers \cup {NoWaker}]
    /\ asleep \in [Sleeps -> BOOLEAN]
    /\ nudged \in BOOLEAN /\ eventfd \in BOOLEAN
    /\ next_deadline \in Deadlines \cup {NO_DEADLINE}
    /\ dpc \in [Drivers -> {"absent", "clock", "look", "swap", "lock", "drain", "take", "wake",
                            "publish", "load", "check", "waiting", "woken"}]
    /\ dnow \in [Drivers -> 0..Horizon]
    /\ popped \in [Drivers -> SUBSET Sleeps]
    /\ due \in [Drivers -> SUBSET (Sleeps \X Wakers)]
    /\ next \in [Drivers -> Deadlines \cup {NO_DEADLINE}]

\* sleep, sleep_until: the deadlines are fixed, nothing is armed yet.
Init ==
    /\ now = 0 /\ host = "unset" /\ pending = {}
    /\ deadline \in [Sleeps -> Deadlines]
    /\ fired = [s \in Sleeps |-> FALSE]
    /\ waker = [s \in Sleeps |-> NoWaker]
    /\ pc = [s \in Sleeps |-> "new"]
    /\ mine = [s \in Sleeps |-> NoWaker]
    /\ asleep = [s \in Sleeps |-> FALSE]
    /\ nudged = FALSE /\ next_deadline = NO_DEADLINE /\ eventfd = FALSE
    /\ dpc = [d \in Drivers |-> IF d = "reactor" THEN "look" ELSE "absent"]
    /\ dnow = [d \in Drivers |-> 0]
    /\ popped = [d \in Drivers |-> {}]
    /\ due = [d \in Drivers |-> {}]
    /\ next = [d \in Drivers |-> NO_DEADLINE]

Least(m, n) == IF m < n THEN m ELSE n

\* peek: the deadline at the top of the heap.
Peek == IF pending = {} THEN NO_DEADLINE
        ELSE CHOOSE t \in Deadlines : /\ \E s \in pending : deadline[s] = t
                                      /\ \A s \in pending : t <= deadline[s]

\* Nobody holds the registry's lock.
Free == \A d \in Drivers : dpc[d] \notin {"drain", "take"}

Tick ==
    /\ now < Horizon
    /\ now' = now + 1
    /\ UNCHANGED <<host, registryVars, taskVars, wakeVars, driverVars>>

\* set_timer_reactor, refused once a backend is selected.
bind_reactor ==
    /\ host = "unset"
    /\ host' = "reactor"
    /\ UNCHANGED <<now, registryVars, taskVars, wakeVars, driverVars>>

-----------------------------------------------------------------------------
(* Sleep                                                                   *)

Goto(s, from, to) == pc[s] = from /\ pc' = [pc EXCEPT ![s] = to]

\* The first poll: Ready without arming if the deadline is past.
PollNew(s, w) ==
    /\ Goto(s, "new", IF now >= deadline[s] THEN "gone" ELSE "arm")
    /\ mine' = [mine EXCEPT ![s] = w]
    /\ UNCHANGED <<now, host, registryVars, deadline, asleep, wakeVars, driverVars>>

\* peek().is_none_or(|entry| deadline < entry.deadline)
Earliest(s) == deadline[s] < Peek

\* The slot is made with the waker and pushed; the earliest is announced.
arm(s) ==
    /\ Free
    /\ Goto(s, "arm", IF Earliest(s) THEN "nudge" ELSE "idle")
    /\ pending' = pending \cup {s}
    /\ waker' = [waker EXCEPT ![s] = mine[s]]
    /\ asleep' = [asleep EXCEPT ![s] = TRUE]
    /\ UNCHANGED <<now, host, fired, deadline, mine, wakeVars, driverVars>>

\* The first nudge with no reactor bound selects and starts the thread.
start(s) ==
    /\ pc[s] = "nudge" /\ host = "unset"
    /\ host' = "dedicated"
    /\ dpc' = [dpc EXCEPT !["thread"] = "clock"]
    /\ UNCHANGED <<now, registryVars, taskVars, wakeVars, dnow, popped, due, next>>

\* nudge, first half: the thread's flag is set, or the reactor's cached
\* deadline lowered (timer_armed, whose loop takes effect in one
\* compare-exchange).
nudge(s) ==
    /\ \/ /\ host = "dedicated"
          /\ Goto(s, "nudge", "signal")
          /\ nudged' = TRUE
          /\ UNCHANGED next_deadline
       \/ /\ host = "reactor"
          /\ Goto(s, "nudge", IF next_deadline <= deadline[s] THEN "idle" ELSE "signal")
          /\ next_deadline' = Least(next_deadline, deadline[s])
          /\ UNCHANGED nudged
    /\ UNCHANGED <<now, host, registryVars, deadline, mine, asleep, eventfd, driverVars>>

\* nudge, second half: notify_one on the condition variable, or the poller's
\* wake event.
Signal(s) ==
    /\ Goto(s, "signal", "idle")
    /\ IF host = "reactor"
       THEN eventfd' = TRUE /\ UNCHANGED dpc
       ELSE /\ dpc' = [dpc EXCEPT !["thread"] = IF @ = "waiting" THEN "woken" ELSE @]
            /\ UNCHANGED eventfd
    /\ UNCHANGED <<now, host, registryVars, deadline, mine, asleep, nudged, next_deadline, dnow,
                   popped, due, next>>

\* A later poll: look at fired, store the waker, look again.
Poll(s, w) ==
    /\ Goto(s, "idle", IF fired[s] THEN "gone" ELSE "store")
    /\ mine' = [mine EXCEPT ![s] = w]
    /\ asleep' = [asleep EXCEPT ![s] = FALSE]
    /\ UNCHANGED <<now, host, registryVars, deadline, wakeVars, driverVars>>

PollStore(s) ==
    /\ Goto(s, "store", "again")
    /\ waker' = [waker EXCEPT ![s] = mine[s]]
    /\ UNCHANGED <<now, host, pending, fired, deadline, mine, asleep, wakeVars, driverVars>>

PollAgain(s) ==
    /\ Goto(s, "again", IF fired[s] THEN "gone" ELSE "idle")
    /\ asleep' = [asleep EXCEPT ![s] = ~fired[s]]
    /\ UNCHANGED <<now, host, registryVars, deadline, mine, wakeVars, driverVars>>

\* Sleep::drop, of one that was polled, before or after it fired.
drop(s) ==
    /\ Free
    /\ Goto(s, "idle", "gone")
    /\ pending' = pending \ {s}
    /\ waker' = [waker EXCEPT ![s] = NoWaker]
    /\ asleep' = [asleep EXCEPT ![s] = FALSE]
    /\ UNCHANGED <<now, host, fired, deadline, mine, wakeVars, driverVars>>

-----------------------------------------------------------------------------
(* fire_due, by either driver                                              *)

DGoto(d, from, to) == dpc[d] = from /\ dpc' = [dpc EXCEPT ![d] = to]

Lock(d) ==
    /\ Free
    /\ DGoto(d, "lock", "drain")
    /\ UNCHANGED <<now, host, registryVars, taskVars, wakeVars, dnow, popped, due, next>>

\* Slip: an entry is due one tick early.
DueEarly(t, clock) == t <= clock + 1

Due(t, clock) == t <= clock

\* The earliest entry, if it is due, leaves the heap and is marked fired.
Pop(d, s) ==
    /\ DGoto(d, "drain", "take")
    /\ s \in pending /\ deadline[s] = Peek /\ Due(Peek, dnow[d])
    /\ pending' = pending \ {s}
    /\ fired' = [fired EXCEPT ![s] = TRUE]
    /\ popped' = [popped EXCEPT ![d] = {s}]
    /\ UNCHANGED <<now, host, waker, taskVars, wakeVars, dnow, due, next>>

\* Slip: the waker is taken and dropped.
TakeDrops(d) ==
    /\ DGoto(d, "take", "drain")
    /\ waker' = [s \in Sleeps |-> IF s \in popped[d] THEN NoWaker ELSE waker[s]]
    /\ popped' = [popped EXCEPT ![d] = {}]
    /\ UNCHANGED <<now, host, pending, fired, taskVars, wakeVars, dnow, due, next>>

Take(d) ==
    /\ DGoto(d, "take", "drain")
    /\ due' = [due EXCEPT ![d] =
                 @ \cup {<<s, waker[s]>> : s \in {t \in popped[d] : waker[t] # NoWaker}}]
    /\ waker' = [s \in Sleeps |-> IF s \in popped[d] THEN NoWaker ELSE waker[s]]
    /\ popped' = [popped EXCEPT ![d] = {}]
    /\ UNCHANGED <<now, host, pending, fired, taskVars, wakeVars, dnow, next>>

\* The wakers are invoked after the lock is released; then the driver goes on.
Waking(d, rest) ==
    IF rest # {} THEN "wake" ELSE IF d = "thread" THEN "check" ELSE "publish"

Unlock(d) ==
    /\ DGoto(d, "drain", Waking(d, due[d]))
    /\ ~Due(Peek, dnow[d])
    /\ next' = [next EXCEPT ![d] = Peek]
    /\ dnow' = [dnow EXCEPT ![d] = 0]
    /\ UNCHANGED <<now, host, registryVars, taskVars, wakeVars, popped, due>>

Wake(d, s, w) ==
    /\ <<s, w>> \in due[d]
    /\ due' = [due EXCEPT ![d] = @ \ {<<s, w>>}]
    /\ DGoto(d, "wake", Waking(d, due'[d]))
    /\ asleep' = [asleep EXCEPT ![s] = @ /\ mine[s] # w]
    /\ UNCHANGED <<now, host, registryVars, deadline, pc, mine, wakeVars, dnow, popped, next>>

\* The wait for next is over: a timed one once the deadline is past.
TimedOut(d) == dpc[d] = "waiting" /\ next[d] <= now

-----------------------------------------------------------------------------
(* The dedicated thread (run)                                              *)

\* now_ns, before fire_due takes the lock.
ReadClock ==
    /\ DGoto("thread", "clock", "lock")
    /\ dnow' = [dnow EXCEPT !["thread"] = now]
    /\ UNCHANGED <<now, host, registryVars, taskVars, wakeVars, popped, due, next>>

\* Under the flag's lock: go round again if nudged or late, else wait.
Check ==
    /\ DGoto("thread", "check", IF nudged \/ next["thread"] <= now THEN "clock" ELSE "waiting")
    /\ nudged' = FALSE
    /\ UNCHANGED <<now, host, registryVars, taskVars, next_deadline, eventfd, dnow, popped, due,
                   next>>

\* wait or wait_timeout ends: signalled, timed out, or for no reason.
ThreadWaitEnds ==
    /\ DGoto("thread", "waiting", "woken")
    /\ UNCHANGED <<now, host, registryVars, taskVars, wakeVars, dnow, popped, due, next>>

\* It returns with the flag's lock, and the flag is cleared.
ThreadWoken ==
    /\ DGoto("thread", "woken", "clock")
    /\ nudged' = FALSE
    /\ next' = [next EXCEPT !["thread"] = NO_DEADLINE]
    /\ UNCHANGED <<now, host, registryVars, taskVars, next_deadline, eventfd, dnow, popped, due>>

-----------------------------------------------------------------------------
(* The reactor's loop (run, service_timers)                                *)

\* The registry is asked only when the cached deadline is due, or none is
\* cached.
LookAtCache ==
    /\ LET wait == next_deadline # NO_DEADLINE /\ next_deadline > now
       IN  /\ DGoto("reactor", "look", IF wait THEN "waiting" ELSE "swap")
           /\ next' = [next EXCEPT !["reactor"] = IF wait THEN next_deadline ELSE NO_DEADLINE]
           /\ dnow' = [dnow EXCEPT !["reactor"] = IF wait THEN 0 ELSE now]
    /\ UNCHANGED <<now, host, registryVars, taskVars, wakeVars, popped, due>>

SwapCache ==
    /\ DGoto("reactor", "swap", "lock")
    /\ next_deadline' = NO_DEADLINE
    /\ UNCHANGED <<now, host, registryVars, taskVars, nudged, eventfd, dnow, popped, due, next>>

\* Slip: the cache is overwritten.
PublishStores ==
    /\ DGoto("reactor", "publish", "load")
    /\ next_deadline' = next["reactor"]
    /\ UNCHANGED <<now, host, registryVars, taskVars, nudged, eventfd, dnow, popped, due, next>>

\* fetch_min: a deadline armed meanwhile survives.
Publish ==
    /\ DGoto("reactor", "publish", "load")
    /\ next_deadline' = Least(next_deadline, next["reactor"])
    /\ UNCHANGED <<now, host, registryVars, taskVars, nudged, eventfd, dnow, popped, due, next>>

Load ==
    /\ DGoto("reactor", "load", "waiting")
    /\ next' = [next EXCEPT !["reactor"] = next_deadline]
    /\ UNCHANGED <<now, host, registryVars, taskVars, wakeVars, dnow, popped, due>>

\* Poller::wait returns: the wake event, the timeout, or a descriptor's event.
ReactorWaitEnds ==
    /\ DGoto("reactor", "waiting", "look")
    /\ eventfd' = FALSE
    /\ next' = [next EXCEPT !["reactor"] = NO_DEADLINE]
    /\ UNCHANGED <<now, host, registryVars, taskVars, nudged, next_deadline, dnow, popped, due>>

-----------------------------------------------------------------------------
\* What a driver's thread does by itself.
Drive(d) ==
    \/ Lock(d) \/ Take(d) \/ Unlock(d)
    \/ \E s \in Sleeps : Pop(d, s) \/ \E w \in Wakers : Wake(d, s, w)
    \/ d = "thread" /\ (ReadClock \/ Check \/ ThreadWoken)
    \/ d = "reactor" /\ (LookAtCache \/ SwapCache \/ Publish \/ Load)

Step(s) ==
    arm(s) \/ start(s) \/ nudge(s) \/ Signal(s) \/ PollStore(s) \/ PollAgain(s)

Next ==
    \/ Tick \/ bind_reactor \/ ThreadWaitEnds \/ ReactorWaitEnds
    \/ \E d \in Drivers : Drive(d)
    \/ \E s \in Sleeps :
          \/ \E w \in Wakers : PollNew(s, w) \/ Poll(s, w)
          \/ Step(s) \/ drop(s)

Spec == Init /\ [][Next]_vars

\* Time passes, the driver threads run, a wait whose reason has come ends, a
\* call under way returns, and a task that is not asleep polls its sleep again.
Fairness ==
    /\ WF_vars(Tick)
    /\ \A d \in Drivers : WF_vars(Drive(d))
    /\ WF_vars(TimedOut("thread") /\ ThreadWaitEnds)
    /\ WF_vars((TimedOut("reactor") \/ eventfd) /\ ReactorWaitEnds)
    /\ \A s \in Sleeps :
          /\ WF_vars(Step(s))
          /\ WF_vars(~asleep[s] /\ \E w \in Wakers : Poll(s, w))

FairSpec == Spec /\ Fairness

-----------------------------------------------------------------------------
(* Properties                                                              *)

\* A sleep never fires before its deadline.
NeverEarly ==
    \A s \in Sleeps : fired[s] => now >= deadline[s]

\* A sleeping task's current waker is in its slot with the sleep armed, or a
\* driver has taken it and is about to invoke it, whenever the timer fired
\* between the steps of a poll.
SleeperReachable ==
    \A s \in Sleeps :
        asleep[s] =>
            \/ s \in pending /\ waker[s] = mine[s]
            \/ \E d \in Drivers : \/ s \in popped[d] /\ waker[s] = mine[s]
                                  \/ <<s, mine[s]>> \in due[d]

Told == IF host = "reactor" THEN "reactor" ELSE "thread"

\* The driver never sleeps past a timer: when the one that arming tasks tell
\* is waiting and nobody is about to rouse it, the deadline it waits for is
\* not later than any armed one, however arming, dropping and draining
\* interleaved.
NoOversleep ==
    dpc[Told] = "waiting" /\ ~(Told = "reactor" /\ eventfd)
        /\ (\A s \in Sleeps : pc[s] \notin {"nudge", "signal"})
      => \A s \in pending : next[Told] <= deadline[s]

\* No sleep is forgotten: its waker stays within reach of a driver, and the
\* driver in charge does not sleep past it.
SleepIsSafe == TypeOK /\ SleeperReachable /\ NoOversleep

\* Every armed sleep ends: it fires and its task sees it, or it is dropped.
EverySleepEnds ==
    \A s \in Sleeps : s \in pending ~> pc[s] = "gone"
=============================================================================
