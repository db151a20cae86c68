-------------------------------- MODULE Tasks --------------------------------
(***************************************************************************)
(* Tasks on the pools (task.rs, lib.rs, runtime.rs, yield_now.rs) and the  *)
(* thread that blocks on one (block_on.rs).  A wake is handed to a worker  *)
(* of the task's own pool where the waking thread knows one: it is that    *)
(* worker (CURRENT), its host says so (WorkerContext), or the reactor      *)
(* routes it there (ROUTE).                                                *)
(*                                                                         *)
(* External: async_task, which keeps one Runnable per task and wakes the   *)
(* awaiter when the task ends, and the queues of the pool, where any       *)
(* worker of a pool finds a job and whose destruction drops the jobs left. *)
(* There are two pools: the shared one, which is never destroyed, and one  *)
(* with an owner.  The wakes of the blocked thread are made in two steps.  *)
(***************************************************************************)
EXTENDS Integers

CONSTANTS Spawned,       \* the tasks
          SharedWidth,   \* workers of the shared pool
          OwnWidth,      \* workers of the owned pool
          MaxIndex,      \* bound on registration indices and host hints
          MaxWakes       \* bound on wakes of tasks

ASSUME TasksAssumption ==
    /\ SharedWidth \in Nat \ {0} /\ OwnWidth \in Nat \ {0}
    /\ MaxIndex \in Nat /\ MaxWakes \in Nat

Pools == {"shared", "own"}
NoWorker == -1
Injector == -1
NoTask == "none"

VARIABLES pools,              \* the pools that exist
          home, hosted,       \* per task: its pool, whether it has a context
          task, place,        \* its state; its queue, or the worker running it
          rewake, closing,    \* woken while it runs; cancel was called
          awaiter, handle,    \* whether its awaiter is registered; JoinHandle
          joiner, joining,    \* block_on, and the task whose handle it polls
          hostwait,           \* block_on_with_host instead of block_on
          signalled, permit,  \* Signal.woken and the permit of park
          waking,             \* per task: the wake of its awaiter under way
          wakes

taskVars == <<task, place, rewake, closing>>
joinVars == <<joiner, joining, signalled, permit>>
tasksVars == <<pools, home, hosted, taskVars, awaiter, handle, joinVars,
               hostwait, waking, wakes>>

Width(p) == IF p = "shared" THEN SharedWidth ELSE OwnWidth

TasksTypeOK ==
    /\ pools \subseteq Pools /\ home \in [Spawned -> Pools]
    /\ task \in [Spawned -> {"unborn", "queued", "running", "idle", "done",
                             "panicked", "gone"}]
    /\ place \in [Spawned -> Int]
    /\ handle \in [Spawned -> {"none", "held", "detached", "cancelled", "joined"}]
    /\ joiner \in {"idle", "poll", "swap", "park"}
    /\ waking \in [Spawned -> {"no", "store", "unpark"}]

TasksInit ==
    /\ pools = {"own"}
    /\ home \in [Spawned -> Pools] /\ hosted \in [Spawned -> BOOLEAN]
    /\ task = [t \in Spawned |-> "unborn"]
    /\ place = [t \in Spawned |-> NoWorker]
    /\ rewake = [t \in Spawned |-> FALSE] /\ closing = [t \in Spawned |-> FALSE]
    /\ awaiter = [t \in Spawned |-> FALSE] /\ handle = [t \in Spawned |-> "none"]
    /\ joiner = "idle" /\ joining = NoTask /\ hostwait \in BOOLEAN
    /\ signalled = FALSE /\ permit = FALSE
    /\ waking = [t \in Spawned |-> "no"]
    /\ wakes = 0

Ended(t) == task[t] \in {"done", "panicked", "gone"}

-----------------------------------------------------------------------------
(* The schedule closure of spawn_on_at, called with a Runnable on some     *)
(* thread: current is the worker that thread is marked with, route the     *)
(* worker its wakes are routed to.                                         *)

Off == [pool |-> "none", worker |-> NoWorker]

\* The worker the context names, the marked one if it is of this pool, or the
\* routed one, if the pool has a worker with that number.
worker_for(t, current, route, hint) ==
    LET w == IF hosted[t] THEN hint
             ELSE IF current.pool = home[t] THEN current.worker ELSE route
    IN  IF w \in 0..Width(home[t]) - 1 THEN w ELSE Injector

\* async_task wakes the awaiter of a task that ended, if one is registered.
NotifyAwaiter(t) ==
    /\ awaiter' = [awaiter EXCEPT ![t] = FALSE]
    /\ waking' = [waking EXCEPT ![t] = IF awaiter[t] THEN "store" ELSE @]

Finish(t, state) ==
    /\ task' = [task EXCEPT ![t] = state]
    /\ place' = [place EXCEPT ![t] = NoWorker]
    /\ rewake' = [rewake EXCEPT ![t] = FALSE]
    /\ NotifyAwaiter(t)

\* A pool that is gone cannot be upgraded: the Runnable is dropped, which
\* cancels the task.
Schedule(t, current, route) ==
    IF home[t] \in pools
    THEN \E hint \in NoWorker..MaxIndex :
           /\ task' = [task EXCEPT ![t] = "queued"]
           /\ place' = [place EXCEPT ![t] = worker_for(t, current, route, hint)]
           /\ rewake' = [rewake EXCEPT ![t] = FALSE]
           /\ UNCHANGED <<awaiter, waking>>
    ELSE Finish(t, "gone")

\* The threads wakes come from: a worker inside a task, the reactor, which
\* routes by index if there is a shared pool, or any other.
Marks == {Off} \cup {[pool |-> home[u], worker |-> place[u]] :
                        u \in {s \in Spawned : task[s] = "running"}}

\* route_reactor_wake.
Routes == {NoWorker} \cup
          IF "shared" \in pools THEN {i % SharedWidth : i \in 0..MaxIndex} ELSE {}

Sites == {<<m, NoWorker>> : m \in Marks} \cup {<<Off, r>> : r \in Routes}

-----------------------------------------------------------------------------
(* Spawning, running and ending a task.                                    *)

\* background and install_background: OnceLock lets one of them start it.
StartShared ==
    /\ "shared" \notin pools
    /\ pools' = pools \cup {"shared"}
    /\ UNCHANGED <<home, hosted, taskVars, awaiter, handle, joinVars, hostwait,
                   waking, wakes>>

\* spawn_on, and spawn_on_at with a worker for the first queue, which
\* Owner::dispatch_to has checked.
Spawn(t) ==
    /\ task[t] = "unborn" /\ home[t] \in pools
    /\ handle' = [handle EXCEPT ![t] = "held"]
    /\ \/ \E s \in Sites : Schedule(t, s[1], s[2])
       \/ \E w \in 0..Width(home[t]) - 1 :
             /\ task' = [task EXCEPT ![t] = "queued"]
             /\ place' = [place EXCEPT ![t] = w]
             /\ UNCHANGED <<rewake, awaiter, waking>>
    /\ UNCHANGED <<pools, home, hosted, closing, joinVars, hostwait, wakes>>

\* A worker of the pool takes the job, its own or a stolen one.  A task that
\* was cancelled is not polled, its future is dropped.
RunJob(t, w) ==
    /\ task[t] = "queued" /\ home[t] \in pools
    /\ \A u \in Spawned : task[u] = "running" => <<home[u], place[u]>> # <<home[t], w>>
    /\ IF closing[t] THEN Finish(t, "gone")
       ELSE /\ task' = [task EXCEPT ![t] = "running"]
            /\ place' = [place EXCEPT ![t] = w]
            /\ UNCHANGED <<rewake, awaiter, waking>>
    /\ UNCHANGED <<pools, home, hosted, closing, handle, joinVars, hostwait, wakes>>

\* The poll is pending; woken meanwhile, the task is scheduled by its runner.
PollPending(t) ==
    /\ task[t] = "running"
    /\ IF closing[t] THEN Finish(t, "gone")
       ELSE IF rewake[t]
       THEN Schedule(t, [pool |-> home[t], worker |-> place[t]], NoWorker)
       ELSE /\ task' = [task EXCEPT ![t] = "idle"]
            /\ place' = [place EXCEPT ![t] = NoWorker]
            /\ UNCHANGED <<rewake, awaiter, waking>>
    /\ UNCHANGED <<pools, home, hosted, closing, handle, joinVars, hostwait, wakes>>

\* The future is ready, or panics, which is kept for the handle.
PollReady(t) ==
    /\ task[t] = "running"
    /\ Finish(t, "done") \/ Finish(t, "panicked")
    /\ UNCHANGED <<pools, home, hosted, closing, handle, joinVars, hostwait, wakes>>

\* Any clone of the task's waker, on any thread, its own poll included, which
\* is what yield_now does.
WakeTask(t) ==
    /\ task[t] # "unborn" /\ wakes < MaxWakes
    /\ wakes' = wakes + 1
    /\ CASE task[t] = "idle" -> \E s \in Sites : Schedule(t, s[1], s[2])
         [] task[t] = "running" ->
              rewake' = [rewake EXCEPT ![t] = TRUE] /\ UNCHANGED <<task, place, awaiter, waking>>
         [] OTHER -> UNCHANGED <<task, place, rewake, awaiter, waking>>
    /\ UNCHANGED <<pools, home, hosted, closing, handle, joinVars, hostwait>>

\* The owner shuts its pool down: no worker runs, what is queued is dropped.
DestroyOwn ==
    /\ "own" \in pools
    /\ \A t \in Spawned : home[t] = "own" => task[t] # "running"
    /\ pools' = pools \ {"own"}
    /\ UNCHANGED <<home, hosted, taskVars, awaiter, handle, joinVars, hostwait,
                   waking, wakes>>

\* poll_once with Act::Drop.
DropJob(t) ==
    /\ task[t] = "queued" /\ home[t] \notin pools
    /\ Finish(t, "gone")
    /\ UNCHANGED <<pools, home, hosted, closing, handle, joinVars, hostwait, wakes>>

-----------------------------------------------------------------------------
(* JoinHandle.                                                             *)

\* Dropping an async_task::Task asks for its end; an idle one is scheduled
\* once more for it.
CloseTask(t) ==
    /\ closing' = [closing EXCEPT ![t] = ~Ended(t)]
    /\ IF task[t] = "idle" THEN \E s \in Sites : Schedule(t, s[1], s[2])
       ELSE UNCHANGED <<task, place, rewake, awaiter, waking>>

Cancel(t) ==
    /\ handle[t] = "held" /\ joining # t
    /\ handle' = [handle EXCEPT ![t] = "cancelled"]
    /\ CloseTask(t)
    /\ UNCHANGED <<pools, home, hosted, joinVars, hostwait, wakes>>

\* Slip: the handle's drop is the drop of the task in it.
DetachCloses(t) == CloseTask(t)

\* JoinHandle::drop detaches.
Detach(t) == UNCHANGED <<taskVars, awaiter, waking>>

DropHandle(t) ==
    /\ handle[t] = "held" /\ joining # t
    /\ handle' = [handle EXCEPT ![t] = "detached"]
    /\ Detach(t)
    /\ UNCHANGED <<pools, home, hosted, joinVars, hostwait, wakes>>

-----------------------------------------------------------------------------
(* block_on and block_on_with_host, on a thread outside the pools.         *)

BlockOn(t) ==
    /\ joiner = "idle" /\ handle[t] = "held"
    /\ joiner' = "poll" /\ joining' = t
    /\ signalled' = FALSE
    /\ UNCHANGED <<pools, home, hosted, taskVars, awaiter, handle, hostwait,
                   permit, waking, wakes>>

\* The handle is ready, or its waker is registered.
PollHandle ==
    /\ joiner = "poll"
    /\ IF Ended(joining)
       THEN /\ joiner' = "idle" /\ joining' = NoTask
            /\ handle' = [handle EXCEPT ![joining] = "joined"]
            /\ UNCHANGED awaiter
       ELSE /\ joiner' = IF hostwait THEN "park" ELSE "swap"
            /\ awaiter' = [awaiter EXCEPT ![joining] = TRUE]
            /\ UNCHANGED <<joining, handle>>
    /\ UNCHANGED <<pools, home, hosted, taskVars, hostwait, signalled, permit,
                   waking, wakes>>

\* woken.swap(false) in Signal::wait.
SwapSignal ==
    /\ joiner = "swap"
    /\ signalled' = FALSE
    /\ joiner' = IF signalled THEN "poll" ELSE "park"
    /\ UNCHANGED <<pools, home, hosted, taskVars, awaiter, handle, joining,
                   hostwait, permit, waking, wakes>>

\* park returns with the permit, or for no reason.
Unparked(spurious) ==
    /\ joiner = "park" /\ (permit \/ spurious)
    /\ permit' = FALSE
    /\ joiner' = IF hostwait THEN "poll" ELSE "swap"
    /\ UNCHANGED <<pools, home, hosted, taskVars, awaiter, handle, joining,
                   hostwait, signalled, waking, wakes>>

\* Slip: the thread is unparked and then signalled.
SignalWakeReversed(step) ==
    IF step = "unpark" THEN signalled' = TRUE /\ UNCHANGED permit
    ELSE permit' = TRUE /\ UNCHANGED signalled

\* Signal::wake: the flag, then the permit.
SignalWake(step) ==
    IF step = "store" THEN signalled' = TRUE /\ UNCHANGED permit
    ELSE permit' = TRUE /\ UNCHANGED signalled

\* Signal::wake, or HostWake, which has no flag.  A late wake finds the Signal
\* of an earlier block_on, but the permit is the thread's.
WakeJoiner(t) ==
    /\ waking[t] # "no"
    /\ IF hostwait THEN permit' = TRUE /\ UNCHANGED signalled
       ELSE IF waking[t] = "store" /\ t # joining THEN UNCHANGED <<signalled, permit>>
       ELSE SignalWake(waking[t])
    /\ waking' = [waking EXCEPT ![t] = IF @ = "store" /\ ~hostwait THEN "unpark" ELSE "no"]
    /\ UNCHANGED <<pools, home, hosted, taskVars, awaiter, handle, joiner,
                   joining, hostwait, wakes>>

TasksNext ==
    \/ StartShared \/ DestroyOwn \/ PollHandle \/ SwapSignal
    \/ \E spurious \in BOOLEAN : Unparked(spurious)
    \/ \E t \in Spawned :
          \/ Spawn(t) \/ PollPending(t) \/ PollReady(t) \/ WakeTask(t)
          \/ DropJob(t) \/ Cancel(t) \/ DropHandle(t) \/ BlockOn(t) \/ WakeJoiner(t)
          \/ \E w \in 0..Width(home[t]) - 1 : RunJob(t, w)

TasksSpec == TasksInit /\ [][TasksNext]_tasksVars

-----------------------------------------------------------------------------
(* Properties                                                              *)

\* A wake never leaves a task where nobody looks, whatever the waking thread
\* believes about itself: its job is in the shared queue or in that of a
\* worker its own pool has.  And only a cancel or the end of its pool ends a
\* task that did not finish, not the drop of its handle (spawn_on_at,
\* worker_for, JoinHandle::drop).
TaskFate ==
    /\ TasksTypeOK
    /\ \A t \in Spawned :
          /\ task[t] \in {"queued", "running"} => place[t] \in Injector..Width(home[t]) - 1
          /\ task[t] = "gone" => handle[t] = "cancelled" \/ home[t] \notin pools

\* The thread blocked on a handle is not left asleep beside a task that ended:
\* it can leave park, or the wake that lets it is under way (Signal::wake
\* against Signal::wait, HostWake).
JoinerIsWoken ==
    joiner = "park" /\ ~permit /\ Ended(joining) => waking[joining] # "no"
=============================================================================
