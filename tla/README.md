# Nagoya in TLA+

Nagoya is a small asynchronous runtime for Rust: a task pool, a readiness reactor
over epoll or kqueue with TCP and UDP sockets on it, timers, the synchronisation
primitives, and on top of these CPU budgets, owned values, parallel loops, child
processes and signals. This directory holds TLA+ models of these parts, the TLC
configurations that check them and proofs of the main invariants. File
and line references are to the repository (`sync.rs` is `src/src/sync.rs`);
`PROJECT.json` maps each definition to the lines it models.

## The system

| Component | State | Operations | Hard because | What makes it correct |
|---|---|---|---|---|
| Waiter queue (`sync.rs` WaitQueue, Waiters) | arena of slots, doubly linked chain, free list, under one spin lock | register, remove, grant_one, grant_all | slots reused, cancellation in mid-queue, wakers invoked after unlocking | first come first served; a grant survives until acknowledged or cancelled |
| Notify (`sync.rs`) | permit and generation atomics, waiter queue | notify_one, notify_waiters, notified, enable, poll, drop | lock-free looks before the lock; a notification in a cancelled future | nothing lost or doubled; no broadcast misses an older future |
| Semaphore (`sync.rs`) | permit count outside the queue's lock | try_acquire, Acquire, permits, add_permits, forget | try / register / try again against add / wake | permits conserved; no sleeper beside a free permit |
| RwLock (`sync.rs`) | lock word outside the queue's lock | read, write, owned variants, guards | the same, with two modes and a shared word | exclusion; exact word; no sleeper beside a lock it could take |
| Barrier (`sync.rs`) | count, generation, a Notify | wait | a slow waiter meets the next round | a round releases exactly its parties |
| Reactor (`reactor/driver.rs`, `poller.rs`) | slot map, per-descriptor readiness and wakers, cached deadline | register, drop, poll_readable/writable, take, mark, dispatch, service_timers, poll_once, Sharded | edge-triggered kernel; stale events; one thread waits for all | no edge missed; an event reaches its own socket; a live socket stays watched |
| Sockets (`net.rs`) | a socket and a registration | TcpStream reads and writes, TcpListener::accept, UdpSocket, connect | readiness cleared before the call and put back after it; drop order; reused descriptor numbers | data and hang-up are seen; writers resume; nobody spins |
| Timers (`time.rs`, service_timers) | heap of armed sleeps, clock, host | sleep, poll, drop, fire_due, nudge, timeout | two drivers drain one registry while tasks arm and cancel | never early, never slept past, always ends |
| Local executor (`reactor/local.rs`) | waker flags, chain of woken tasks | block_on_with, TaskSet | wakes suppressed on the own thread; chain walked while it grows | no wake slept through; every woken task polled |
| Readiness sources (`readiness.rs`) | word of coalesced reasons, Notify | signal, wait | a reason set while the consumer goes to sleep | every reason is consumed |
| Credits, owner (`credits.rs`, `owner.rs`) | balance, in-flight counts; the owned value and its queue | reserve, settle, refill; dispatch, lease | rollback visible to others; lease dropped by a cancelled caller | budgets never exceeded; one lease at a time |
| Parallel for (`par.rs`) | outstanding count, cancel flag, panic | split, run, join | counting pieces before they are published | returns after the last piece |
| Tasks, pool (`task.rs`, `runtime.rs`, `block_on.rs`, `lib.rs`) | task state and queue, the waking thread's idea of where it is, park flag | spawn, schedule, cancel, detach, block_on | wake while running, from a thread of another pool; a pool destroyed under its tasks | a woken task's job is where its own pool looks; a joiner is not left parked |
| Child processes (`process.rs`) | the process, its exit watch, its pipes; orphans | spawn, wait, try_wait, kill, output, status, drop | exit against park and drop; two pipes and an exit to wait for at once | reaped once and never signalled after; no exit missed; parent and child do not wait for each other |
| Signals (`signal.rs`) | one claim per number, disposition, mask, pipe or signalfd | new, recv, drop | made and dropped on two threads while the signal arrives | the default action held off and restored; no delivery lost |
| Name resolution, io traits and files, raw sockets, error codes, counters | none shared | loops over system calls | - | not modelled |

Interaction: the primitives share one waiter-queue implementation; sockets talk to
the reactor only through their slot; the reactor thread calls wakers and drains the
timer registry; Barrier, credits, owner and readiness sources wait on Notify; the
executors poll the futures all of these are made of.

## Modules

**Waiting.** `WaitFifo` is the abstract waiter queue: a sequence of waiters, the kind
of each registration, its waker, and the set of wakers taken under the lock and not
yet invoked. `WaitQueue` is the concrete arena (`queue.slots`, `head`, `tail`, `free`
are the fields of the struct, `registration` the token each future holds). The
refinement mapping follows the chain from `head` and reads kind and waker out of each
future's slot; `ImplementsFifo` states that it implements `WaitFifo`.

`Notify`, `Semaphore` and `RwLock` extend `WaitFifo`. A critical section under the
queue's lock is one action; every atomic access outside it, and every waker call, is
another, so that all other threads may come in between. `pc[f]` is where a future's
call stands, `asleep[f]` that its last poll returned Pending and no wake came since.
A compare-exchange loop is one action, where it takes effect.

**Reactor and sockets.** `Slot` is the reactor's record for one descriptor (readiness
per direction, hang-up, parked wakers) with the reactor's wait, dispatch and wake,
above an edge-triggered kernel. `Stream` adds the polls of the three kinds of
descriptor that are read and written through it, as sequences of slot operations and
system calls: `TcpStream`, the `Pipe` of a child process and `UdpSocket`. They share
`Take` and `Park` and differ in what a call's result proves, hence in when they put
back the readiness they took (`Mark`, `MarkLast`; `MarkRetry` after EINTR on a pipe), and
in whether a dropped future cancels its wait (`DropFuture`, UDP only). `send_capacity`
is what a `TcpStream` read of `SO_SNDBUF` when it was made (any of `SendCapacities`, 0
where the kernel did not say), apart from the `Capacity` the kernel's buffer has: the
kernel may count overhead in the one and grow the other. `Send` compares each write
with the first, and `misjudged` records that it drew the wrong conclusion. `Listener`
adds `poll_accept`. `Registry` is the slot map and the poller's table: register in its
two steps (insert, add) and its error path, the two drop orders, events read before a
drop and dispatched after it, and lowest-free descriptor numbers.

**Timers.** `Timers` is time.rs and the timer half of the reactor: the `Sleep` future
(first poll, arm, nudge; later poll: look, store, look again; drop), `fire_due` run by
two drivers (`"thread"`, the dedicated timer thread; `"reactor"`, its loop) with the
registry's lock held from `drain` to `Unlock`, the condition-variable flag and the
cached deadline. There the registry is a set with a least element. `TimerSet` states
what such a set answers, and `TimerHeap` is the code's indexed binary heap: push, pop
and the removal of any entry by the index its slot remembers. A turn of `sift_up` or
`sift_down` is a step; the lock is held meanwhile, so no other operation starts until
the loop is over. `HeapImplementsSet` is the refinement.

**Local executor.** `Local` is `block_on_with` driving a `TaskSet`: each atomic of
`Slot::wake_by_ref` (flag, link, compare-exchange on the head, parent) and of
`LocalWaker::wake_by_ref` (ready flag, look at `waiting`, kick) is a step, on another
thread or on the driving thread itself from inside a task, a timer or dispatch. The
driver's steps are the swap of the ready flag, the store of `waiting`, the timers
fired before the wait, the wait with a zero or an unbounded timeout, and the walk of
the chain, whose links are reused as it goes.

**Around the reactor.** Each of these takes what it is built on by the promise another
module checks (`Notify`'s in `Credits`, `Barrier` and `Ready`; `Slot`'s in `Child` and
`Signals`), so that its own interleavings can be explored in full:

- `Credits`: `CreditAccount` and `Owner`. reserve takes an in-flight slot, then the
  credits, and rolls back with a notification; a job enters, runs, settles (three
  steps), returns the lease (value, then gate) or is dropped unrun or by a panic;
  replenish; wait_for enables its future, looks at both counters and awaits.
- `ParFor`: a piece is known by its first index. Split counts the right half before
  submitting it; a piece is retired in two steps, the last retirer wakes the future;
  bodies panic, the loop is cancelled, the future or the pool dropped.
- `Tasks`: where a wake puts a task (`worker_for` over what the waking thread knows:
  `CURRENT`, its host's context, the reactor's route), run, ready, panic, cancel,
  detach, the end of an owned pool; `block_on` and the two halves of its wake.
- `Barrier`: arrive, release (reset, generation, notify), enable, look, cancellation.
- `Ready`: a producer's fetch-or and the notify after it, the consumer's enable and
  swap, cancellation; `coarse_deadline` over every deadline and quantum of a small
  clock whose top is reserved, as u64::MAX is.
- `Child`: the process and its pipes as the kernel has them; the three ways an exit
  is watched (registered descriptor, waiter thread, blocking wait) and the error paths
  of getting one; wait, try_wait, kill, status, output with both pipes drained, a
  closed pipe; the drop that hands the process to an `Orphan`, and its reaping.
- `Signals`: one number. The claim, arming on Linux (mask and signalfd) and on the
  BSDs (pipe, handler, saved disposition), the failure of each, registration, recv,
  and the drop in its field order with disarm's steps (block, unpublish, ignore,
  flush, restore, unmask), while signals are sent to any thread (`SendSignal`) and to
  the process (`KillProcess`) at any moment. What is masked is pending on its thread
  (`pend`) or for the process (`shared`); a signalfd reports the second and, of the
  first, what is pending on the thread that looks (`Reported`), as the test at
  signal.rs:769 found out. The thread that makes a Signal also polls and drops it and
  turns its reactor.

`MCArenas`, `MCLive` and `MCServices` put components that share no state into one run:
`part` is chosen initially and only that component moves, so each is explored alone.
`MCTimers` adds the symmetry of `Timers`.

Definitions marked "Slip" are plausible bugs that deform one operation each. Nothing
refers to them; each is put in the place of its operation to see that the property it
belongs to notices.

## Runs

| Run | Shows | Bounds, and why they are enough |
|---|---|---|
| arenas | arena accounting and links, refinement of WaitFifo; no slot leaked, stale events reach nobody else, watches lost only to a late remove; the heap refines TimerSet | 3 waiters: removal at head, middle, tail, and reuse. 3 sockets (one closing first), 2 numbers, 4 registrations: every number reused. 7 timers of 3 deadlines: a removal that sifts up needs six entries, ties three |
| notify | no permit beside a waiter, no broadcast passes one by, sleepers reachable; notifications conserved; broadcasts and grants answered | 2 futures, 3 notifications, 1 broadcast: grant, cancel and pass on, merge, broadcast race |
| semaphore | permits conserved; sleeping through a free permit is always backed by a held one; such a permit is found | 3 tasks, 1 permit, 1 added, forget allowed: a granted task, a barging one and a victim |
| semaphore_sleep | **violated**: a waiter sleeps beside a free permit | as above, without forget |
| rwlock | exclusion and exact word; no sleeper beside a takeable lock; woken whenever freed | 3 tasks, WRITER = 7: two readers and a writer |
| stream | no edge missed with the current waker parked; all data and the hang-up read, writer resumes; no spin; for TCP, pipe and UDP | 2 wakers, 3 units in, 3 out, buffer of 2, `send_capacity` 0, 1, 2 or 3 (unknown, too small, exact, too large), 1 interrupt: short, exact and blocked transfers, and writes wrongly taken to have filled the buffer |
| udp_error | **violated**: an error on a UDP socket reported as a hang-up makes its receiver spin | the same, UDP only, `ErrorIsHangup` |
| listener | **violated**: an idle listener's task never sleeps | 1 waker, 2 connections |
| registry_tcp | **violated**: a live TCP socket loses its watch | 2 sockets, both closing first |
| timers | never early; sleepers reachable and the driver told of timers never waits past one | 2 sleeps, 2 wakers, clock to 2: earlier, equal and later arms, drop of the earliest, both drivers; sleeps and wakers interchangeable |
| live | an armed sleep ends; the driving thread never sleeps on a wake, the chain holds exactly the queued tasks, every wake is followed by a poll | 1 sleep, so that the fair graph stays small (two-sleep interference is in `timers`); 2 tasks, 1 other thread, 3 events: a wake during the walk, during the decision to wait, and by a timer |
| services | the sixteen invariants below | per component, see below |

`services` (1.1 million states) checks, component by component:

| Component | Properties | Bounds |
|---|---|---|
| Credits | `NoCreditMinted`, `OneTurnAtATime`, `NoWaiterStranded` | 2 callers, asks of 1 and 3 against a capacity of 2 (one can never be met), 1 or 2 in flight, 3 dispatches, overshoot 1 |
| ParFor | `LoopIsWhole`, `LoopIsAwaited` | 4 indices, leaves of 1 and 2: splits of splits |
| Tasks | `TaskFate`, `JoinerIsWoken` | 2 tasks, pools of 2 and 1 workers, so that a worker of one is out of range in the other |
| Barrier | `RoundsKeptApart` | 3 parties, groups of 0, 2, 3, 3 rounds: a slow party sees two later rounds form |
| Ready | `NoReasonSleptThrough`, `CoarseIsLeast` | 2 producers, 2 reasons, clock to 5 |
| Child | `PidIsOurs`, `ExitIsNoticed`, `NoPipeDeadlock` | 2 units per pipe, a pipe holds one: a child blocked on either pipe |
| Signals | `DefaultHeldOff`, `WaiterStaysRegistered`, `DeliveryIsSeen` | 2 threads, 3 makings, 2 signals (to a thread or to the process), 2 bytes of pipe: making against dropping, coalescing, a signal pending on the waiter, on the other thread and on neither |

Runs without deadlock checking are of systems that may stop: no task need poll,
nobody need notify, and bounded counters run out. The bounds are constants of the
modules, each marked as a bound where it is declared.

`stream` checks reads and writes one direction at a time (`Uses`): the two directions
touch disjoint parts of the slot, except for the hang-up, which only reads look at.

### Fairness

Weak fairness of: a thread inside a call (it is running code without a wait); the
reactor and timer threads (they loop); a waker taken and not yet invoked; and a task
that is not asleep being polled again (an executor polls a woken task). Nobody is
obliged to notify, connect, send, arm, add permits or cancel. Guards are assumed to
be dropped eventually (`release`), since a permit held for ever helps nobody; peers
read what is in the pipe (`PeerReads`) in the writer's property. `EverySleepEnds`
starts once the sleep is in the registry, because the spin lock promises no order
among those who contend for it; time passes, and a wait whose reason has come ends,
other returns of a wait being possible at any time and never obliged. In `Local` the
driving thread runs on, a thread inside a wake finishes it and an armed timer falls
due; a descriptor is never obliged to become ready.

The components of `services` are checked for safety only: what matters of their
waiting (`NoWaiterStranded`, `JoinerIsWoken`, `ExitIsNoticed`, ...) is stated as an
invariant, that a sleeper whose reason has come always has somebody under way to it.

### What the kernel is assumed to do

Adding a descriptor reports what already holds as a first edge, which both epoll and
kqueue do (the comment in `register`, driver.rs:157, takes less for granted). A wait
reports each descriptor's current conditions, or the ones that changed. The send
buffer has a fixed capacity, which need not be what `SO_SNDBUF` said, and a writable
edge follows when room returns to a full one; a partial send means it is full.
Descriptor numbers are the lowest free ones. A process
descriptor reports a child once it can be waited for. A signal sent to a thread is
held while that thread has it blocked, one at a time, and acted on when it is let in;
one sent to the process goes to a thread that does not block it, or is held until one
lets it in or reads it from a signalfd.
Atomics are sequentially consistent: the weaker orderings the code asks for are not
modelled.

## Findings

1. `semaphore_sleep`, sync.rs:663. A future that gets its permit without having used
   the wake-up it was granted throws the wake-up away, where a cancelled one passes
   it on (sync.rs:672). Another waiter then sleeps beside a free permit until some
   held permit comes back, which the comment at sync.rs:591 says must not be.
   `SleepThroughIsBacked` and `FreePermitFound` are what remains true.
2. `listener`, net.rs:555. `poll_accept` never takes the readiness that
   `poll_readable` checks, so when nothing is waiting it wakes itself at once, for
   ever; the doc says it parks. `Connected` (net.rs:391) has the same shape.
3. `registry_tcp`, net.rs:53. TCP sockets close before they deregister; a socket
   opened in between under the same number is deregistered in their place.
4. `udp_error`, driver.rs:738. A hang-up is latched, and epoll's EPOLLERR counts as
   one. An error on a UDP socket is over once a call has returned it, so from then on
   an idle receiver finds the slot ready, gets EWOULDBLOCK and wakes itself, for ever;
   the comment at driver.rs:271 says a latched hang-up cannot spin.

Noted while reading, with no run:

- `poll_once_timeout` documents its cap in milliseconds (driver.rs:502) where it is
  compared with nanoseconds.
- The slot generation "bumped on every reuse" (driver.rs:88) is always 1, as indices
  are never reused, which is why `EventReachesItsSocket` holds.
- A parallel loop whose pool is destroyed has its queued pieces dropped unrun and its
  future becomes Ready as if it were complete; `LoopIsWhole` says so.
- `poll_write_vectored` takes a write of at least `send_capacity` bytes that the kernel
  took whole to have filled the buffer (net.rs:276-283). If `SO_SNDBUF` was smaller than
  what the buffer takes, as when the kernel grows it after from_socket read it, there is
  room left, the readiness is not put back, and the next write parks for an edge that
  nothing causes: the "hang" that tests/reactor_net.rs:355-368 tests for. The model has
  these states; `NoMissedEdge` and `WriterResumes` leave out exactly them (`Stranded`,
  `misjudged`), and `NoMissedEdge` says that a reading of 0, an exact one and one that
  is too large never lead there. Without the exception TLC gives the trace: one short
  write, and a second one that sleeps beside a writable socket.
- On Linux a signal that another thread masks stays pending there and no waiter hears
  of it until that thread makes a Signal itself (signal.rs:769-773); `DeliveryIsSeen`
  is about what the waiter's descriptor reports.
- A signal that first arrives in disarm between the flush and the mask's restoration
  meets the program's own action, as one that arrives after the drop does;
  `DefaultHeldOff` is about those that came while the handler was in place.
- `Signal::new` has a path for a failed commit (signal.rs:152-160) which nothing can
  take, as committing always answers Ok.

## Proofs

Checked by TLAPS for every value of the constants, under each module's ASSUME: sets
of futures, parties, callers, sleeps, tasks and threads are finite, the markers
`None`, `END`, `NoWaker` are not elements of the sets they mark absence in, counts,
deadlines and bounds are naturals (a capacity, a quantum or a pool's width not 0),
each task has its own waker, and there are fewer readers than `WRITER`. TLC's bounds
are constants, so a theorem holds however far they are raised. Every invariant, action property and
refinement that a passing run checks is proved.

Each proof has one inductive invariant, a conjunction of named parts that TLC checked
before it was proved, and a lemma per action or group of actions.

| Module | Theorems | Inductive invariant, and why the property needs it |
|---|---|---|
| `WaitFifoProofs` | `QueueIsExact` | `FifoInv`: the queue has no repetition and holds exactly the waiters of kind Queued. A grant takes whoever is at the head, so nothing about the primitives is inductive without it; its lemmas on register, remove and grant are what the next three cite. |
| `NotifyProofs` | `NothingLostOrDuplicated`, `NoLostWakeup` and its parts | adds the life cycle of a future (a done one is not registered, a reserved one is done). Conservation moves one notification per step between the places it can be in. |
| `SemaphoreProofs` | `PermitsAreConserved`, `SleepersCanBeWoken`, `FreePermitIsBacked` | adds the wake-ups owed, `RegisteredInPoll` and `QueueIsAttended`: beside a free permit with none held or forgotten, a nonempty queue has somebody who will look at the permits or wake one who does (`WillLook`). `SleepThroughIsBacked` alone speaks of quiet moments, and nothing in it follows from the drop of a future that was never polled. |
| `RwLockProofs` | `LockIsSound`, `NoLostWakeup` and their parts | exclusion needs the exact word (a try only sees the word), the word needs exclusion (a writer's release stores 0); the sleep property needs that a sleeper is between its registration and the end of its poll, or queued. |
| `ArenasProofs` (WaitQueue) | `ArenaSound`, `ArenaIsFifo` | `ArenaInv`: there are a chain and a free list which share out the slots (`Shared`), the chain linked both ways between head and tail (`Linked`), and a slot that is not free is the registration of exactly one future (`OwnedOnce`). Linking at the tail, unlinking anywhere and freeing are lemmas about that chain (`JoinedIsLinked`, `PartedIsLinked`, `FreeGiven`); the arena grows by one only when a waiter has no slot and none is free, so it has no more slots than waiters (`RoomToGrow`). The same lemmas say what became of the waiters in the order of the chain, which makes each operation the step of that name of WaitFifo (`ArenaStep`). |
| `ArenasProofs` (TimerHeap) | `HeapIsASet` | `HeapInv`: every slot knows where its entry is, no number is given out twice, and every entry is below its parent but for the one that is sifted; the children of that one are below its parent already (`Ordered`), without which one turn of the loop would not restore the order. |
| `ArenasProofs` (Registry) | `NoSlotLeaks`, `StaleEventsReachNobody`, `WatchesAreKept` | `RegistryInv`: indices are handed out once (`IndexExact`), a number in use refers to its user (`NumberIsOwn`), and the tables that outlive a registration, the poller's and the batch of events, name the socket they are about or an index nobody has any more. The last theorem is of an action property. |
| `StreamProofs` | `NoEdgeIsMissed` | `StreamInv`: what there is to do is known to the slot or announced by an edge (`Covered`), except between a poll's taking the readiness and its learning what became of the descriptor (`NothingForgotten`); the one other gap is left by a misjudged write, which needs a `send_capacity` below the buffer's (`Stranded`, `MisjudgedOnly`); a lasting hang-up stays with kernel, reactor or slot; readiness and a sleeper's waker change places together. Each slot operation and system call is a lemma about its own direction, with one (`Beside`) for the other. |
| `LiveProofs` (Timers) | `SleepsNeverFireEarly`, `SleepsAreSafe` | `TimersInv`: a clock reading is never ahead of the clock; one driver drains at a time; `ThreadIsTold` and `ReactorIsTold`, what each driver found bounds every armed deadline, or a task is about to announce one. The cached deadline is a lower bound except while the reactor drains, when the reading it took stands in. |
| `LiveProofs` (Local) | `TheChainIsExact`, `WakesAreNotSleptThrough` | `LocalInv`: the queued tasks are shared out between the head's chain, the walk's chain and the threads that link one (`ChainShare`); chains do not lead back (`OneWay`); from the parent's registration its waker is there or a thread that took it sets ready (`ParentExact`); a set ready flag is looked at or interrupts the wait (`ReadyExact`). |
| `ServicesProofs` (Barrier, Ready) | `BarrierIsSound`; `ReasonsAreConsumed`, `DeadlinesRoundUp` | the properties themselves with the types of the histories; rounding is proved for every clock from the division theorem on naturals. |
| `ServicesProofs` (Credits) | `CreditsAreNotMinted`, `TurnsAreExclusive`, `WaitersAreNotStranded` | `CreditsInv`: what a caller holds is known from where it is (`JobsExact`); one lease, and its drop puts the value back before it opens the gate (`OwnerExact`). |
| `ServicesProofs` (ParFor) | `LoopsAreWhole`, `LoopsAreAwaited` | `LoopInv`: pieces have disjoint ranges, the one about to be published still belonging to the piece that gives it away; outstanding counts both; what was not run belongs to a piece unless the loop was cancelled or its pool destroyed. |
| `ServicesProofs` (Tasks) | `TasksEndForAReason`, `BlockedThreadIsWoken` | `TasksInv`: an awaiter is told once and not before its task ends; the blocked thread's waker is registered, about to be called, or its call has left the flag, with the permit after it. |
| `ServicesProofs` (Child) | `ThePidIsOurs`, `ExitsAreNoticed`, `PipesDoNotDeadlock` | `ChildInv`: who has the process and what it is then; what a call has closed before it waits; a holder about to park beside a process that can be waited for has an edge to come or finds the flag; every byte of an open pipe is in it or was read. |
| `ServicesProofs` (Signals) | `DefaultIsHeldOff`, `WaitersStayRegistered`, `DeliveriesAreSeen` | `SignalsInv`: one thread between its claim and the release of it, and its place decides disposition, saved action, mask and pipe (`LinuxExact`, `BsdExact`, `MasksExact`); something to report to the waiter that it has not looked at has set the edge or the flag (`EdgesExact`). |

Induction over data is outside the prover, so what it would show is stated or argued
in other ways. What holds at every place of a chain or a heap is proved of the least
place where it would fail (`LeastNumber`): two sequences that follow the links of
`WaitQueue` from the same slot do not differ first anywhere (`FollowsOnce`), so the
chain of the invariant is the one `Order` chooses, and no entry of the heap is the
first that comes before the top (`TopIsLeast`). `WaitQueue` defines the order of its
waiters as the sequence that follows the links, and `grant_all` by that sequence.
`Local` defines the tasks on a chain as the least set that holds its first and is
closed under the links, not by walking it; that one step of the walk leaves the rest
in place then follows from `OneWay`. `Credits` counts lent credits as the pairs of a
caller and one of its credits, so that a sum over callers is a cardinality, which the
library's theorems on finite sets handle.

Only model-checked:

- every liveness property (`FreePermitFound`, `WokenWhenFreed`, `BroadcastDelivered`,
  `TransfersProceed`, `Quiescent`, `EverySleepEnds`, `EveryWakeIsSeen`): fairness and
  ENABLED are outside the prover;
- what the violation runs show.

## Not modelled

Of modelled components:

- reactor: `Registration::modify`, the choice of a shard in `Sharded`, shutdown;
- TCP: `Connected` (see finding 2), the byte accounting of `write_all` and the like;
- UDP: `UdpSocket::connect` (net.rs:647-692), which takes the writable readiness while
  a connect is under way and marks it when it is done;
- timers: the `timeout` combinator, which polls a future and a `Sleep` in turn;
- tasks: the `Builder`'s settings, `submit` of plain closures, `Runtime::readiness`;
- processes: a `waitpid` that fails because something else reaped the child;
- signals: failures of sigaction and sigmask that no valid number meets.

As a whole: name resolution and file I/O (loops over system calls without shared
state), raw socket wrappers, error codes, counters and test helpers (no behaviour of
their own), the external work-stealing pool, and memory orderings weaker than
sequential consistency.
