--------------------------- MODULE ServicesProofs ---------------------------
(***************************************************************************)
(* Proofs about the services built on the queues and the executor: the     *)
(* barrier, the readiness sources, spawned tasks, CPU credits, the         *)
(* parallel loop, child processes and signals.  Each part has its own      *)
(* variables and an inductive invariant of its own, a conjunction of named *)
(* parts; a lemma shows that every step keeps a part, one case for each    *)
(* action, and the theorems read the checked properties off the invariant. *)
(***************************************************************************)
EXTENDS Credits, ParFor, Tasks, Barrier, Ready, Child, Signals,
        FiniteSetTheorems, TLAPS

-----------------------------------------------------------------------------
(* The barrier                                                             *)

\* The histories are counts, and a group is released as soon as it is full.
BarrierTypes ==
    /\ BarrierTypeOK /\ came \in [Rounds -> Nat] /\ led \in [Rounds -> Nat]
    /\ arrived < n \/ arrived = 0

\* The inductive invariant: what the counters count, and that a sleeping
\* party of a finished round has been notified.
BarrierInv == BarrierTypes /\ RoundsCounted /\ SleeperNotified

\* A party that arrives, the one step that counts.
LEMMA ArriveInv ==
    ASSUME BarrierInv, NEW p \in Parties, Arrive(p)
    PROVE  BarrierInv'
<1>1. /\ n \in Nat /\ arrived \in Nat /\ round \in Nat /\ MaxRounds \in Nat
      /\ round \in Rounds /\ round < MaxRounds /\ round + 1 \in Rounds
      /\ came \in [Rounds -> Nat] /\ led \in [Rounds -> Nat] /\ n' = n
      /\ arrived < n \/ arrived = 0
  <2>1. n \in Nat /\ round \in 0..MaxRounds /\ MaxRounds \in Nat /\ round < MaxRounds
    BY BarrierAssumption DEF BarrierInv, BarrierTypes, BarrierTypeOK, Rounds, Arrive
  <2>2. round \in Rounds /\ round + 1 \in Rounds /\ n' = n
    BY <2>1 DEF Rounds, Arrive
  <2> QED
    BY <2>1, <2>2 DEF BarrierInv, BarrierTypes, BarrierTypeOK
<1>2. came[round] = arrived /\ led[round] = 0
  BY <1>1 DEF BarrierInv, RoundsCounted
<1>3. came' = [came EXCEPT ![round] = arrived + 1]
  BY <1>2 DEF Arrive
<1>4. CASE arrived + 1 >= n
  <2>1. /\ arrived' = 0 /\ round' = round + 1 /\ led' = [led EXCEPT ![round] = 1]
        /\ party' = [party EXCEPT ![p] = "notify"]
        /\ joined' = joined /\ enlisted' = enlisted
    BY <1>2, <1>4 DEF Arrive, PartyGoto
  <2>2. BarrierTypes'
    BY <1>1, <1>3, <2>1 DEF BarrierInv, BarrierTypes, BarrierTypeOK
  <2>3. RoundsCounted'
    BY <1>1, <1>3, <1>4, <2>1 DEF BarrierInv, RoundsCounted, Rounds
  <2>4. SleeperNotified'
    BY <2>1 DEF BarrierInv, BarrierTypes, BarrierTypeOK, SleeperNotified
  <2> QED
    BY <2>2, <2>3, <2>4 DEF BarrierInv
<1>5. CASE ~(arrived + 1 >= n)
  <2>1. /\ arrived' = arrived + 1 /\ round' = round /\ led' = led
        /\ party' = [party EXCEPT ![p] = "enable"]
        /\ joined' = [joined EXCEPT ![p] = round] /\ enlisted' = enlisted
    BY <1>5 DEF Arrive, PartyGoto, Following
  <2>2. BarrierTypes'
    BY <1>1, <1>3, <1>5, <2>1 DEF BarrierInv, BarrierTypes, BarrierTypeOK
  <2>3. RoundsCounted'
    BY <1>1, <1>3, <1>5, <2>1 DEF BarrierInv, RoundsCounted, Rounds
  <2>4. SleeperNotified'
    BY <2>1 DEF BarrierInv, BarrierTypes, BarrierTypeOK, SleeperNotified, Arrive
  <2> QED
    BY <2>2, <2>3, <2>4 DEF BarrierInv
<1> QED
  BY <1>4, <1>5

\* Parties of different rounds are never mixed up: every round that ended had
\* its full group and one leader, and nobody sleeps through the end of its
\* own round unless a leader is about to notify it (Barrier::wait).
THEOREM BarrierIsSound == BarrierSpec => []RoundsKeptApart
<1>1. BarrierInit => BarrierInv
  BY BarrierAssumption DEF BarrierInit, BarrierInv, BarrierTypes, RoundsCounted,
     SleeperNotified, BarrierTypeOK, Rounds
<1>2. BarrierInv /\ [BarrierNext]_barrierVars => BarrierInv'
  <2> SUFFICES ASSUME BarrierInv, [BarrierNext]_barrierVars
               PROVE  BarrierInv'
    OBVIOUS
  <2> USE BarrierAssumption
      DEF BarrierInv, BarrierTypes, RoundsCounted, SleeperNotified, BarrierTypeOK,
          Rounds, PartyGoto, Following
  <2>1. ASSUME NEW p \in Parties, Arrive(p) PROVE BarrierInv'
    BY <2>1, ArriveInv
  <2>2. ASSUME NEW p \in Parties, Release(p) PROVE BarrierInv'
    BY <2>2 DEF Release
  <2>3. ASSUME NEW p \in Parties, EnableFuture(p) PROVE BarrierInv'
    BY <2>3 DEF EnableFuture
  <2>4. ASSUME NEW p \in Parties, LookAtRound(p) PROVE BarrierInv'
    BY <2>4 DEF LookAtRound
  <2>5. ASSUME NEW p \in Parties, PartyWakes(p) PROVE BarrierInv'
    BY <2>5 DEF PartyWakes
  <2>6. ASSUME NEW p \in Parties, CancelParty(p) PROVE BarrierInv'
    BY <2>6 DEF CancelParty
  <2>7. CASE UNCHANGED barrierVars
    BY <2>7 DEF barrierVars
  <2> QED
    BY <2>1, <2>2, <2>3, <2>4, <2>5, <2>6, <2>7 DEF BarrierNext
<1>3. BarrierInv => RoundsKeptApart
  BY DEF BarrierInv, BarrierTypes, RoundsKeptApart
<1> QED
  BY <1>1, <1>2, <1>3, PTL DEF BarrierSpec

-----------------------------------------------------------------------------
(* Readiness sources and coarse deadlines                                  *)

\* Division with remainder, by a quantum that is not zero.
LEMMA Division ==
    ASSUME NEW a \in Nat, NEW q \in Nat \ {0}
    PROVE  /\ a \div q \in Nat /\ a % q \in 0..q - 1
           /\ a = q * (a \div q) + (a % q)
OBVIOUS

\* Two multiples of a quantum are at least a quantum apart.
LEMMA MultiplesApart ==
    ASSUME NEW k \in Nat, NEW m \in Nat, NEW q \in Nat \ {0}, q * k < q * m
    PROVE  q * k + q <= q * m
OBVIOUS

\* A multiple of a quantum leaves no remainder.
LEMMA MultipleMod ==
    ASSUME NEW k \in Nat, NEW q \in Nat \ {0}
    PROVE  q * k \in Nat /\ (q * k) % q = 0
OBVIOUS

\* coarse_deadline rounds up, and no multiple of the quantum lies between.
LEMMA RoundsUp ==
    ASSUME NEW a \in Nat, NEW q \in Nat \ {0}
    PROVE  LET up == IF a % q = 0 THEN a ELSE a + (q - (a % q))
           IN  /\ up \in Nat /\ up >= a /\ up % q = 0
               /\ \A d \in Nat : d >= a /\ d % q = 0 => up <= d
<1> DEFINE k == a \div q
           r == a % q
           up == IF r = 0 THEN a ELSE a + (q - r)
<1>1. k \in Nat /\ r \in Nat /\ r < q /\ a = q * k + r /\ q * k \in Nat
  BY Division, MultipleMod
<1> HIDE DEF k
<1>2. CASE r = 0
  BY <1>1, <1>2
<1>3. CASE r # 0
  <2>1. up = q * (k + 1)
    BY <1>1, <1>3
  <2>2. up \in Nat /\ up >= a /\ up % q = 0
    <3>1. k + 1 \in Nat
      BY <1>1
    <3>2. up \in Nat /\ up % q = 0
      BY <2>1, <3>1, MultipleMod
    <3> QED
      BY <1>1, <1>3, <3>2
  <2>3. ASSUME NEW d \in Nat, d >= a, d % q = 0 PROVE up <= d
    <3>1. d \div q \in Nat /\ d = q * (d \div q)
      BY <2>3, Division
    <3>2. q * k < q * (d \div q)
      BY <1>1, <1>3, <2>3, <3>1
    <3>3. q * k + q <= d
      BY <1>1, <3>1, <3>2, MultiplesApart
    <3> QED
      BY <1>1, <1>3, <3>3
  <2> QED
    BY <2>2, <2>3
<1> QED
  BY <1>2, <1>3

\* The arguments and the answer of wake_at.
DeadlineTypes ==
    /\ quantum \in 0..MaxClock /\ asked \in Clock
    /\ quantum # 0 => due = coarse_deadline(asked, quantum)

\* The inductive invariant of the sources: the property itself, a set of
\* reasons for each producer that is raising, and the exact arithmetic of the
\* last deadline.
ReadyInv ==
    /\ NoReasonSleptThrough /\ DeadlineTypes
    /\ raising \in [Producers -> SUBSET Reasons]

\* A producer's step or the consumer's.
LEMMA ReadyStep == ReadyInv /\ [ReadyNext]_readyVars => ReadyInv'
<1> SUFFICES ASSUME ReadyInv, [ReadyNext]_readyVars
             PROVE  ReadyInv'
  OBVIOUS
<1> USE ReadyAssumption
    DEF ReadyInv, NoReasonSleptThrough, DeadlineTypes, ReadyTypeOK, Clock
<1>1. CASE BeginWait
  BY <1>1 DEF BeginWait
<1>2. CASE EnableWait
  BY <1>2 DEF EnableWait
<1>3. CASE SwapReasons
  BY <1>3 DEF SwapReasons, DropNotified
<1>4. CASE CancelWait
  BY <1>4 DEF CancelWait, DropNotified
<1>5. CASE CancelDeadline
  BY <1>5 DEF CancelDeadline
<1>6. CASE Tick
  BY <1>6 DEF Tick
<1>7. ASSUME NEW d \in Clock, NEW q \in Quanta, wake_at(d, q) PROVE ReadyInv'
  BY <1>7 DEF wake_at, Quanta
<1>8. ASSUME NEW p \in Producers, RetainReasons(p) PROVE ReadyInv'
  BY <1>8 DEF RetainReasons, WakeOrder
<1>9. ASSUME NEW p \in Producers, NotifyOne(p) PROVE ReadyInv'
  BY <1>9 DEF NotifyOne, WakeOrder
<1>10. ASSUME NEW p \in Producers, NEW bits \in SUBSET Reasons,
              WakeConsumer(p, bits) \/ DeadlineReached(p, bits)
       PROVE  ReadyInv'
  BY <1>10 DEF WakeConsumer, DeadlineReached, BeginWake, WakeOrder
<1>11. CASE UNCHANGED readyVars
  BY <1>11 DEF readyVars
<1> QED
  BY <1>1, <1>2, <1>3, <1>4, <1>5, <1>6, <1>7, <1>8, <1>9, <1>10, <1>11 DEF ReadyNext

\* The invariant holds in every state of the sources.
LEMMA ReadyInvariant == ReadySpec => []ReadyInv
<1>1. ReadyInit => ReadyInv
  <2> SUFFICES ASSUME ReadyInit PROVE ReadyInv
    OBVIOUS
  <2>1. ReadyTypeOK /\ raising \in [Producers -> SUBSET Reasons]
    <3>1. npermit \in BOOLEAN /\ producer \in [Producers -> {"out", "retain", "notify"}]
      BY DEF ReadyInit
    <3>2. raising \in [Producers -> SUBSET Reasons]
      BY DEF ReadyInit
    <3>3. clock \in Clock /\ signals \in 0..MaxSignals
      BY ReadyAssumption DEF ReadyInit, Clock
    <3> QED
      BY <3>1, <3>2, <3>3 DEF ReadyInit, ReadyTypeOK
  <2>2. DeadlineTypes
    BY ReadyAssumption DEF ReadyInit, DeadlineTypes, Clock
  <2> QED
    BY <2>1, <2>2 DEF ReadyInit, ReadyInv, NoReasonSleptThrough
<1> QED
  BY <1>1, ReadyStep, PTL DEF ReadySpec

\* No reason is slept through, for any number of producers: beside a consumer
\* asleep on retained reasons a producer is about to notify it
\* (ReadyHandle::wake against ReadySource::wait).
THEOREM ReasonsAreConsumed == ReadySpec => []NoReasonSleptThrough
<1>1. ReadyInv => NoReasonSleptThrough
  BY DEF ReadyInv
<1> QED
  BY <1>1, ReadyInvariant, PTL

\* A coarse deadline is the least multiple of the quantum that is not before
\* the one asked for, or an error when the clock has none, for every clock,
\* quantum and deadline (coarse_deadline).
THEOREM DeadlinesRoundUp == ReadySpec => []CoarseIsLeast
<1>1. ReadyInv => CoarseIsLeast
  <2> SUFFICES ASSUME ReadyInv, quantum # 0 PROVE CoarseIsLeast
    BY DEF CoarseIsLeast
  <2> DEFINE up == IF asked % quantum = 0 THEN asked ELSE asked + (quantum - (asked % quantum))
             fit == {d \in asked..MaxClock - 1 : d % quantum = 0}
  <2>1. asked \in Nat /\ quantum \in Nat \ {0} /\ MaxClock \in Nat
    BY ReadyAssumption DEF ReadyInv, DeadlineTypes, Clock
  <2>2. /\ up \in Nat /\ up >= asked /\ up % quantum = 0
        /\ \A d \in Nat : d >= asked /\ d % quantum = 0 => up <= d
    BY <2>1, RoundsUp
  <2>3. due = IF up >= MaxClock THEN Overflow ELSE up
    <3>1. due = coarse_deadline(asked, quantum)
      BY DEF ReadyInv, DeadlineTypes
    <3> QED
      BY <3>1 DEF coarse_deadline
  <2> HIDE DEF up
  <2>4. ASSUME NEW d \in fit PROVE up <= d
    <3>1. d \in Nat /\ d >= asked /\ d % quantum = 0
      BY <2>1
    <3> QED
      BY <2>2, <3>1
  <2>5. CASE up >= MaxClock
    <3>1. fit = {}
      BY <2>1, <2>2, <2>4, <2>5
    <3> QED
      BY <2>3, <2>5, <3>1 DEF CoarseIsLeast
  <2>6. CASE ~(up >= MaxClock)
    <3>1. due = up /\ due # Overflow /\ up \in fit
      BY <2>1, <2>2, <2>3, <2>6 DEF Overflow
    <3> QED
      BY <2>4, <3>1 DEF CoarseIsLeast
  <2> QED
    BY <2>5, <2>6
<1> QED
  BY <1>1, ReadyInvariant, PTL

-----------------------------------------------------------------------------
(* Spawned tasks and the blocked thread                                    *)

\* The types TLC checks, and those of the history variables.
TasksTypes ==
    /\ TasksTypeOK
    /\ closing \in [Spawned -> BOOLEAN] /\ awaiter \in [Spawned -> BOOLEAN]

\* A task is asked to end by its handle's cancel only, and one with a Runnable
\* has a pool that is, or was, there.
FateExact ==
    \A t \in Spawned :
        /\ closing[t] => handle[t] = "cancelled"
        /\ task[t] # "unborn" /\ home[t] = "shared" => "shared" \in pools
        /\ task[t] \in {"queued", "running"} => place[t] \in Injector..Width(home[t]) - 1
        /\ task[t] = "gone" => handle[t] = "cancelled" \/ home[t] \notin pools
        /\ task[t] = "unborn" => handle[t] = "none"

\* An awaiter is told when its task ends, once, and not before.
AwaiterExact ==
    \A t \in Spawned :
        /\ Ended(t) => ~awaiter[t]
        /\ waking[t] # "no" => Ended(t)

\* The blocked thread has a handle, and its waker is registered, about to be
\* called, or its call has left the flag; a flag it has not seen in park has
\* the permit after it.
JoinerExact ==
    joiner # "idle" =>
        /\ joining \in Spawned /\ handle[joining] = "held"
        /\ joiner = "swap" => ~hostwait
        /\ joiner \in {"swap", "park"} /\ ~hostwait =>
              awaiter[joining] \/ waking[joining] = "store" \/ signalled
        /\ joiner = "park" /\ ~hostwait /\ signalled => waking[joining] = "unpark" \/ permit
        /\ joiner = "park" /\ hostwait => awaiter[joining] \/ waking[joining] # "no" \/ permit

\* The inductive invariant of spawned tasks and the thread blocked on one.
TasksInv == TasksTypes /\ FateExact /\ AwaiterExact /\ JoinerExact

\* What a step does to a task: nothing, a queue or a worker of its own pool,
\* a pause, or its end, of which the awaiter is told.
Move(t) ==
    \/ UNCHANGED <<task, place, awaiter, waking>>
    \/ /\ ~Ended(t) /\ (task[t] = "unborn" => home[t] \in pools /\ handle'[t] = "held")
       /\ \/ \E w \in Injector..Width(home[t]) - 1, st \in {"queued", "running"} :
                /\ task' = [task EXCEPT ![t] = st] /\ place' = [place EXCEPT ![t] = w]
                /\ UNCHANGED <<awaiter, waking>>
          \/ /\ task' = [task EXCEPT ![t] = "idle"] /\ place' = [place EXCEPT ![t] = NoWorker]
             /\ UNCHANGED <<awaiter, waking>>
          \/ \E st \in {"done", "panicked", "gone"} :
                /\ st = "gone" => closing[t] \/ home[t] \notin pools
                /\ task' = [task EXCEPT ![t] = st] /\ place' = [place EXCEPT ![t] = NoWorker]
                /\ NotifyAwaiter(t)

\* What it does to its handle.
HandleMove(t) ==
    \/ UNCHANGED <<handle, closing>>
    \/ /\ handle[t] = "none" /\ handle' = [handle EXCEPT ![t] = "held"] /\ UNCHANGED closing
       /\ task'[t] # "unborn"
    \/ /\ handle[t] = "held" /\ joining # t
       /\ handle' = [handle EXCEPT ![t] = "cancelled"]
       /\ closing' = [closing EXCEPT ![t] = ~Ended(t)]

\* worker_for names a worker of the task's pool, or the shared queue.
LEMMA ScheduleMoves ==
    ASSUME TasksInv, NEW t \in Spawned, ~Ended(t), task[t] # "unborn" \/ handle'[t] = "held",
           task[t] = "unborn" => home[t] \in pools,
           NEW current, NEW route, Schedule(t, current, route)
    PROVE  Move(t)
<1>1. CASE home[t] \in pools
  <2>1. PICK hint \in NoWorker..MaxIndex :
           /\ task' = [task EXCEPT ![t] = "queued"]
           /\ place' = [place EXCEPT ![t] = worker_for(t, current, route, hint)]
           /\ UNCHANGED <<awaiter, waking>>
    BY <1>1 DEF Schedule
  <2>2. worker_for(t, current, route, hint) \in Injector..Width(home[t]) - 1
    <3>1. Width(home[t]) \in Nat \ {0}
      BY TasksAssumption DEF Width
    <3> QED
      BY <3>1 DEF worker_for, Injector
  <2> QED
    BY <1>1, <2>1, <2>2 DEF Move
<1>2. CASE home[t] \notin pools
  BY <1>2 DEF Schedule, Finish, Move
<1> QED
  BY <1>1, <1>2

\* Every operation on a task is such a move.
LEMMA TaskMoves ==
    ASSUME TasksInv, NEW t \in Spawned,
           \/ Spawn(t) \/ PollPending(t) \/ PollReady(t) \/ WakeTask(t) \/ DropJob(t) \/ Cancel(t)
           \/ \E w \in 0..Width(home[t]) - 1 : RunJob(t, w)
    PROVE  /\ Move(t) /\ HandleMove(t)
           /\ UNCHANGED <<pools, home, joiner, joining, signalled, permit, hostwait>>
<1>0. /\ Width(home[t]) \in Nat \ {0} /\ NoWorker \in Injector..Width(home[t]) - 1
      /\ \A w \in 0..Width(home[t]) - 1 : w \in Injector..Width(home[t]) - 1
  <2>1. Width(home[t]) \in Nat \ {0}
    BY TasksAssumption DEF Width
  <2> QED
    BY <2>1 DEF Injector, NoWorker
<1>1. CASE Spawn(t)
  <2>1. /\ task[t] = "unborn" /\ home[t] \in pools /\ handle' = [handle EXCEPT ![t] = "held"]
        /\ handle[t] = "none" /\ UNCHANGED <<pools, home, joinVars, hostwait, closing>>
    BY <1>1 DEF Spawn, TasksInv, FateExact
  <2>2. ~Ended(t) /\ handle'[t] = "held"
    BY <2>1 DEF Ended, TasksInv, TasksTypes, TasksTypeOK
  <2>3. task'[t] # "unborn" => HandleMove(t)
    BY <2>1 DEF HandleMove
  <2>4. CASE \E s \in Sites : Schedule(t, s[1], s[2])
    <3>1. Move(t)
      BY <2>1, <2>2, <2>4, ScheduleMoves
    <3>2. task'[t] # "unborn"
      BY <2>1, <2>4 DEF Schedule, TasksInv, TasksTypes, TasksTypeOK
    <3> QED
      BY <2>1, <2>3, <3>1, <3>2 DEF joinVars
  <2>5. CASE ~\E s \in Sites : Schedule(t, s[1], s[2])
    <3>1. PICK w \in 0..Width(home[t]) - 1 :
             /\ task' = [task EXCEPT ![t] = "queued"] /\ place' = [place EXCEPT ![t] = w]
             /\ UNCHANGED <<rewake, awaiter, waking>>
      BY <1>1, <2>5 DEF Spawn
    <3>2. Move(t)
      BY <1>0, <2>1, <2>2, <3>1 DEF Move
    <3>3. task'[t] # "unborn"
      BY <3>1 DEF TasksInv, TasksTypes, TasksTypeOK
    <3> QED
      BY <2>1, <2>3, <3>2, <3>3 DEF joinVars
  <2> QED
    BY <2>4, <2>5
<1>2. CASE PollPending(t)
  <2>1. /\ task[t] = "running" /\ ~Ended(t)
        /\ UNCHANGED <<pools, home, joinVars, hostwait, handle, closing>>
    BY <1>2 DEF PollPending, Ended
  <2>2. CASE closing[t]
    BY <1>2, <2>1, <2>2 DEF PollPending, Finish, Move, HandleMove, joinVars
  <2>3. CASE ~closing[t] /\ rewake[t]
    <3>1. Schedule(t, [pool |-> home[t], worker |-> place[t]], NoWorker)
      BY <1>2, <2>3 DEF PollPending
    <3>2. Move(t)
      BY <2>1, <3>1, ScheduleMoves
    <3> QED
      BY <2>1, <3>2 DEF HandleMove, joinVars
  <2>4. CASE ~closing[t] /\ ~rewake[t]
    BY <1>2, <2>1, <2>4 DEF PollPending, Move, HandleMove, joinVars
  <2> QED
    BY <2>2, <2>3, <2>4
<1>3. CASE PollReady(t)
  <2>1. task[t] = "running" /\ ~Ended(t) /\ (Finish(t, "done") \/ Finish(t, "panicked"))
    BY <1>3 DEF PollReady, Ended
  <2>2. Move(t)
    BY <2>1 DEF Finish, Move
  <2> QED
    BY <1>3, <2>2 DEF PollReady, HandleMove, joinVars
<1>4. CASE WakeTask(t)
  <2>1. task[t] # "unborn" /\ UNCHANGED <<pools, home, closing, handle, joinVars, hostwait>>
    BY <1>4 DEF WakeTask
  <2>2. CASE task[t] = "idle"
    <3>1. ~Ended(t) /\ \E s \in Sites : Schedule(t, s[1], s[2])
      BY <1>4, <2>2 DEF WakeTask, Ended
    <3>2. Move(t)
      BY <2>1, <3>1, ScheduleMoves
    <3> QED
      BY <2>1, <3>2 DEF HandleMove, joinVars
  <2>3. CASE task[t] # "idle"
    <3>1. UNCHANGED <<task, place, awaiter, waking>>
      BY <1>4, <2>3 DEF WakeTask
    <3> QED
      BY <2>1, <3>1 DEF Move, HandleMove, joinVars
  <2> QED
    BY <2>2, <2>3
<1>5. CASE DropJob(t)
  BY <1>5 DEF DropJob, Finish, Ended, Move, HandleMove, joinVars
<1>6. CASE Cancel(t)
  <2>1. /\ handle[t] = "held" /\ joining # t /\ handle' = [handle EXCEPT ![t] = "cancelled"]
        /\ closing' = [closing EXCEPT ![t] = ~Ended(t)]
        /\ UNCHANGED <<pools, home, joinVars, hostwait>>
    BY <1>6 DEF Cancel, CloseTask
  <2>2. CASE task[t] = "idle"
    <3>1. ~Ended(t) /\ \E s \in Sites : Schedule(t, s[1], s[2])
      BY <1>6, <2>2 DEF Cancel, CloseTask, Ended
    <3>2. Move(t)
      BY <2>1, <2>2, <3>1, ScheduleMoves
    <3> QED
      BY <2>1, <3>2 DEF HandleMove, joinVars
  <2>3. CASE task[t] # "idle"
    BY <1>6, <2>1, <2>3 DEF Cancel, CloseTask, Move, HandleMove, joinVars
  <2> QED
    BY <2>2, <2>3
<1>7. ASSUME NEW w \in 0..Width(home[t]) - 1, RunJob(t, w)
      PROVE  /\ Move(t) /\ HandleMove(t)
             /\ UNCHANGED <<pools, home, joiner, joining, signalled, permit, hostwait>>
  <2>1. task[t] = "queued" /\ ~Ended(t) /\ UNCHANGED <<pools, home, closing, handle,
                                                       joinVars, hostwait>>
    BY <1>7 DEF RunJob, Ended
  <2>2. CASE closing[t]
    BY <1>7, <2>1, <2>2 DEF RunJob, Finish, Move, HandleMove, joinVars
  <2>3. CASE ~closing[t]
    <3>1. /\ task' = [task EXCEPT ![t] = "running"] /\ place' = [place EXCEPT ![t] = w]
          /\ UNCHANGED <<awaiter, waking>>
      BY <1>7, <2>3 DEF RunJob
    <3>2. Move(t)
      BY <1>0, <2>1, <3>1 DEF Move
    <3> QED
      BY <2>1, <3>2 DEF HandleMove, joinVars
  <2> QED
    BY <2>2, <2>3
<1> QED
  BY <1>1, <1>2, <1>3, <1>4, <1>5, <1>6, <1>7

\* The first state satisfies the invariant.
LEMMA TasksStart == TasksInit => TasksInv
BY TasksAssumption DEF TasksInit, TasksInv, TasksTypes, TasksTypeOK, FateExact, AwaiterExact,
   JoinerExact, Ended, Pools, NoWorker

\* A move of a task and of its handle keeps the invariant: the end of a task
\* passes its awaiter on to the wake under way.
LEMMA MoveInv ==
    ASSUME TasksInv, NEW t \in Spawned, Move(t), HandleMove(t),
           UNCHANGED <<pools, home, joiner, joining, signalled, permit, hostwait>>
    PROVE  TasksInv'
<1> USE DEF TasksInv
<1>0. /\ pools' = pools /\ home' = home /\ joiner' = joiner /\ joining' = joining
      /\ signalled' = signalled /\ permit' = permit /\ hostwait' = hostwait
  OBVIOUS
<1>1. Width(home[t]) \in Nat \ {0} /\ \A w \in Injector..Width(home[t]) - 1 : w \in Int
  BY TasksAssumption DEF Width, Injector
<1>2. /\ handle' \in [Spawned -> {"none", "held", "detached", "cancelled", "joined"}]
      /\ closing' \in [Spawned -> BOOLEAN]
  BY DEF HandleMove, TasksTypes, TasksTypeOK, Ended
<1>3. \A u \in Spawned : handle[u] = "cancelled" => handle'[u] = "cancelled"
  BY DEF HandleMove, TasksTypes, TasksTypeOK
<1>4. \A u \in Spawned : closing'[u] => handle'[u] = "cancelled"
  BY DEF HandleMove, TasksTypes, TasksTypeOK, FateExact
<1>5. joiner # "idle" => joining \in Spawned /\ handle'[joining] = "held"
  BY DEF HandleMove, TasksTypes, TasksTypeOK, JoinerExact
<1>6. \A u \in Spawned : u # t => handle'[u] = handle[u]
  BY DEF HandleMove, TasksTypes, TasksTypeOK
<1>7. TasksTypes'
  <2>1. task' \in [Spawned -> {"unborn", "queued", "running", "idle", "done", "panicked", "gone"}]
    BY DEF Move, TasksTypes, TasksTypeOK
  <2>2. place' \in [Spawned -> Int]
    BY <1>1 DEF Move, TasksTypes, TasksTypeOK, NoWorker
  <2>3. awaiter' \in [Spawned -> BOOLEAN] /\ waking' \in [Spawned -> {"no", "store", "unpark"}]
    BY DEF Move, NotifyAwaiter, TasksTypes, TasksTypeOK
  <2> QED
    BY <1>0, <1>2, <2>1, <2>2, <2>3 DEF TasksTypes, TasksTypeOK
<1>8. \A u \in Spawned : u # t =>
         task'[u] = task[u] /\ place'[u] = place[u] /\ awaiter'[u] = awaiter[u] /\ waking'[u] = waking[u]
  BY DEF Move, NotifyAwaiter, TasksTypes, TasksTypeOK
<1>9. CASE UNCHANGED <<task, place, awaiter, waking>>
  <2>1. FateExact'
    BY <1>0, <1>3, <1>4, <1>6, <1>9 DEF FateExact, HandleMove, TasksTypes, TasksTypeOK,
       Width, Injector
  <2>2. AwaiterExact' /\ JoinerExact'
    BY <1>0, <1>5, <1>9 DEF AwaiterExact, JoinerExact, Ended
  <2> QED
    BY <1>7, <2>1, <2>2
<1> DEFINE Grown == /\ ~Ended(t)
                    /\ (task[t] = "unborn" => home[t] \in pools /\ handle'[t] = "held")
<1>10. CASE Grown /\ \E w \in Injector..Width(home[t]) - 1, st \in {"queued", "running"} :
                /\ task' = [task EXCEPT ![t] = st] /\ place' = [place EXCEPT ![t] = w]
                /\ UNCHANGED <<awaiter, waking>>
  <2>1. FateExact'
    BY <1>0, <1>3, <1>4, <1>6, <1>8, <1>10 DEF FateExact, TasksTypes, TasksTypeOK, Width, Ended
  <2>2. AwaiterExact' /\ JoinerExact'
    BY <1>0, <1>5, <1>10 DEF AwaiterExact, JoinerExact, Ended, TasksTypes, TasksTypeOK
  <2> QED
    BY <1>7, <2>1, <2>2
<1>11. CASE Grown /\ task' = [task EXCEPT ![t] = "idle"] /\ UNCHANGED <<awaiter, waking>>
  <2>1. FateExact'
    BY <1>0, <1>3, <1>4, <1>6, <1>8, <1>11 DEF FateExact, TasksTypes, TasksTypeOK, Width, Ended
  <2>2. AwaiterExact' /\ JoinerExact'
    BY <1>0, <1>5, <1>11 DEF AwaiterExact, JoinerExact, Ended, TasksTypes, TasksTypeOK
  <2> QED
    BY <1>7, <2>1, <2>2
<1>12. CASE Grown /\ \E st \in {"done", "panicked", "gone"} :
                /\ st = "gone" => closing[t] \/ home[t] \notin pools
                /\ task' = [task EXCEPT ![t] = st]
                /\ NotifyAwaiter(t)
  <2>1. FateExact'
    BY <1>0, <1>3, <1>4, <1>6, <1>8, <1>12 DEF FateExact, TasksTypes, TasksTypeOK, Width, Ended
  <2>2. /\ awaiter'[t] = FALSE /\ waking'[t] = (IF awaiter[t] THEN "store" ELSE waking[t])
        /\ Ended(t)'
    BY <1>12 DEF NotifyAwaiter, TasksTypes, TasksTypeOK, Ended
  <2>3. AwaiterExact'
    BY <1>8, <2>2 DEF AwaiterExact, Ended
  <2>4. JoinerExact'
    BY <1>0, <1>5, <1>8, <1>12, <2>2 DEF JoinerExact, AwaiterExact, TasksTypes, TasksTypeOK
  <2> QED
    BY <1>7, <2>1, <2>3, <2>4
<1> QED
  BY <1>9, <1>10, <1>11, <1>12 DEF Move

\* The thread that blocks on a handle: between its look at the task and park,
\* a wake leaves the flag or the permit behind.
LEMMA JoinerInv ==
    ASSUME TasksInv,
           \/ PollHandle \/ SwapSignal \/ \E spurious \in BOOLEAN : Unparked(spurious)
           \/ \E t \in Spawned : BlockOn(t) \/ WakeJoiner(t)
    PROVE  TasksInv'
<1> USE DEF TasksInv, TasksTypes, TasksTypeOK
<1>1. CASE PollHandle
  <2>1. /\ joiner = "poll" /\ joining \in Spawned /\ handle[joining] = "held"
        /\ UNCHANGED <<pools, home, task, place, closing, hostwait, signalled, permit, waking>>
    BY <1>1 DEF PollHandle, JoinerExact, taskVars
  <2>2. CASE Ended(joining)
    <3>1. /\ joiner' = "idle" /\ handle' = [handle EXCEPT ![joining] = "joined"] /\ awaiter' = awaiter
      BY <1>1, <2>2 DEF PollHandle
    <3>2. FateExact'
      BY <2>1, <2>2, <3>1 DEF FateExact, Width, Ended
    <3> QED
      BY <2>1, <3>1, <3>2 DEF AwaiterExact, JoinerExact, Ended
  <2>3. CASE ~Ended(joining)
    <3>1. /\ joiner' = (IF hostwait THEN "park" ELSE "swap")
          /\ awaiter' = [awaiter EXCEPT ![joining] = TRUE] /\ joining' = joining /\ handle' = handle
      BY <1>1, <2>3 DEF PollHandle
    <3>2. FateExact'
      BY <2>1, <3>1 DEF FateExact, Width
    <3>3. AwaiterExact' /\ JoinerExact'
      BY <2>1, <2>3, <3>1 DEF AwaiterExact, JoinerExact, Ended
    <3> QED
      BY <2>1, <3>1, <3>2, <3>3
  <2> QED
    BY <2>2, <2>3
<1>2. CASE SwapSignal
  <2>1. /\ joiner = "swap" /\ signalled' = FALSE /\ joiner' = (IF signalled THEN "poll" ELSE "park")
        /\ UNCHANGED <<pools, home, task, place, closing, awaiter, handle, joining,
                       hostwait, permit, waking>>
    BY <1>2 DEF SwapSignal, taskVars
  <2>2. FateExact'
    BY <2>1 DEF FateExact, Width
  <2> QED
    BY <2>1, <2>2 DEF AwaiterExact, JoinerExact, Ended
<1>3. ASSUME NEW spurious \in BOOLEAN, Unparked(spurious) PROVE TasksInv'
  <2>1. /\ joiner = "park" /\ permit' = FALSE /\ joiner' = (IF hostwait THEN "poll" ELSE "swap")
        /\ UNCHANGED <<pools, home, task, place, closing, awaiter, handle, joining,
                       hostwait, signalled, waking>>
    BY <1>3 DEF Unparked, taskVars
  <2>2. FateExact'
    BY <2>1 DEF FateExact, Width
  <2> QED
    BY <2>1, <2>2 DEF AwaiterExact, JoinerExact, Ended
<1>4. ASSUME NEW t \in Spawned, BlockOn(t) PROVE TasksInv'
  <2>1. /\ handle[t] = "held" /\ joiner' = "poll" /\ joining' = t
        /\ UNCHANGED <<pools, home, task, place, closing, awaiter, handle, hostwait,
                       permit, waking>>
    BY <1>4 DEF BlockOn, taskVars
  <2>2. FateExact'
    BY <2>1 DEF FateExact, Width
  <2> QED
    BY <2>1, <2>2 DEF AwaiterExact, JoinerExact, Ended
<1>5. ASSUME NEW t \in Spawned, WakeJoiner(t) PROVE TasksInv'
  <2>1. /\ waking[t] # "no"
        /\ waking' = [waking EXCEPT ![t] = IF waking[t] = "store" /\ ~hostwait THEN "unpark" ELSE "no"]
        /\ UNCHANGED <<pools, home, task, place, closing, awaiter, handle, joiner,
                       joining, hostwait>>
    BY <1>5 DEF WakeJoiner, taskVars
  <2>2. FateExact' /\ AwaiterExact'
    BY <2>1 DEF FateExact, AwaiterExact, Width, Ended
  <2>3. JoinerExact'
    BY <1>5, <2>1 DEF WakeJoiner, SignalWake, JoinerExact
  <2> QED
    BY <2>1, <2>2, <2>3
<1> QED
  BY <1>1, <1>2, <1>3, <1>4, <1>5

\* Every step keeps the invariant.
LEMMA TasksStep == TasksInv /\ [TasksNext]_tasksVars => TasksInv'
<1> SUFFICES ASSUME TasksInv, [TasksNext]_tasksVars
             PROVE  TasksInv'
  OBVIOUS
<1>1. CASE \/ PollHandle \/ SwapSignal \/ \E spurious \in BOOLEAN : Unparked(spurious)
           \/ \E t \in Spawned : BlockOn(t) \/ WakeJoiner(t)
  BY <1>1, JoinerInv
<1>2. ASSUME NEW t \in Spawned,
             \/ Spawn(t) \/ PollPending(t) \/ PollReady(t) \/ WakeTask(t) \/ DropJob(t) \/ Cancel(t)
             \/ \E w \in 0..Width(home[t]) - 1 : RunJob(t, w)
      PROVE  TasksInv'
  BY <1>2, TaskMoves, MoveInv
<1> USE DEF TasksInv, TasksTypes, TasksTypeOK, FateExact, AwaiterExact, JoinerExact,
        Ended, taskVars, joinVars
<1>3. CASE StartShared
  BY <1>3 DEF StartShared, Width, Pools
<1>4. CASE DestroyOwn
  BY <1>4 DEF DestroyOwn, Width, Pools
<1>5. ASSUME NEW t \in Spawned, DropHandle(t) PROVE TasksInv'
  BY <1>5 DEF DropHandle, Detach, Width
<1>6. CASE UNCHANGED tasksVars
  BY <1>6 DEF tasksVars, Width
<1> QED
  BY <1>1, <1>2, <1>3, <1>4, <1>5, <1>6 DEF TasksNext

\* The invariant holds in every state.
LEMMA TasksInvariant == TasksSpec => []TasksInv
<1>1. TasksInit => TasksInv
  BY TasksStart
<1>2. TasksInv /\ [TasksNext]_tasksVars => TasksInv'
  BY TasksStep
<1> QED
  BY <1>1, <1>2, PTL DEF TasksSpec

\* A job in a queue is in one that a worker of its own pool looks at, for any
\* number of pools, workers and tasks, and only a cancel or the end of the
\* pool ends a task that did not finish (worker_for, JoinHandle::drop).
THEOREM TasksEndForAReason == TasksSpec => []TaskFate
<1>1. TasksInv => TaskFate
  BY DEF TasksInv, TasksTypes, FateExact, TaskFate
<1> QED
  BY <1>1, TasksInvariant, PTL

\* A thread blocked on a handle is not left asleep beside a task that ended:
\* it can leave park, or the wake that lets it is under way (Signal::wake
\* against Signal::wait).
THEOREM BlockedThreadIsWoken == TasksSpec => []JoinerIsWoken
<1>1. TasksInv => JoinerIsWoken
  BY DEF TasksInv, AwaiterExact, JoinerExact, JoinerIsWoken
<1> QED
  BY <1>1, TasksInvariant, PTL

-----------------------------------------------------------------------------
(* CPU credits and the owner's lease                                       *)

\* The types TLC checks, without its bounds, and those of the histories.
CreditsTypes ==
    /\ CreditsTypeOK /\ parallelism \in Nat
    /\ asks \in [Callers -> Nat] /\ used \in [Callers -> Nat]
    /\ spent \in Nat /\ refilled \in Nat

\* What a caller holds is known from where it is: a permit from the moment it
\* is granted, not settled until it is freed, and nothing once it has let go.
JobsExact ==
    \A c \in Callers :
        /\ call[c] \in {"idle", "refused", "enabled", "looked", "parked"} => held[c] = {} /\ ~done[c]
        /\ call[c] \in {"slot", "credit", "rollback", "rollnote"} => "permit" \notin held[c] /\ ~done[c]
        /\ call[c] \in {"queued", "running", "adjust", "free"} => "permit" \in held[c] /\ ~done[c]
        /\ call[c] = "note" => done[c]
        /\ call[c] \in {"back", "open"} => "lease" \in held[c]

\* At most one lease is out, and its drop puts the value back before it opens
\* the gate.
OwnerExact ==
    /\ \A c, d \in Callers : "lease" \in held[c] /\ "lease" \in held[d] => c = d
    /\ admitted <=> \E c \in Callers : "lease" \in held[c]
    /\ ~admitted => value
    /\ \A c \in Callers : call[c] = "open" => value

\* The inductive invariant of the CPU credits and of the owner's lease.
CreditsInv ==
    /\ CreditsTypes /\ JobsExact /\ OwnerExact
    /\ CreditsConserved /\ JobsCounted /\ NoWaiterStranded

\* Every step keeps the types. in_flight does not go below zero because a
\* slot that is freed is counted.
LEMMA CreditsTypesStep ==
    ASSUME CreditsTypes, JobsExact, CreditsStep, UNCHANGED parallelism,
           in_flight > 0 \/ \A c \in Callers : call[c] \notin {"rollback", "free"}
    PROVE  CreditsTypes'
<1> USE CreditsAssumption DEF CallAt, CallGoto, accountVars, ownerVars, jobVars, countVars
<1> USE DEF CreditsTypes, CreditsTypeOK, JobsExact
<1>1. CASE replenish
  BY <1>1 DEF replenish, adjust, Lower
<1>2. CASE ReplenishNote
  BY <1>2 DEF ReplenishNote, notify_waiters
<1>3. ASSUME NEW c \in Callers, NEW r \in Requests, DispatchTurn(c, r) PROVE CreditsTypes'
  <2>1. /\ r \in Nat /\ asks' = [asks EXCEPT ![c] = r]
        /\ UNCHANGED <<balance, in_flight, enabled, refilling, done, unwinding, used,
                       refilled, spent>>
    BY <1>3 DEF DispatchTurn, Asking
  <2>2. CASE admitted
    BY <1>3, <2>1, <2>2 DEF DispatchTurn
  <2>3. CASE ~admitted
    <3>1. /\ admitted' = TRUE /\ value' = FALSE /\ held' = [held EXCEPT ![c] = {"lease"}]
          /\ call' = [call EXCEPT ![c] = "slot"]
      BY <1>3, <2>3 DEF DispatchTurn
    <3>2. held' \in [Callers -> SUBSET {"permit", "lease"}]
      BY <3>1
    <3> QED
      BY <2>1, <3>1, <3>2
  <2> QED
    BY <2>2, <2>3
<1>4. ASSUME NEW c \in Callers, NEW r \in Requests, DispatchHelper(c, r)
      PROVE  CreditsTypes'
  BY <1>4 DEF DispatchHelper, Asking
<1>5. ASSUME NEW c \in Callers, ReserveSlot(c) PROVE CreditsTypes'
  BY <1>5 DEF ReserveSlot
<1>6. ASSUME NEW c \in Callers, ReserveCredit(c) PROVE CreditsTypes'
  BY <1>6 DEF ReserveCredit
<1>7. ASSUME NEW c \in Callers, Rollback(c) PROVE CreditsTypes'
  BY <1>7 DEF Rollback
<1>8. ASSUME NEW c \in Callers, RollbackDone(c) PROVE CreditsTypes'
  BY <1>8 DEF RollbackDone, RollbackNote, notify_waiters
<1>9. ASSUME NEW c \in Callers, Enter(c) PROVE CreditsTypes'
  BY <1>9 DEF Enter
<1>10. ASSUME NEW c \in Callers, CancelQueued(c) PROVE CreditsTypes'
  BY <1>10 DEF CancelQueued
<1>11. ASSUME NEW c \in Callers, NEW panics \in BOOLEAN,
              NEW actual \in 0..Capacity + Overshoot, TurnEnds(c, actual, panics)
       PROVE  CreditsTypes'
  BY <1>11 DEF TurnEnds
<1>12. ASSUME NEW c \in Callers, SettleAdjust(c) PROVE CreditsTypes'
  BY <1>12 DEF SettleAdjust, adjust, Lower
<1>13. ASSUME NEW c \in Callers, SettleFree(c) PROVE CreditsTypes'
  BY <1>13 DEF SettleFree
<1>14. ASSUME NEW c \in Callers, SettleNote(c) PROVE CreditsTypes'
  BY <1>14 DEF SettleNote, notify_waiters
<1>15. ASSUME NEW c \in Callers, DropPermit(c) PROVE CreditsTypes'
  BY <1>15 DEF DropPermit, Settled
<1>16. ASSUME NEW c \in Callers, DropLease(c) PROVE CreditsTypes'
  BY <1>16 DEF DropLease
<1>17. ASSUME NEW c \in Callers, ReturnValue(c) PROVE CreditsTypes'
  BY <1>17 DEF ReturnValue, LeaseDrop
<1>18. ASSUME NEW c \in Callers, OpenGate(c) PROVE CreditsTypes'
  BY <1>18 DEF OpenGate, LeaseDrop
<1>19. ASSUME NEW c \in Callers, LetGo(c) PROVE CreditsTypes'
  BY <1>19 DEF LetGo
<1>20. ASSUME NEW c \in Callers, WaitFor(c) PROVE CreditsTypes'
  BY <1>20 DEF WaitFor
<1>21. ASSUME NEW c \in Callers, LookBalance(c) PROVE CreditsTypes'
  BY <1>21 DEF LookBalance
<1>22. ASSUME NEW c \in Callers, LookInFlight(c) PROVE CreditsTypes'
  BY <1>22 DEF LookInFlight
<1>23. ASSUME NEW c \in Callers, Notified(c) PROVE CreditsTypes'
  BY <1>23 DEF Notified
<1> QED
  BY <1>1, <1>2, <1>3, <1>4, <1>5, <1>6, <1>7, <1>8, <1>9, <1>10, <1>11, <1>12,
     <1>13, <1>14, <1>15, <1>16, <1>17, <1>18, <1>19, <1>20, <1>21, <1>22, <1>23 DEF CreditsStep

\* Every step keeps what a caller holds in line with where it is.
LEMMA JobsExactStep ==
    ASSUME CreditsTypes, JobsExact, CreditsStep
    PROVE  JobsExact'
<1> USE CreditsAssumption DEF CallAt, CallGoto, accountVars, ownerVars, jobVars, countVars
<1> USE DEF CreditsTypes, CreditsTypeOK, JobsExact
<1>1. CASE replenish
  BY <1>1 DEF replenish, adjust, Lower
<1>2. CASE ReplenishNote
  BY <1>2 DEF ReplenishNote, notify_waiters
<1>3. ASSUME NEW c \in Callers, NEW r \in Requests, DispatchTurn(c, r) PROVE JobsExact'
  BY <1>3 DEF DispatchTurn, Asking
<1>4. ASSUME NEW c \in Callers, NEW r \in Requests, DispatchHelper(c, r) PROVE JobsExact'
  BY <1>4 DEF DispatchHelper, Asking
<1>5. ASSUME NEW c \in Callers, ReserveSlot(c) PROVE JobsExact'
  BY <1>5 DEF ReserveSlot
<1>6. ASSUME NEW c \in Callers, ReserveCredit(c) PROVE JobsExact'
  BY <1>6 DEF ReserveCredit
<1>7. ASSUME NEW c \in Callers, Rollback(c) PROVE JobsExact'
  BY <1>7 DEF Rollback
<1>8. ASSUME NEW c \in Callers, RollbackDone(c) PROVE JobsExact'
  BY <1>8 DEF RollbackDone, RollbackNote, notify_waiters
<1>9. ASSUME NEW c \in Callers, Enter(c) PROVE JobsExact'
  BY <1>9 DEF Enter
<1>10. ASSUME NEW c \in Callers, CancelQueued(c) PROVE JobsExact'
  BY <1>10 DEF CancelQueued
<1>11. ASSUME NEW c \in Callers, NEW panics \in BOOLEAN,
              NEW actual \in 0..Capacity + Overshoot, TurnEnds(c, actual, panics)
       PROVE  JobsExact'
  BY <1>11 DEF TurnEnds
<1>12. ASSUME NEW c \in Callers, SettleAdjust(c) PROVE JobsExact'
  BY <1>12 DEF SettleAdjust, adjust, Lower
<1>13. ASSUME NEW c \in Callers, SettleFree(c) PROVE JobsExact'
  BY <1>13 DEF SettleFree
<1>14. ASSUME NEW c \in Callers, SettleNote(c) PROVE JobsExact'
  BY <1>14 DEF SettleNote, notify_waiters
<1>15. ASSUME NEW c \in Callers, DropPermit(c) PROVE JobsExact'
  BY <1>15 DEF DropPermit, Settled
<1>16. ASSUME NEW c \in Callers, DropLease(c) PROVE JobsExact'
  BY <1>16 DEF DropLease
<1>17. ASSUME NEW c \in Callers, ReturnValue(c) PROVE JobsExact'
  BY <1>17 DEF ReturnValue, LeaseDrop
<1>18. ASSUME NEW c \in Callers, OpenGate(c) PROVE JobsExact'
  BY <1>18 DEF OpenGate, LeaseDrop
<1>19. ASSUME NEW c \in Callers, LetGo(c) PROVE JobsExact'
  BY <1>19 DEF LetGo
<1>20. ASSUME NEW c \in Callers, WaitFor(c) PROVE JobsExact'
  BY <1>20 DEF WaitFor
<1>21. ASSUME NEW c \in Callers, LookBalance(c) PROVE JobsExact'
  BY <1>21 DEF LookBalance
<1>22. ASSUME NEW c \in Callers, LookInFlight(c) PROVE JobsExact'
  BY <1>22 DEF LookInFlight
<1>23. ASSUME NEW c \in Callers, Notified(c) PROVE JobsExact'
  BY <1>23 DEF Notified
<1> QED
  BY <1>1, <1>2, <1>3, <1>4, <1>5, <1>6, <1>7, <1>8, <1>9, <1>10, <1>11, <1>12,
     <1>13, <1>14, <1>15, <1>16, <1>17, <1>18, <1>19, <1>20, <1>21, <1>22, <1>23 DEF CreditsStep

\* Every step keeps the lease exclusive and the gate in line with it.
LEMMA OwnerExactStep ==
    ASSUME CreditsTypes, JobsExact, OwnerExact, CreditsStep
    PROVE  OwnerExact'
<1> USE CreditsAssumption DEF CallAt, CallGoto, accountVars, ownerVars, jobVars, countVars
<1> USE DEF CreditsTypes, CreditsTypeOK, JobsExact, OwnerExact
<1>1. CASE replenish
  BY <1>1 DEF replenish, adjust, Lower
<1>2. CASE ReplenishNote
  BY <1>2 DEF ReplenishNote, notify_waiters
<1>3. ASSUME NEW c \in Callers, NEW r \in Requests, DispatchTurn(c, r) PROVE OwnerExact'
  BY <1>3 DEF DispatchTurn, Asking
<1>4. ASSUME NEW c \in Callers, NEW r \in Requests, DispatchHelper(c, r) PROVE OwnerExact'
  BY <1>4 DEF DispatchHelper, Asking
<1>5. ASSUME NEW c \in Callers, ReserveSlot(c) PROVE OwnerExact'
  BY <1>5 DEF ReserveSlot
<1>6. ASSUME NEW c \in Callers, ReserveCredit(c) PROVE OwnerExact'
  BY <1>6 DEF ReserveCredit
<1>7. ASSUME NEW c \in Callers, Rollback(c) PROVE OwnerExact'
  BY <1>7 DEF Rollback
<1>8. ASSUME NEW c \in Callers, RollbackDone(c) PROVE OwnerExact'
  BY <1>8 DEF RollbackDone, RollbackNote, notify_waiters
<1>9. ASSUME NEW c \in Callers, Enter(c) PROVE OwnerExact'
  BY <1>9 DEF Enter
<1>10. ASSUME NEW c \in Callers, CancelQueued(c) PROVE OwnerExact'
  BY <1>10 DEF CancelQueued
<1>11. ASSUME NEW c \in Callers, NEW panics \in BOOLEAN,
              NEW actual \in 0..Capacity + Overshoot, TurnEnds(c, actual, panics)
       PROVE  OwnerExact'
  BY <1>11 DEF TurnEnds
<1>12. ASSUME NEW c \in Callers, SettleAdjust(c) PROVE OwnerExact'
  BY <1>12 DEF SettleAdjust, adjust, Lower
<1>13. ASSUME NEW c \in Callers, SettleFree(c) PROVE OwnerExact'
  BY <1>13 DEF SettleFree
<1>14. ASSUME NEW c \in Callers, SettleNote(c) PROVE OwnerExact'
  BY <1>14 DEF SettleNote, notify_waiters
<1>15. ASSUME NEW c \in Callers, DropPermit(c) PROVE OwnerExact'
  BY <1>15 DEF DropPermit, Settled
<1>16. ASSUME NEW c \in Callers, DropLease(c) PROVE OwnerExact'
  BY <1>16 DEF DropLease
<1>17. ASSUME NEW c \in Callers, ReturnValue(c) PROVE OwnerExact'
  BY <1>17 DEF ReturnValue, LeaseDrop
<1>18. ASSUME NEW c \in Callers, OpenGate(c) PROVE OwnerExact'
  BY <1>18 DEF OpenGate, LeaseDrop
<1>19. ASSUME NEW c \in Callers, LetGo(c) PROVE OwnerExact'
  BY <1>19 DEF LetGo
<1>20. ASSUME NEW c \in Callers, WaitFor(c) PROVE OwnerExact'
  BY <1>20 DEF WaitFor
<1>21. ASSUME NEW c \in Callers, LookBalance(c) PROVE OwnerExact'
  BY <1>21 DEF LookBalance
<1>22. ASSUME NEW c \in Callers, LookInFlight(c) PROVE OwnerExact'
  BY <1>22 DEF LookInFlight
<1>23. ASSUME NEW c \in Callers, Notified(c) PROVE OwnerExact'
  BY <1>23 DEF Notified
<1> QED
  BY <1>1, <1>2, <1>3, <1>4, <1>5, <1>6, <1>7, <1>8, <1>9, <1>10, <1>11, <1>12,
     <1>13, <1>14, <1>15, <1>16, <1>17, <1>18, <1>19, <1>20, <1>21, <1>22, <1>23 DEF CreditsStep

\* A waiter that looked before a permit came back is enabled by the
\* notification that follows it.
LEMMA StrandedStep ==
    ASSUME CreditsTypes, JobsExact, NoWaiterStranded, CreditsStep, UNCHANGED parallelism
    PROVE  NoWaiterStranded'
<1> USE CreditsAssumption DEF CallAt, CallGoto, accountVars, ownerVars, jobVars, countVars
<1> USE DEF CreditsTypes, CreditsTypeOK, JobsExact, NoWaiterStranded
<1>1. CASE replenish
  BY <1>1 DEF replenish, adjust, Lower
<1>2. CASE ReplenishNote
  BY <1>2 DEF ReplenishNote, notify_waiters
<1>3. ASSUME NEW c \in Callers, NEW r \in Requests, DispatchTurn(c, r)
      PROVE  NoWaiterStranded'
  BY <1>3 DEF DispatchTurn, Asking
<1>4. ASSUME NEW c \in Callers, NEW r \in Requests, DispatchHelper(c, r)
      PROVE  NoWaiterStranded'
  BY <1>4 DEF DispatchHelper, Asking
<1>5. ASSUME NEW c \in Callers, ReserveSlot(c) PROVE NoWaiterStranded'
  BY <1>5 DEF ReserveSlot
<1>6. ASSUME NEW c \in Callers, ReserveCredit(c) PROVE NoWaiterStranded'
  BY <1>6 DEF ReserveCredit
<1>7. ASSUME NEW c \in Callers, Rollback(c) PROVE NoWaiterStranded'
  BY <1>7 DEF Rollback
<1>8. ASSUME NEW c \in Callers, RollbackDone(c) PROVE NoWaiterStranded'
  BY <1>8 DEF RollbackDone, RollbackNote, notify_waiters
<1>9. ASSUME NEW c \in Callers, Enter(c) PROVE NoWaiterStranded'
  BY <1>9 DEF Enter
<1>10. ASSUME NEW c \in Callers, CancelQueued(c) PROVE NoWaiterStranded'
  BY <1>10 DEF CancelQueued
<1>11. ASSUME NEW c \in Callers, NEW panics \in BOOLEAN,
              NEW actual \in 0..Capacity + Overshoot, TurnEnds(c, actual, panics)
       PROVE  NoWaiterStranded'
  BY <1>11 DEF TurnEnds
<1>12. ASSUME NEW c \in Callers, SettleAdjust(c) PROVE NoWaiterStranded'
  BY <1>12 DEF SettleAdjust, adjust, Lower
<1>13. ASSUME NEW c \in Callers, SettleFree(c) PROVE NoWaiterStranded'
  BY <1>13 DEF SettleFree
<1>14. ASSUME NEW c \in Callers, SettleNote(c) PROVE NoWaiterStranded'
  BY <1>14 DEF SettleNote, notify_waiters
<1>15. ASSUME NEW c \in Callers, DropPermit(c) PROVE NoWaiterStranded'
  BY <1>15 DEF DropPermit, Settled
<1>16. ASSUME NEW c \in Callers, DropLease(c) PROVE NoWaiterStranded'
  BY <1>16 DEF DropLease
<1>17. ASSUME NEW c \in Callers, ReturnValue(c) PROVE NoWaiterStranded'
  BY <1>17 DEF ReturnValue, LeaseDrop
<1>18. ASSUME NEW c \in Callers, OpenGate(c) PROVE NoWaiterStranded'
  BY <1>18 DEF OpenGate, LeaseDrop
<1>19. ASSUME NEW c \in Callers, LetGo(c) PROVE NoWaiterStranded'
  BY <1>19 DEF LetGo
<1>20. ASSUME NEW c \in Callers, WaitFor(c) PROVE NoWaiterStranded'
  BY <1>20 DEF WaitFor
<1>21. ASSUME NEW c \in Callers, LookBalance(c) PROVE NoWaiterStranded'
  BY <1>21 DEF LookBalance
<1>22. ASSUME NEW c \in Callers, LookInFlight(c) PROVE NoWaiterStranded'
  BY <1>22 DEF LookInFlight
<1>23. ASSUME NEW c \in Callers, Notified(c) PROVE NoWaiterStranded'
  BY <1>23 DEF Notified
<1> QED
  BY <1>1, <1>2, <1>3, <1>4, <1>5, <1>6, <1>7, <1>8, <1>9, <1>10, <1>11, <1>12,
     <1>13, <1>14, <1>15, <1>16, <1>17, <1>18, <1>19, <1>20, <1>21, <1>22, <1>23 DEF CreditsStep

\* What one caller was lent, as a set, has as many elements as its credits.
LEMMA LentOfOne ==
    ASSUME NEW c, NEW k \in Nat
    PROVE  IsFiniteSet({c} \X (1..k)) /\ Cardinality({c} \X (1..k)) = k
<1> DEFINE T == 1..k
<1>1. IsFiniteSet(T) /\ Cardinality(T) = k
  BY FS_Interval
<1>2. IsFiniteSet({c}) /\ Cardinality({c}) = 1
  BY FS_Singleton
<1> HIDE DEF T
<1>3. /\ IsFiniteSet({c} \X T) /\ Cardinality({c} \X T) = Cardinality({c}) * Cardinality(T)
  BY <1>1, <1>2, FS_Product
<1> QED
  BY <1>1, <1>2, <1>3 DEF T

\* The credits lent are a finite set: finitely many callers, a natural number
\* each.
LEMMA LentIsFinite ==
    ASSUME CreditsTypes
    PROVE  IsFiniteSet(LentCredits) /\ Cardinality(LentCredits) \in Nat
<1> DEFINE Of(c) == {c} \X (1..Lent(c))
           f == [c \in Callers |-> Of(c)]
           S == {f[c] : c \in Callers}
<1>1. f \in Surjection(Callers, S)
  BY DEF Surjection
<1>2. IsFiniteSet(S)
  BY <1>1, FS_Surjection, CreditsAssumption
<1>3. \A T \in S : IsFiniteSet(T)
  <2>1. \A c \in Callers : Lent(c) \in Nat
    BY DEF Lent, CreditsTypes
  <2> QED
    BY <2>1, LentOfOne
<1>4. LentCredits = UNION S
  BY DEF LentCredits
<1>5. IsFiniteSet(LentCredits)
  BY <1>2, <1>3, <1>4, FS_UNION
<1> QED
  BY <1>5, FS_CardinalityType

\* When one caller's loan changes, the number of credits lent changes by the
\* difference: the sum over the callers, without induction over them.
LEMMA LentStep ==
    ASSUME CreditsTypes, CreditsTypes', NEW c \in Callers,
           \A d \in Callers : d # c => Lent(d)' = Lent(d)
    PROVE  Cardinality(LentCredits') = Cardinality(LentCredits) + Lent(c)' - Lent(c)
<1> DEFINE Rest == UNION {{d} \X (1..Lent(d)) : d \in Callers \ {c}}
           Mine == {c} \X (1..Lent(c))
           Next == {c} \X (1..Lent(c)')
<1>1. LentCredits = Rest \cup Mine /\ LentCredits' = Rest \cup Next
  BY DEF LentCredits
<1>2. Rest \cap Mine = {} /\ Rest \cap Next = {}
  OBVIOUS
<1>3. /\ Lent(c) \in Nat /\ IsFiniteSet(Mine) /\ Cardinality(Mine) = Lent(c)
  <2>1. Lent(c) \in Nat
    BY DEF Lent, CreditsTypes
  <2> QED
    BY <2>1, LentOfOne
<1>4. /\ Lent(c)' \in Nat /\ IsFiniteSet(Next) /\ Cardinality(Next) = Lent(c)'
  <2>1. Lent(c)' \in Nat
    BY DEF Lent, CreditsTypes
  <2> QED
    BY <2>1, LentOfOne
<1>5. IsFiniteSet(Rest) /\ Cardinality(Rest) \in Nat
  <2>1. IsFiniteSet(LentCredits)
    BY LentIsFinite
  <2>2. Rest \in SUBSET LentCredits
    BY <1>1
  <2> HIDE DEF Rest
  <2> QED
    BY <2>1, <2>2, FS_Subset, FS_CardinalityType
<1> HIDE DEF Rest, Mine, Next
<1>6. /\ Cardinality(Rest \cup Mine) = Cardinality(Rest) + Cardinality(Mine) - Cardinality(Rest \cap Mine)
      /\ Cardinality(Rest \cup Next) = Cardinality(Rest) + Cardinality(Next) - Cardinality(Rest \cap Next)
  BY <1>3, <1>4, <1>5, FS_Union
<1>7. Cardinality(Rest \cap Mine) = 0 /\ Cardinality(Rest \cap Next) = 0
  BY <1>2, FS_EmptySet
<1>8. /\ Cardinality(LentCredits) = Cardinality(Rest) + Lent(c)
      /\ Cardinality(Rest \cup Next) = Cardinality(Rest) + Lent(c)'
  BY <1>1, <1>3, <1>4, <1>5, <1>6, <1>7
<1>9. Cardinality(LentCredits') = Cardinality(Rest) + Lent(c)'
  BY <1>1, <1>8
<1> QED
  BY <1>3, <1>4, <1>5, <1>8, <1>9

\* The slots taken: one more, one less, or the same.
LEMMA SlotCountStep ==
    ASSUME CreditsTypes, JobsCounted, NEW c \in Callers, UNCHANGED parallelism,
           \/ InFlight' = InFlight /\ in_flight' = in_flight
           \/ /\ c \notin InFlight /\ InFlight' = InFlight \cup {c}
              /\ in_flight < parallelism /\ in_flight' = in_flight + 1
           \/ /\ c \in InFlight /\ InFlight' = InFlight \ {c}
              /\ in_flight' = in_flight - 1
    PROVE  JobsCounted'
<1>1. IsFiniteSet(InFlight)
  <2>1. InFlight \in SUBSET Callers
    BY DEF InFlight
  <2> QED
    BY <2>1, FS_Subset, CreditsAssumption
<1>2. /\ Cardinality(InFlight \cup {c}) = IF c \in InFlight THEN Cardinality(InFlight) ELSE Cardinality(InFlight) + 1
      /\ Cardinality(InFlight \ {c}) = IF c \in InFlight THEN Cardinality(InFlight) - 1 ELSE Cardinality(InFlight)
  BY <1>1, FS_AddElement, FS_RemoveElement
<1>3. in_flight' <= parallelism /\ in_flight' = Cardinality(InFlight')
  <2>1. in_flight \in Nat /\ parallelism \in Nat /\ in_flight <= parallelism /\ in_flight = Cardinality(InFlight)
    BY DEF JobsCounted, CreditsTypes, CreditsTypeOK
  <2>2. CASE InFlight' = InFlight /\ in_flight' = in_flight
    BY <2>1, <2>2
  <2>3. CASE /\ c \notin InFlight /\ InFlight' = InFlight \cup {c}
             /\ in_flight < parallelism /\ in_flight' = in_flight + 1
    BY <1>2, <2>1, <2>3
  <2>4. CASE c \in InFlight /\ InFlight' = InFlight \ {c} /\ in_flight' = in_flight - 1
    BY <1>2, <2>1, <2>4
  <2> QED
    BY <2>2, <2>3, <2>4
<1> QED
  BY <1>3 DEF JobsCounted

\* A caller that has a slot is counted.
LEMMA SlotIsCounted ==
    ASSUME CreditsTypes, JobsCounted, NEW c \in InFlight
    PROVE  in_flight > 0
<1>1. IsFiniteSet(InFlight)
  <2>1. InFlight \in SUBSET Callers
    BY DEF InFlight
  <2> QED
    BY <2>1, FS_Subset, CreditsAssumption
<1>2. Cardinality(InFlight) # 0
  BY <1>1, FS_EmptySet
<1> QED
  BY <1>2 DEF JobsCounted, CreditsTypes, CreditsTypeOK

\* Every step keeps in_flight the number of callers that have a slot.
LEMMA JobsCountedStep ==
    ASSUME CreditsTypes, JobsExact, JobsCounted, CreditsStep, UNCHANGED parallelism
    PROVE  JobsCounted'
<1> USE CreditsAssumption DEF CallAt, CallGoto, accountVars, ownerVars, jobVars, countVars
<1> USE DEF CreditsTypes, CreditsTypeOK, JobsExact
<1>1. CASE replenish
  <2>1. InFlight' = InFlight /\ in_flight' = in_flight
    BY <1>1 DEF replenish, adjust, Lower, InFlight
  <2> QED
    BY <2>1 DEF JobsCounted
<1>2. CASE ReplenishNote
  <2>1. InFlight' = InFlight /\ in_flight' = in_flight
    BY <1>2 DEF ReplenishNote, notify_waiters, InFlight
  <2> QED
    BY <2>1 DEF JobsCounted
<1>3. ASSUME NEW c \in Callers, NEW r \in Requests, DispatchTurn(c, r) PROVE JobsCounted'
  <2>1. InFlight' = InFlight /\ in_flight' = in_flight
    BY <1>3 DEF DispatchTurn, Asking, InFlight
  <2> QED
    BY <2>1, SlotCountStep
<1>4. ASSUME NEW c \in Callers, NEW r \in Requests, DispatchHelper(c, r)
      PROVE  JobsCounted'
  <2>1. InFlight' = InFlight /\ in_flight' = in_flight
    BY <1>4 DEF DispatchHelper, Asking, InFlight
  <2> QED
    BY <2>1, SlotCountStep
<1>5. ASSUME NEW c \in Callers, ReserveSlot(c) PROVE JobsCounted'
  <2>1. CASE in_flight < parallelism
    <3>1. c \notin InFlight /\ InFlight' = InFlight \cup {c} /\ in_flight' = in_flight + 1
      BY <1>5, <2>1 DEF ReserveSlot, InFlight
    <3> QED
      BY <2>1, <3>1, SlotCountStep
  <2>2. CASE ~(in_flight < parallelism)
    <3>1. InFlight' = InFlight /\ in_flight' = in_flight
      BY <1>5, <2>2 DEF ReserveSlot, InFlight
    <3> QED
      BY <3>1, SlotCountStep
  <2> QED
    BY <2>1, <2>2
<1>6. ASSUME NEW c \in Callers, ReserveCredit(c) PROVE JobsCounted'
  <2>1. InFlight' = InFlight /\ in_flight' = in_flight
    BY <1>6 DEF ReserveCredit, InFlight
  <2> QED
    BY <2>1, SlotCountStep
<1>7. ASSUME NEW c \in Callers, Rollback(c) PROVE JobsCounted'
  <2>1. c \in InFlight /\ InFlight' = InFlight \ {c} /\ in_flight' = in_flight - 1
    BY <1>7 DEF Rollback, InFlight
  <2> QED
    BY <2>1, SlotCountStep
<1>8. ASSUME NEW c \in Callers, RollbackDone(c) PROVE JobsCounted'
  <2>1. InFlight' = InFlight /\ in_flight' = in_flight
    BY <1>8 DEF RollbackDone, RollbackNote, notify_waiters, InFlight
  <2> QED
    BY <2>1, SlotCountStep
<1>9. ASSUME NEW c \in Callers, Enter(c) PROVE JobsCounted'
  <2>1. InFlight' = InFlight /\ in_flight' = in_flight
    BY <1>9 DEF Enter, InFlight
  <2> QED
    BY <2>1, SlotCountStep
<1>10. ASSUME NEW c \in Callers, CancelQueued(c) PROVE JobsCounted'
  <2>1. InFlight' = InFlight /\ in_flight' = in_flight
    BY <1>10 DEF CancelQueued, InFlight
  <2> QED
    BY <2>1, SlotCountStep
<1>11. ASSUME NEW c \in Callers, NEW panics \in BOOLEAN,
              NEW actual \in 0..Capacity + Overshoot, TurnEnds(c, actual, panics)
       PROVE  JobsCounted'
  <2>1. InFlight' = InFlight /\ in_flight' = in_flight
    BY <1>11 DEF TurnEnds, InFlight
  <2> QED
    BY <2>1, SlotCountStep
<1>12. ASSUME NEW c \in Callers, SettleAdjust(c) PROVE JobsCounted'
  <2>1. InFlight' = InFlight /\ in_flight' = in_flight
    BY <1>12 DEF SettleAdjust, adjust, Lower, InFlight
  <2> QED
    BY <2>1, SlotCountStep
<1>13. ASSUME NEW c \in Callers, SettleFree(c) PROVE JobsCounted'
  <2>1. c \in InFlight /\ InFlight' = InFlight \ {c} /\ in_flight' = in_flight - 1
    BY <1>13 DEF SettleFree, InFlight
  <2> QED
    BY <2>1, SlotCountStep
<1>14. ASSUME NEW c \in Callers, SettleNote(c) PROVE JobsCounted'
  <2>1. InFlight' = InFlight /\ in_flight' = in_flight
    BY <1>14 DEF SettleNote, notify_waiters, InFlight
  <2> QED
    BY <2>1, SlotCountStep
<1>15. ASSUME NEW c \in Callers, DropPermit(c) PROVE JobsCounted'
  <2>1. InFlight' = InFlight /\ in_flight' = in_flight
    BY <1>15 DEF DropPermit, Settled, InFlight
  <2> QED
    BY <2>1, SlotCountStep
<1>16. ASSUME NEW c \in Callers, DropLease(c) PROVE JobsCounted'
  <2>1. InFlight' = InFlight /\ in_flight' = in_flight
    BY <1>16 DEF DropLease, InFlight
  <2> QED
    BY <2>1, SlotCountStep
<1>17. ASSUME NEW c \in Callers, ReturnValue(c) PROVE JobsCounted'
  <2>1. InFlight' = InFlight /\ in_flight' = in_flight
    BY <1>17 DEF ReturnValue, LeaseDrop, InFlight
  <2> QED
    BY <2>1, SlotCountStep
<1>18. ASSUME NEW c \in Callers, OpenGate(c) PROVE JobsCounted'
  <2>1. InFlight' = InFlight /\ in_flight' = in_flight
    BY <1>18 DEF OpenGate, LeaseDrop, InFlight
  <2> QED
    BY <2>1, SlotCountStep
<1>19. ASSUME NEW c \in Callers, LetGo(c) PROVE JobsCounted'
  <2>1. InFlight' = InFlight /\ in_flight' = in_flight
    BY <1>19 DEF LetGo, InFlight
  <2> QED
    BY <2>1, SlotCountStep
<1>20. ASSUME NEW c \in Callers, WaitFor(c) PROVE JobsCounted'
  <2>1. InFlight' = InFlight /\ in_flight' = in_flight
    BY <1>20 DEF WaitFor, InFlight
  <2> QED
    BY <2>1, SlotCountStep
<1>21. ASSUME NEW c \in Callers, LookBalance(c) PROVE JobsCounted'
  <2>1. InFlight' = InFlight /\ in_flight' = in_flight
    BY <1>21 DEF LookBalance, InFlight
  <2> QED
    BY <2>1, SlotCountStep
<1>22. ASSUME NEW c \in Callers, LookInFlight(c) PROVE JobsCounted'
  <2>1. InFlight' = InFlight /\ in_flight' = in_flight
    BY <1>22 DEF LookInFlight, InFlight
  <2> QED
    BY <2>1, SlotCountStep
<1>23. ASSUME NEW c \in Callers, Notified(c) PROVE JobsCounted'
  <2>1. InFlight' = InFlight /\ in_flight' = in_flight
    BY <1>23 DEF Notified, InFlight
  <2> QED
    BY <2>1, SlotCountStep
<1> QED
  BY <1>1, <1>2, <1>3, <1>4, <1>5, <1>6, <1>7, <1>8, <1>9, <1>10, <1>11, <1>12,
     <1>13, <1>14, <1>15, <1>16, <1>17, <1>18, <1>19, <1>20, <1>21, <1>22, <1>23 DEF CreditsStep

\* Every step keeps the books: the balance, what is lent and what is spent do
\* not exceed what was granted.
LEMMA ConservedStep ==
    ASSUME CreditsTypes, CreditsTypes', JobsExact, CreditsConserved, CreditsStep
    PROVE  CreditsConserved'
<1>0. Cardinality(LentCredits) \in Nat /\ Capacity \in Nat
  BY LentIsFinite, CreditsAssumption
<1> USE CreditsAssumption DEF CallAt, CallGoto, accountVars, ownerVars, jobVars, countVars
<1> USE DEF CreditsTypes, CreditsTypeOK, JobsExact
<1>1. CASE replenish
  <2>1. LentCredits' = LentCredits
    BY <1>1 DEF replenish, LentCredits, Lent
  <2> QED
    BY <1>0, <1>1, <2>1 DEF replenish, adjust, Lower, CreditsConserved
<1>2. CASE ReplenishNote
  <2>1. LentCredits' = LentCredits
    BY <1>2 DEF ReplenishNote, LentCredits, Lent
  <2> QED
    BY <1>0, <1>2, <2>1 DEF ReplenishNote, notify_waiters, CreditsConserved
<1>3. ASSUME NEW c \in Callers, NEW r \in Requests, DispatchTurn(c, r)
      PROVE  CreditsConserved'
  <2>1. /\ Lent(c)' = Lent(c) /\ Lent(c) \in Nat
        /\ \A x \in Callers : x # c => Lent(x)' = Lent(x)
    BY <1>3 DEF DispatchTurn, Asking, Lent
  <2>2. UNCHANGED <<balance, spent, refilled>>
    BY <1>3 DEF DispatchTurn, Asking
  <2>3. Cardinality(LentCredits') = Cardinality(LentCredits) + Lent(c)' - Lent(c)
    BY <2>1, LentStep
  <2> QED
    BY <1>0, <2>1, <2>2, <2>3 DEF CreditsConserved
<1>4. ASSUME NEW c \in Callers, NEW r \in Requests, DispatchHelper(c, r)
      PROVE  CreditsConserved'
  <2>1. /\ Lent(c)' = Lent(c) /\ Lent(c) \in Nat
        /\ \A x \in Callers : x # c => Lent(x)' = Lent(x)
    BY <1>4 DEF DispatchHelper, Asking, Lent
  <2>2. UNCHANGED <<balance, spent, refilled>>
    BY <1>4 DEF DispatchHelper, Asking
  <2>3. Cardinality(LentCredits') = Cardinality(LentCredits) + Lent(c)' - Lent(c)
    BY <2>1, LentStep
  <2> QED
    BY <1>0, <2>1, <2>2, <2>3 DEF CreditsConserved
<1>5. ASSUME NEW c \in Callers, ReserveSlot(c) PROVE CreditsConserved'
  <2>1. /\ Lent(c)' = Lent(c) /\ Lent(c) \in Nat
        /\ \A x \in Callers : x # c => Lent(x)' = Lent(x)
    BY <1>5 DEF ReserveSlot, Lent
  <2>2. UNCHANGED <<balance, spent, refilled>>
    BY <1>5 DEF ReserveSlot
  <2>3. Cardinality(LentCredits') = Cardinality(LentCredits) + Lent(c)' - Lent(c)
    BY <2>1, LentStep
  <2> QED
    BY <1>0, <2>1, <2>2, <2>3 DEF CreditsConserved
<1>6. ASSUME NEW c \in Callers, ReserveCredit(c) PROVE CreditsConserved'
  <2>1. /\ Lent(c) = 0 /\ Lent(c)' = (IF balance >= asks[c] THEN asks[c] ELSE 0)
        /\ \A x \in Callers : x # c => Lent(x)' = Lent(x)
    BY <1>6 DEF ReserveCredit, Lent
  <2>2. balance' = (IF balance >= asks[c] THEN balance - asks[c] ELSE balance) /\ UNCHANGED <<spent, refilled>>
    BY <1>6 DEF ReserveCredit
  <2>3. Cardinality(LentCredits') = Cardinality(LentCredits) + Lent(c)' - Lent(c)
    BY <2>1, LentStep
  <2> QED
    BY <1>0, <2>1, <2>2, <2>3 DEF CreditsConserved
<1>7. ASSUME NEW c \in Callers, Rollback(c) PROVE CreditsConserved'
  <2>1. /\ Lent(c)' = Lent(c) /\ Lent(c) \in Nat
        /\ \A x \in Callers : x # c => Lent(x)' = Lent(x)
    BY <1>7 DEF Rollback, Lent
  <2>2. UNCHANGED <<balance, spent, refilled>>
    BY <1>7 DEF Rollback
  <2>3. Cardinality(LentCredits') = Cardinality(LentCredits) + Lent(c)' - Lent(c)
    BY <2>1, LentStep
  <2> QED
    BY <1>0, <2>1, <2>2, <2>3 DEF CreditsConserved
<1>8. ASSUME NEW c \in Callers, RollbackDone(c) PROVE CreditsConserved'
  <2>1. /\ Lent(c)' = Lent(c) /\ Lent(c) \in Nat
        /\ \A x \in Callers : x # c => Lent(x)' = Lent(x)
    BY <1>8 DEF RollbackDone, RollbackNote, notify_waiters, Lent
  <2>2. UNCHANGED <<balance, spent, refilled>>
    BY <1>8 DEF RollbackDone, RollbackNote, notify_waiters
  <2>3. Cardinality(LentCredits') = Cardinality(LentCredits) + Lent(c)' - Lent(c)
    BY <2>1, LentStep
  <2> QED
    BY <1>0, <2>1, <2>2, <2>3 DEF CreditsConserved
<1>9. ASSUME NEW c \in Callers, Enter(c) PROVE CreditsConserved'
  <2>1. /\ Lent(c)' = Lent(c) /\ Lent(c) \in Nat
        /\ \A x \in Callers : x # c => Lent(x)' = Lent(x)
    BY <1>9 DEF Enter, Lent
  <2>2. UNCHANGED <<balance, spent, refilled>>
    BY <1>9 DEF Enter
  <2>3. Cardinality(LentCredits') = Cardinality(LentCredits) + Lent(c)' - Lent(c)
    BY <2>1, LentStep
  <2> QED
    BY <1>0, <2>1, <2>2, <2>3 DEF CreditsConserved
<1>10. ASSUME NEW c \in Callers, CancelQueued(c) PROVE CreditsConserved'
  <2>1. /\ Lent(c)' = Lent(c) /\ Lent(c) \in Nat
        /\ \A x \in Callers : x # c => Lent(x)' = Lent(x)
    BY <1>10 DEF CancelQueued, Lent
  <2>2. UNCHANGED <<balance, spent, refilled>>
    BY <1>10 DEF CancelQueued
  <2>3. Cardinality(LentCredits') = Cardinality(LentCredits) + Lent(c)' - Lent(c)
    BY <2>1, LentStep
  <2> QED
    BY <1>0, <2>1, <2>2, <2>3 DEF CreditsConserved
<1>11. ASSUME NEW c \in Callers, NEW panics \in BOOLEAN,
              NEW actual \in 0..Capacity + Overshoot, TurnEnds(c, actual, panics)
       PROVE  CreditsConserved'
  <2>1. /\ Lent(c)' = Lent(c) /\ Lent(c) \in Nat
        /\ \A x \in Callers : x # c => Lent(x)' = Lent(x)
    BY <1>11 DEF TurnEnds, Lent
  <2>2. UNCHANGED <<balance, spent, refilled>>
    BY <1>11 DEF TurnEnds
  <2>3. Cardinality(LentCredits') = Cardinality(LentCredits) + Lent(c)' - Lent(c)
    BY <2>1, LentStep
  <2> QED
    BY <1>0, <2>1, <2>2, <2>3 DEF CreditsConserved
<1>12. ASSUME NEW c \in Callers, SettleAdjust(c) PROVE CreditsConserved'
  <2>1. /\ Lent(c) = asks[c] /\ Lent(c)' = 0
        /\ \A x \in Callers : x # c => Lent(x)' = Lent(x)
    BY <1>12 DEF SettleAdjust, Lent
  <2>2. balance' <= balance + (asks[c] - used[c]) /\ balance' \in Int /\ spent' = spent + used[c] /\ UNCHANGED refilled
    BY <1>12 DEF SettleAdjust, adjust, Lower
  <2>3. Cardinality(LentCredits') = Cardinality(LentCredits) + Lent(c)' - Lent(c)
    BY <2>1, LentStep
  <2> QED
    BY <1>0, <2>1, <2>2, <2>3 DEF CreditsConserved
<1>13. ASSUME NEW c \in Callers, SettleFree(c) PROVE CreditsConserved'
  <2>1. /\ Lent(c)' = Lent(c) /\ Lent(c) \in Nat
        /\ \A x \in Callers : x # c => Lent(x)' = Lent(x)
    BY <1>13 DEF SettleFree, Lent
  <2>2. UNCHANGED <<balance, spent, refilled>>
    BY <1>13 DEF SettleFree
  <2>3. Cardinality(LentCredits') = Cardinality(LentCredits) + Lent(c)' - Lent(c)
    BY <2>1, LentStep
  <2> QED
    BY <1>0, <2>1, <2>2, <2>3 DEF CreditsConserved
<1>14. ASSUME NEW c \in Callers, SettleNote(c) PROVE CreditsConserved'
  <2>1. /\ Lent(c)' = Lent(c) /\ Lent(c) \in Nat
        /\ \A x \in Callers : x # c => Lent(x)' = Lent(x)
    BY <1>14 DEF SettleNote, notify_waiters, Lent
  <2>2. UNCHANGED <<balance, spent, refilled>>
    BY <1>14 DEF SettleNote, notify_waiters
  <2>3. Cardinality(LentCredits') = Cardinality(LentCredits) + Lent(c)' - Lent(c)
    BY <2>1, LentStep
  <2> QED
    BY <1>0, <2>1, <2>2, <2>3 DEF CreditsConserved
<1>15. ASSUME NEW c \in Callers, DropPermit(c) PROVE CreditsConserved'
  <2>1. /\ Lent(c)' = Lent(c) /\ Lent(c) \in Nat
        /\ \A x \in Callers : x # c => Lent(x)' = Lent(x)
    BY <1>15 DEF DropPermit, Settled, Lent
  <2>2. UNCHANGED <<balance, spent, refilled>>
    BY <1>15 DEF DropPermit, Settled
  <2>3. Cardinality(LentCredits') = Cardinality(LentCredits) + Lent(c)' - Lent(c)
    BY <2>1, LentStep
  <2> QED
    BY <1>0, <2>1, <2>2, <2>3 DEF CreditsConserved
<1>16. ASSUME NEW c \in Callers, DropLease(c) PROVE CreditsConserved'
  <2>1. /\ Lent(c)' = Lent(c) /\ Lent(c) \in Nat
        /\ \A x \in Callers : x # c => Lent(x)' = Lent(x)
    BY <1>16 DEF DropLease, Lent
  <2>2. UNCHANGED <<balance, spent, refilled>>
    BY <1>16 DEF DropLease
  <2>3. Cardinality(LentCredits') = Cardinality(LentCredits) + Lent(c)' - Lent(c)
    BY <2>1, LentStep
  <2> QED
    BY <1>0, <2>1, <2>2, <2>3 DEF CreditsConserved
<1>17. ASSUME NEW c \in Callers, ReturnValue(c) PROVE CreditsConserved'
  <2>1. /\ Lent(c)' = Lent(c) /\ Lent(c) \in Nat
        /\ \A x \in Callers : x # c => Lent(x)' = Lent(x)
    BY <1>17 DEF ReturnValue, LeaseDrop, Lent
  <2>2. UNCHANGED <<balance, spent, refilled>>
    BY <1>17 DEF ReturnValue, LeaseDrop
  <2>3. Cardinality(LentCredits') = Cardinality(LentCredits) + Lent(c)' - Lent(c)
    BY <2>1, LentStep
  <2> QED
    BY <1>0, <2>1, <2>2, <2>3 DEF CreditsConserved
<1>18. ASSUME NEW c \in Callers, OpenGate(c) PROVE CreditsConserved'
  <2>1. /\ Lent(c)' = Lent(c) /\ Lent(c) \in Nat
        /\ \A x \in Callers : x # c => Lent(x)' = Lent(x)
    BY <1>18 DEF OpenGate, LeaseDrop, Lent
  <2>2. UNCHANGED <<balance, spent, refilled>>
    BY <1>18 DEF OpenGate, LeaseDrop
  <2>3. Cardinality(LentCredits') = Cardinality(LentCredits) + Lent(c)' - Lent(c)
    BY <2>1, LentStep
  <2> QED
    BY <1>0, <2>1, <2>2, <2>3 DEF CreditsConserved
<1>19. ASSUME NEW c \in Callers, LetGo(c) PROVE CreditsConserved'
  <2>1. /\ Lent(c)' = Lent(c) /\ Lent(c) \in Nat
        /\ \A x \in Callers : x # c => Lent(x)' = Lent(x)
    BY <1>19 DEF LetGo, Lent
  <2>2. UNCHANGED <<balance, spent, refilled>>
    BY <1>19 DEF LetGo
  <2>3. Cardinality(LentCredits') = Cardinality(LentCredits) + Lent(c)' - Lent(c)
    BY <2>1, LentStep
  <2> QED
    BY <1>0, <2>1, <2>2, <2>3 DEF CreditsConserved
<1>20. ASSUME NEW c \in Callers, WaitFor(c) PROVE CreditsConserved'
  <2>1. /\ Lent(c)' = Lent(c) /\ Lent(c) \in Nat
        /\ \A x \in Callers : x # c => Lent(x)' = Lent(x)
    BY <1>20 DEF WaitFor, Lent
  <2>2. UNCHANGED <<balance, spent, refilled>>
    BY <1>20 DEF WaitFor
  <2>3. Cardinality(LentCredits') = Cardinality(LentCredits) + Lent(c)' - Lent(c)
    BY <2>1, LentStep
  <2> QED
    BY <1>0, <2>1, <2>2, <2>3 DEF CreditsConserved
<1>21. ASSUME NEW c \in Callers, LookBalance(c) PROVE CreditsConserved'
  <2>1. /\ Lent(c)' = Lent(c) /\ Lent(c) \in Nat
        /\ \A x \in Callers : x # c => Lent(x)' = Lent(x)
    BY <1>21 DEF LookBalance, Lent
  <2>2. UNCHANGED <<balance, spent, refilled>>
    BY <1>21 DEF LookBalance
  <2>3. Cardinality(LentCredits') = Cardinality(LentCredits) + Lent(c)' - Lent(c)
    BY <2>1, LentStep
  <2> QED
    BY <1>0, <2>1, <2>2, <2>3 DEF CreditsConserved
<1>22. ASSUME NEW c \in Callers, LookInFlight(c) PROVE CreditsConserved'
  <2>1. /\ Lent(c)' = Lent(c) /\ Lent(c) \in Nat
        /\ \A x \in Callers : x # c => Lent(x)' = Lent(x)
    BY <1>22 DEF LookInFlight, Lent
  <2>2. UNCHANGED <<balance, spent, refilled>>
    BY <1>22 DEF LookInFlight
  <2>3. Cardinality(LentCredits') = Cardinality(LentCredits) + Lent(c)' - Lent(c)
    BY <2>1, LentStep
  <2> QED
    BY <1>0, <2>1, <2>2, <2>3 DEF CreditsConserved
<1>23. ASSUME NEW c \in Callers, Notified(c) PROVE CreditsConserved'
  <2>1. /\ Lent(c)' = Lent(c) /\ Lent(c) \in Nat
        /\ \A x \in Callers : x # c => Lent(x)' = Lent(x)
    BY <1>23 DEF Notified, Lent
  <2>2. UNCHANGED <<balance, spent, refilled>>
    BY <1>23 DEF Notified
  <2>3. Cardinality(LentCredits') = Cardinality(LentCredits) + Lent(c)' - Lent(c)
    BY <2>1, LentStep
  <2> QED
    BY <1>0, <2>1, <2>2, <2>3 DEF CreditsConserved
<1> QED
  BY <1>1, <1>2, <1>3, <1>4, <1>5, <1>6, <1>7, <1>8, <1>9, <1>10, <1>11, <1>12,
     <1>13, <1>14, <1>15, <1>16, <1>17, <1>18, <1>19, <1>20, <1>21, <1>22, <1>23 DEF CreditsStep

\* The invariant holds in every state of the account.
LEMMA CreditsInvariant == CreditsSpec => []CreditsInv
<1>1. CreditsInit => CreditsInv
  <2> SUFFICES ASSUME CreditsInit PROVE CreditsInv
    OBVIOUS
  <2> USE CreditsAssumption DEF CreditsInit
  <2>0. held \in [Callers -> {{}}] /\ \A c \in Callers : held[c] = {}
    OBVIOUS
  <2>1. CreditsTypes
    <3>1. held \in [Callers -> SUBSET {"permit", "lease"}]
      BY <2>0
    <3>2. /\ balance \in Int /\ parallelism \in Nat /\ in_flight \in Nat /\ spent \in Nat /\ refilled \in Nat
          /\ asks \in [Callers -> Nat] /\ used \in [Callers -> Nat]
      OBVIOUS
    <3>3. /\ refilling \in BOOLEAN /\ admitted \in BOOLEAN /\ value \in BOOLEAN /\ enabled \subseteq Callers
          /\ done \in [Callers -> BOOLEAN] /\ unwinding \in [Callers -> BOOLEAN]
      OBVIOUS
    <3> QED
      BY <3>1, <3>2, <3>3 DEF CreditsTypes, CreditsTypeOK
  <2>3. JobsExact /\ OwnerExact /\ NoWaiterStranded
    BY <2>0 DEF JobsExact, OwnerExact, NoWaiterStranded, CallAt
  <2>2. LentCredits = {} /\ InFlight = {}
    BY DEF LentCredits, Lent, InFlight
  <2> QED
    BY <2>1, <2>2, <2>3, FS_EmptySet DEF CreditsInv, CreditsConserved, JobsCounted
<1>2. CreditsInv /\ [CreditsNext]_creditsVars => CreditsInv'
  <2> SUFFICES ASSUME CreditsInv, [CreditsNext]_creditsVars PROVE CreditsInv'
    OBVIOUS
  <2> USE DEF CreditsInv
  <2>1. CASE CreditsNext
    <3>1. CreditsStep /\ UNCHANGED parallelism
      BY <2>1 DEF CreditsNext
    <3>2. in_flight > 0 \/ \A c \in Callers : call[c] \notin {"rollback", "free"}
      <4>1. \A c \in Callers : call[c] \in {"rollback", "free"} => c \in InFlight
        BY DEF InFlight, JobsExact
      <4> QED
        BY <4>1, SlotIsCounted
    <3>3. CreditsTypes'
      BY <3>1, <3>2, CreditsTypesStep
    <3> QED
      BY <3>1, <3>3, JobsExactStep, OwnerExactStep, StrandedStep, JobsCountedStep, ConservedStep
  <2>2. CASE UNCHANGED creditsVars
    BY <2>2 DEF creditsVars, accountVars, ownerVars, jobVars, countVars, CreditsTypes,
       CreditsTypeOK, JobsExact, OwnerExact, CreditsConserved, LentCredits, Lent, CallAt,
       JobsCounted, InFlight, NoWaiterStranded
  <2> QED
    BY <2>1, <2>2
<1> QED
  BY <1>1, <1>2, PTL DEF CreditsSpec

\* No interleaving of any number of reservations, rollbacks, refunds,
\* overshoots and refills makes credit, and the jobs in flight are counted
\* exactly, within the cap (reserve, settle).
THEOREM CreditsAreNotMinted == CreditsSpec => []NoCreditMinted
<1>1. CreditsInv => NoCreditMinted
  BY DEF CreditsInv, CreditsTypes, NoCreditMinted
<1> QED
  BY <1>1, CreditsInvariant, PTL

\* At most one lease is out, whatever is cancelled, panics or is refused, and
\* an open gate has the value behind it (Lease::drop, dispatch_to).
THEOREM TurnsAreExclusive == CreditsSpec => []OneTurnAtATime
<1>1. CreditsInv => OneTurnAtATime
  <2> SUFFICES ASSUME CreditsInv PROVE OneTurnAtATime
    OBVIOUS
  <2> DEFINE L == {c \in Callers : "lease" \in held[c]}
  <2>1. OwnerExact
    BY DEF CreditsInv
  <2>2. L = {} \/ \E c : L = {c}
    BY <2>1 DEF OwnerExact
  <2>3. Cardinality(L) <= 1
    <3> HIDE DEF L
    <3>1. Cardinality({}) = 0 /\ \A c : Cardinality({c}) = 1
      BY FS_EmptySet, FS_Singleton
    <3>2. CASE L = {}
      BY <3>1, <3>2
    <3>3. ASSUME NEW c, L = {c} PROVE Cardinality(L) = 1
      BY <3>1, <3>3
    <3> QED
      BY <2>2, <3>2, <3>3
  <2> QED
    BY <2>1, <2>3 DEF OwnerExact, OneTurnAtATime
<1> QED
  BY <1>1, CreditsInvariant, PTL

\* A caller parked in wait_for beside what it waits for is about to be
\* notified.
THEOREM WaitersAreNotStranded == CreditsSpec => []NoWaiterStranded
<1>1. CreditsInv => NoWaiterStranded
  BY DEF CreditsInv
<1> QED
  BY <1>1, CreditsInvariant, PTL

-----------------------------------------------------------------------------
(* The parallel loop                                                       *)

\* The types TLC checks, and those of the ranges and of the history.
LoopTypes ==
    /\ ParForTypeOK /\ leaf \in Nat \ {0} /\ woken \in BOOLEAN
    /\ end \in [Index -> 0..Indices] /\ at \in [Index -> 0..Indices]
    /\ right \in [Index -> 0..Indices] /\ ran \in [Index -> Nat]

\* A piece keeps the half it is giving away until that is in the pool.
Until(p) == IF piece[p] = "submit" THEN right[p] ELSE end[p]

\* The pieces have ranges that do not meet, each inside the loop's.
RangesExact ==
    /\ \A p \in Index : Live(p) =>
          /\ p <= at[p] /\ at[p] <= end[p] /\ p < end[p]
          /\ piece[p] = "submit" => end[p] < right[p]
          /\ piece[p] \in {"queued", "split", "submit"} => at[p] = p
    /\ \A p, q \in Index : Live(p) /\ Live(q) /\ p < q => Until(p) <= q
    /\ \A p \in Index : piece[p] # "none" => end[p] # 0
    /\ future = "new" =>
          /\ ~finished /\ ~panic
          /\ \A p \in Index : piece[p] = "none" /\ end[p] = 0 /\ ran[p] = 0

\* outstanding counts the pieces, and the one about to be published.
PiecesCounted ==
    outstanding = Cardinality({p \in Index : Live(p)})
                    + Cardinality({p \in Index : piece[p] = "submit"})
                    + (IF Unstarted THEN 1 ELSE 0)

\* Who finishes the loop is the last piece, and the future looks after it.
EndExact ==
    /\ finished => outstanding = 0
    /\ \A p \in Index : piece[p] \in {"finish", "wake"} => outstanding = 0
    /\ future \in {"ready", "unwound"} => finished
    /\ future = "ready" => ~panic

\* What is left of a piece was not run, and what was not run is left to a
\* piece, unless the loop was cancelled or its pool destroyed.
RunsExact ==
    /\ \A i \in Index : ran[i] <= 1
    /\ \A p \in Index : Live(p) => \A i \in Index : at[p] <= i /\ i < Until(p) => ran[i] = 0
    /\ \/ cancelled \/ ~pool \/ Unstarted
       \/ \A i \in Index : ran[i] = 1 \/
             \E p \in Index : /\ Live(p) /\ piece[p] # "retire"
                              /\ at[p] <= i /\ i < Until(p)

\* A pending future has its waker parked, or its task was woken.
WaiterExact ==
    /\ future \in {"again", "pending"} /\ ~woken => waiter
    /\ LoopIsAwaited

\* The inductive invariant of a parallel loop.
LoopInv == LoopTypes /\ RangesExact /\ PiecesCounted /\ EndExact /\ RunsExact /\ WaiterExact

\* Half of two indices or more is some and not all of them.
LEMMA HalfIsProper ==
    ASSUME NEW d \in Nat, d > 1
    PROVE  d \div 2 \in Nat /\ d \div 2 > 0 /\ d \div 2 < d
BY SMT

\* A piece, and the half it is giving away, are counted, and then the loop has
\* been started.
LEMMA LiveIsCounted ==
    ASSUME LoopInv, NEW p \in Index
    PROVE  /\ Live(p) => outstanding > 0
           /\ piece[p] = "submit" => outstanding > 1
           /\ piece[p] # "none" => ~Unstarted
<1> DEFINE L == {q \in Index : Live(q)}
           S == {q \in Index : piece[q] = "submit"}
<1>1. IsFiniteSet(Index)
  BY FS_Interval, ParForAssumption DEF Index
<1>2. IsFiniteSet(L) /\ IsFiniteSet(S)
  <2>1. L \in SUBSET Index /\ S \in SUBSET Index
    OBVIOUS
  <2> HIDE DEF L, S
  <2> QED
    BY <1>1, <2>1, FS_Subset
<1>3. Cardinality(L) \in Nat /\ Cardinality(S) \in Nat
  BY <1>2, FS_CardinalityType
<1>4. Live(p) => L # {}
  OBVIOUS
<1>5. piece[p] = "submit" => S # {} /\ L # {}
  BY DEF Live
<1>6. outstanding = Cardinality(L) + Cardinality(S) + (IF Unstarted THEN 1 ELSE 0)
  BY DEF LoopInv, PiecesCounted
<1>7. piece[p] # "none" => ~Unstarted
  BY DEF LoopInv, RangesExact, Unstarted
<1> HIDE DEF L, S
<1>8. (L # {} => Cardinality(L) > 0) /\ (S # {} => Cardinality(S) > 0)
  BY <1>2, <1>3, FS_EmptySet
<1> QED
  BY <1>3, <1>4, <1>5, <1>6, <1>7, <1>8

\* The first poll hands the whole range over, or ends the loop.
FirstPollEnds ==
    /\ Indices = 0 \/ cancelled
    /\ outstanding' = 0 /\ finished' = TRUE /\ future' = "ready"
    /\ piece' = piece /\ end' = end /\ at' = at

\* The first poll of a loop that has something to do submits it as one piece.
FirstPollStarts ==
    /\ 0 \in Index /\ Indices # 0 /\ end' = [end EXCEPT ![0] = Indices]
    /\ at' = [at EXCEPT ![0] = 0] /\ piece' = [piece EXCEPT ![0] = "queued"]
    /\ future' = "look" /\ outstanding' = outstanding /\ finished' = finished

\* What the first poll does, in either case.
LEMMA FirstPollFacts ==
    ASSUME LoopInv, FirstPoll
    PROVE  /\ future = "new" /\ ~finished /\ ~panic /\ outstanding = 1 /\ Unstarted
           /\ \A p \in Index : piece[p] = "none" /\ end[p] = 0 /\ ran[p] = 0
           /\ UNCHANGED <<waiter, panic, cancelled, pool, leaf, woken, ran, right>>
           /\ FirstPollEnds \/ FirstPollStarts
<1>1. /\ future = "new" /\ ~finished /\ ~panic
      /\ \A p \in Index : piece[p] = "none" /\ end[p] = 0 /\ ran[p] = 0
  BY DEF LoopInv, RangesExact, FirstPoll
<1>2. Unstarted
  BY <1>1 DEF Unstarted, LoopInv, LoopTypes
<1>3. outstanding = 1
  <2>1. {p \in Index : Live(p)} = {} /\ {p \in Index : piece[p] = "submit"} = {}
    BY <1>1 DEF Live
  <2> QED
    BY <1>2, <2>1, FS_EmptySet DEF LoopInv, PiecesCounted
<1>4. CASE Indices = 0 \/ cancelled
  BY <1>1, <1>2, <1>3, <1>4 DEF FirstPoll, FirstPollEnds, pieceVars
<1>5. CASE ~(Indices = 0 \/ cancelled)
  <2>1. 0 \in Index
    BY <1>5, ParForAssumption DEF Index
  <2> QED
    BY <1>1, <1>2, <1>3, <1>5, <2>1 DEF FirstPoll, FirstPollStarts, Submitted, PieceGoto
<1> QED
  BY <1>4, <1>5

\* A split moves the middle and no index out of a piece.
LEMMA SplitFacts ==
    ASSUME LoopInv, NEW p \in Index, Split(p)
    PROVE  /\ piece[p] = "split" /\ Live(p) /\ (Unstarted' <=> Unstarted)
           /\ UNCHANGED <<finished, waiter, panic, cancelled, pool, leaf, at, future, woken, ran>>
           /\ \/ \E middle \in 0..Indices :
                    /\ p < middle /\ middle < end[p] /\ right' = [right EXCEPT ![p] = end[p]]
                    /\ end' = [end EXCEPT ![p] = middle] /\ outstanding' = outstanding + 1
                    /\ piece' = [piece EXCEPT ![p] = "submit"]
              \/ piece' = [piece EXCEPT ![p] = "body"] /\ UNCHANGED <<right, end, outstanding>>
<1>0. /\ LoopTypes /\ RangesExact /\ Indices \in Nat /\ p \in Nat
  BY ParForAssumption DEF LoopInv, Index
<1>1. piece[p] = "split" /\ Live(p) /\ p < end[p] /\ end[p] \in 0..Indices /\ p \in Nat /\ ~Unstarted
  <2>1. piece[p] = "split" /\ Live(p)
    BY DEF Split, Live
  <2>2. ~Unstarted
    BY <2>1, LiveIsCounted
  <2> QED
    BY <1>0, <2>1, <2>2 DEF RangesExact, LoopTypes
<1>2. UNCHANGED <<finished, waiter, panic, cancelled, pool, leaf, at, future, woken, ran>>
  BY DEF Split
<1>3. CASE end[p] - p > leaf
  <2> DEFINE middle == p + (end[p] - p) \div 2
  <2>1. end[p] - p \in Nat /\ end[p] - p > 1
    BY <1>0, <1>1, <1>3 DEF LoopTypes
  <2>2. (end[p] - p) \div 2 \in Nat /\ (end[p] - p) \div 2 > 0 /\ (end[p] - p) \div 2 < end[p] - p
    BY <2>1, HalfIsProper
  <2>3. middle \in 0..Indices /\ p < middle /\ middle < end[p]
    BY <1>0, <1>1, <2>2
  <2>4. /\ right' = [right EXCEPT ![p] = end[p]] /\ end' = [end EXCEPT ![p] = middle]
        /\ outstanding' = outstanding + 1 /\ piece' = [piece EXCEPT ![p] = "submit"]
    BY <1>3 DEF Split, CountedAt, PieceGoto
  <2> HIDE DEF middle
  <2>5. end'[p] # 0
    BY <1>0, <1>1, <2>3, <2>4 DEF LoopTypes
  <2>6. ~Unstarted'
    BY <2>5 DEF Unstarted
  <2> QED
    BY <1>1, <1>2, <2>3, <2>4, <2>6
<1>4. CASE ~(end[p] - p > leaf)
  BY <1>1, <1>2, <1>4 DEF Split, PieceGoto, Unstarted
<1> QED
  BY <1>3, <1>4

\* The half given away becomes a piece where there was none.
LEMMA SubmitFacts ==
    ASSUME LoopInv, NEW p \in Index, SubmitRight(p)
    PROVE  \E r \in Index :
              /\ r = end[p] /\ p < r /\ r < right[p] /\ piece[p] = "submit" /\ piece[r] = "none"
              /\ piece' = [piece EXCEPT ![p] = "split", ![r] = "queued"]
              /\ end' = [end EXCEPT ![r] = right[p]] /\ at' = [at EXCEPT ![r] = r]
              /\ right' = [right EXCEPT ![p] = 0] /\ outstanding' = outstanding
              /\ UNCHANGED <<finished, waiter, panic, cancelled, pool, leaf, future, woken, ran>>
              /\ outstanding > 1 /\ ~Unstarted /\ ~Unstarted'
<1>0. /\ LoopTypes /\ ParForTypeOK /\ RangesExact /\ EndExact /\ Indices \in Nat /\ p \in Nat
  BY ParForAssumption DEF LoopInv, LoopTypes, Index
<1>1. /\ piece[p] = "submit" /\ Live(p) /\ p < end[p] /\ end[p] < right[p]
      /\ right[p] \in 0..Indices /\ end[p] \in Nat /\ outstanding > 1 /\ ~Unstarted
  <2>1. piece[p] = "submit" /\ Live(p)
    BY DEF SubmitRight, Live
  <2>2. ~Unstarted /\ outstanding > 1
    BY <2>1, LiveIsCounted
  <2> QED
    BY <1>0, <2>1, <2>2 DEF RangesExact, LoopTypes
<1>2. end[p] \in Index
  BY <1>0, <1>1 DEF Index
<1>3. piece[end[p]] = "none"
  <2>1. ~Live(end[p])
    BY <1>0, <1>1, <1>2 DEF RangesExact, Until, LoopTypes
  <2>2. outstanding # 0
    BY <1>0, <1>1 DEF ParForTypeOK
  <2>3. piece[end[p]] \notin {"finish", "wake"}
    BY <1>0, <1>2, <2>2 DEF EndExact
  <2> QED
    BY <1>0, <1>2, <2>1, <2>3 DEF Live, ParForTypeOK
<1>4. /\ piece' = [piece EXCEPT ![p] = "split", ![end[p]] = "queued"]
      /\ end' = [end EXCEPT ![end[p]] = right[p]] /\ at' = [at EXCEPT ![end[p]] = end[p]]
      /\ right' = [right EXCEPT ![p] = 0] /\ outstanding' = outstanding
      /\ UNCHANGED <<finished, waiter, panic, cancelled, pool, leaf, future, woken, ran>>
  BY <1>0, <1>1 DEF SubmitRight, Submitted, CountedAt, ParForTypeOK
<1>5. end'[end[p]] # 0
  BY <1>0, <1>1, <1>2, <1>4 DEF LoopTypes
<1>6. ~Unstarted'
  BY <1>2, <1>5 DEF Unstarted
<1> QED
  BY <1>1, <1>2, <1>3, <1>4, <1>6

\* What the types say, in numbers.
LEMMA LoopBounds ==
    ASSUME LoopInv
    PROVE  /\ Indices \in Nat /\ 0 \in 0..Indices /\ Indices \in 0..Indices
           /\ \A p \in Index : /\ p \in Nat /\ p < Indices
                               /\ end[p] \in Nat /\ end[p] <= Indices /\ end[p] \in 0..Indices
                               /\ at[p] \in Nat /\ at[p] <= Indices
                               /\ right[p] \in Nat /\ right[p] <= Indices /\ right[p] \in 0..Indices
                               /\ Until(p) \in Nat /\ Until(p) <= Indices
           /\ \A i \in 0..Indices : i < Indices => i \in Index
<1>1. Indices \in Nat
  BY ParForAssumption
<1> QED
  BY <1>1 DEF LoopInv, LoopTypes, Index, Until

\* Every step keeps the types.
LEMMA LoopTypesStep ==
    ASSUME LoopInv, ParForNext
    PROVE  LoopTypes'
<1>0. LoopTypes /\ ParForTypeOK /\ RangesExact /\ Indices \in Nat
  BY ParForAssumption DEF LoopInv, LoopTypes
<1> USE <1>0 DEF parShared, pieceVars, LoopTypes, ParForTypeOK
<1>1. CASE FirstPoll
  <2>0. /\ UNCHANGED <<waiter, panic, cancelled, pool, leaf, woken, ran, right>>
        /\ FirstPollEnds \/ FirstPollStarts
    BY <1>1, FirstPollFacts
  <2>1. CASE FirstPollEnds
    BY <2>0, <2>1 DEF FirstPollEnds
  <2>2. CASE FirstPollStarts
    <3>1. 0 \in 0..Indices /\ Indices \in 0..Indices
      BY LoopBounds
    <3>2. end' \in [Index -> 0..Indices] /\ at' \in [Index -> 0..Indices]
      BY <2>2, <3>1 DEF FirstPollStarts
    <3> QED
      BY <2>0, <2>2, <3>2 DEF FirstPollStarts
  <2> QED
    BY <2>0, <2>1, <2>2
<1>2. CASE LookFinished
  BY <1>2 DEF LookFinished
<1>3. CASE ParkWaker
  BY <1>3 DEF ParkWaker, ThenLook
<1>4. CASE PollLoopAgain
  BY <1>4 DEF PollLoopAgain
<1>5. CASE DropLoop
  BY <1>5 DEF DropLoop
<1>6. CASE CancelLoop
  BY <1>6 DEF CancelLoop
<1>7. CASE DestroyPool
  BY <1>7 DEF DestroyPool
<1>8. ASSUME NEW p \in Index, RunPiece(p) PROVE LoopTypes'
  BY <1>8 DEF RunPiece, PieceGoto
<1>9. ASSUME NEW p \in Index, Split(p) PROVE LoopTypes'
  <2>1. end[p] \in 0..Indices
    OBVIOUS
  <2>2. end' \in [Index -> 0..Indices] /\ right' \in [Index -> 0..Indices]
    BY <1>9, <2>1, SplitFacts
  <2>3. outstanding' \in Nat
    BY <1>9, SplitFacts
  <2> QED
    BY <1>9, <2>2, <2>3, SplitFacts
<1>10. ASSUME NEW p \in Index, SubmitRight(p) PROVE LoopTypes'
  <2>1. 0 \in 0..Indices /\ right[p] \in 0..Indices /\ \A r \in Index : r \in 0..Indices
    BY LoopBounds
  <2>2. /\ end' \in [Index -> 0..Indices] /\ at' \in [Index -> 0..Indices]
        /\ right' \in [Index -> 0..Indices]
    BY <1>10, <2>1, SubmitFacts
  <2> QED
    BY <1>10, <2>2, SubmitFacts
<1>11. ASSUME NEW p \in Index, Body(p) PROVE LoopTypes'
  <2>1. /\ UNCHANGED <<parShared, leaf, end, right, future, woken>>
        /\ piece' \in [Index -> {"none", "queued", "split", "submit", "body", "panicked", "retire", "finish", "wake"}]
    BY <1>11 DEF Body, PieceGoto
  <2>2. CASE at[p] = end[p]
    BY <1>11, <2>1, <2>2 DEF Body
  <2>3. CASE at[p] # end[p]
    <3>1. at[p] <= end[p] /\ at[p] \in Nat /\ end[p] \in Nat /\ end[p] <= Indices
      BY <1>11, LoopBounds DEF Body, RangesExact, Live
    <3>2. at[p] + 1 \in 0..Indices /\ at[p] \in 0..Indices /\ at[p] < Indices
      BY <2>3, <3>1
    <3>3. at[p] \in Index
      BY <3>2, LoopBounds
    <3>4. ran' = [ran EXCEPT ![at[p]] = ran[at[p]] + 1] /\ at' = [at EXCEPT ![p] = at[p] + 1]
      BY <1>11, <2>3 DEF Body
    <3>5. ran' \in [Index -> Nat] /\ at' \in [Index -> 0..Indices]
      BY <3>2, <3>3, <3>4
    <3> QED
      BY <2>1, <3>5
  <2> QED
    BY <2>2, <2>3
<1>12. ASSUME NEW p \in Index, RecordPanic(p) PROVE LoopTypes'
  BY <1>12 DEF RecordPanic, PieceGoto
<1>13. ASSUME NEW p \in Index, DropQueued(p) PROVE LoopTypes'
  BY <1>13 DEF DropQueued, PieceGoto
<1>14. ASSUME NEW p \in Index, Retire(p) PROVE LoopTypes'
  <2>1. outstanding > 0 /\ outstanding' = outstanding - 1
    BY <1>14, LiveIsCounted DEF Retire, Live
  <2>2. outstanding' \in Nat
    BY <2>1
  <2> QED
    BY <1>14, <2>2 DEF Retire, PieceGoto
<1>15. ASSUME NEW p \in Index, RetireLast(p) PROVE LoopTypes'
  BY <1>15 DEF RetireLast, PieceGoto
<1>16. ASSUME NEW p \in Index, WakeWaiter(p) PROVE LoopTypes'
  BY <1>16 DEF WakeWaiter, PieceGoto
<1> QED
  BY <1>1, <1>2, <1>3, <1>4, <1>5, <1>6, <1>7, <1>8, <1>9, <1>10,
     <1>11, <1>12, <1>13, <1>14, <1>15, <1>16 DEF ParForNext

\* Every step keeps the end of the loop exact: finished is set by whoever
\* took outstanding to zero, and the future answers after that.
LEMMA EndStep ==
    ASSUME LoopInv, ParForNext
    PROVE  EndExact'
<1>0. EndExact /\ ParForTypeOK /\ Indices \in Nat
  BY ParForAssumption DEF LoopInv, LoopTypes
<1> USE <1>0 DEF parShared, pieceVars, EndExact, ParForTypeOK
<1>1. CASE FirstPoll
  <2>0. /\ future = "new" /\ ~finished /\ ~panic /\ panic' = panic
        /\ FirstPollEnds \/ FirstPollStarts
        /\ \A q \in Index : piece[q] = "none"
    BY <1>1, FirstPollFacts
  <2>1. CASE FirstPollEnds
    BY <2>0, <2>1 DEF FirstPollEnds
  <2>2. CASE FirstPollStarts
    BY <2>0, <2>2 DEF FirstPollStarts
  <2> QED
    BY <2>0, <2>1, <2>2
<1>2. CASE LookFinished
  BY <1>2 DEF LookFinished
<1>3. CASE ParkWaker
  BY <1>3 DEF ParkWaker, ThenLook
<1>4. CASE PollLoopAgain
  BY <1>4 DEF PollLoopAgain
<1>5. CASE DropLoop
  BY <1>5 DEF DropLoop
<1>6. CASE CancelLoop
  BY <1>6 DEF CancelLoop
<1>7. CASE DestroyPool
  BY <1>7 DEF DestroyPool
<1>8. ASSUME NEW p \in Index, RunPiece(p) PROVE EndExact'
  BY <1>8 DEF RunPiece, PieceGoto
<1>9. ASSUME NEW p \in Index, Split(p) PROVE EndExact'
  <2>1. outstanding > 0 /\ Live(p)
    BY <1>9, SplitFacts, LiveIsCounted
  <2>2. /\ UNCHANGED <<finished, panic, future>>
        /\ \A q \in Index : piece'[q] \in {"finish", "wake"} => piece'[q] = piece[q]
    BY <1>9, SplitFacts
  <2> QED
    BY <2>1, <2>2
<1>10. ASSUME NEW p \in Index, SubmitRight(p) PROVE EndExact'
  <2>1. /\ outstanding > 1 /\ outstanding' = outstanding /\ UNCHANGED <<finished, panic, future>>
        /\ \A q \in Index : piece'[q] \in {"finish", "wake"} => piece'[q] = piece[q]
    BY <1>10, SubmitFacts
  <2> QED
    BY <2>1
<1>11. ASSUME NEW p \in Index, Body(p) PROVE EndExact'
  BY <1>11 DEF Body, PieceGoto
<1>12. ASSUME NEW p \in Index, RecordPanic(p) PROVE EndExact'
  <2>1. outstanding > 0
    BY <1>12, LiveIsCounted DEF RecordPanic, Live
  <2> QED
    BY <1>12, <2>1 DEF RecordPanic, PieceGoto
<1>13. ASSUME NEW p \in Index, DropQueued(p) PROVE EndExact'
  BY <1>13 DEF DropQueued, PieceGoto
<1>14. ASSUME NEW p \in Index, Retire(p) PROVE EndExact'
  <2>1. outstanding > 0 /\ UNCHANGED <<finished, panic, future>>
    BY <1>14, LiveIsCounted DEF Retire, Live
  <2>2. /\ outstanding' = outstanding - 1
        /\ piece' = [piece EXCEPT ![p] = IF outstanding = 1 THEN "finish" ELSE "none"]
    BY <1>14 DEF Retire, PieceGoto
  <2>3. ~finished
    BY <2>1
  <2>4. \A q \in Index : piece[q] \notin {"finish", "wake"}
    BY <2>1
  <2>5. \A q \in Index : piece'[q] \in {"finish", "wake"} => outstanding' = 0
    BY <2>1, <2>2, <2>4
  <2> QED
    BY <2>1, <2>3, <2>5
<1>15. ASSUME NEW p \in Index, RetireLast(p) PROVE EndExact'
  BY <1>15 DEF RetireLast, PieceGoto
<1>16. ASSUME NEW p \in Index, WakeWaiter(p) PROVE EndExact'
  BY <1>16 DEF WakeWaiter, PieceGoto
<1> QED
  BY <1>1, <1>2, <1>3, <1>4, <1>5, <1>6, <1>7, <1>8, <1>9, <1>10,
     <1>11, <1>12, <1>13, <1>14, <1>15, <1>16 DEF ParForNext

\* Every step keeps the waker of a pending future parked, or has woken its
\* task.
LEMMA WaiterStep ==
    ASSUME LoopInv, ParForNext
    PROVE  WaiterExact'
<1>0. WaiterExact /\ ParForTypeOK /\ Indices \in Nat
  BY ParForAssumption DEF LoopInv, LoopTypes
<1> USE <1>0 DEF parShared, pieceVars, WaiterExact, LoopIsAwaited, ParForTypeOK
<1>1. CASE FirstPoll
  <2>1. future' \in {"ready", "look"}
    BY <1>1 DEF FirstPoll
  <2> QED
    BY <2>1
<1>2. CASE LookFinished
  BY <1>2 DEF LookFinished
<1>3. CASE ParkWaker
  BY <1>3 DEF ParkWaker, ThenLook
<1>4. CASE PollLoopAgain
  BY <1>4 DEF PollLoopAgain
<1>5. CASE DropLoop
  BY <1>5 DEF DropLoop
<1>6. CASE CancelLoop
  BY <1>6 DEF CancelLoop
<1>7. CASE DestroyPool
  BY <1>7 DEF DestroyPool
<1>8. ASSUME NEW p \in Index, RunPiece(p) PROVE WaiterExact'
  BY <1>8 DEF RunPiece, PieceGoto
<1>9. ASSUME NEW p \in Index, Split(p) PROVE WaiterExact'
  BY <1>9 DEF Split, PieceGoto, CountedAt
<1>10. ASSUME NEW p \in Index, SubmitRight(p) PROVE WaiterExact'
  <2>1. \A q \in Index : piece[q] = "wake" => piece'[q] = "wake"
    BY <1>10, SubmitFacts
  <2> QED
    BY <1>10, <2>1 DEF SubmitRight
<1>11. ASSUME NEW p \in Index, Body(p) PROVE WaiterExact'
  BY <1>11 DEF Body, PieceGoto
<1>12. ASSUME NEW p \in Index, RecordPanic(p) PROVE WaiterExact'
  BY <1>12 DEF RecordPanic, PieceGoto
<1>13. ASSUME NEW p \in Index, DropQueued(p) PROVE WaiterExact'
  BY <1>13 DEF DropQueued, PieceGoto
<1>14. ASSUME NEW p \in Index, Retire(p) PROVE WaiterExact'
  BY <1>14 DEF Retire, PieceGoto
<1>15. ASSUME NEW p \in Index, RetireLast(p) PROVE WaiterExact'
  BY <1>15 DEF RetireLast, PieceGoto
<1>16. ASSUME NEW p \in Index, WakeWaiter(p) PROVE WaiterExact'
  BY <1>16 DEF WakeWaiter, PieceGoto
<1> QED
  BY <1>1, <1>2, <1>3, <1>4, <1>5, <1>6, <1>7, <1>8, <1>9, <1>10,
     <1>11, <1>12, <1>13, <1>14, <1>15, <1>16 DEF ParForNext

\* Pieces come and go one at a time.
LEMMA PiecesFinite ==
    /\ IsFiniteSet({q \in Index : Live(q)}) /\ IsFiniteSet({q \in Index : piece[q] = "submit"})
    /\ Cardinality({q \in Index : Live(q)}) \in Nat
    /\ Cardinality({q \in Index : piece[q] = "submit"}) \in Nat
<1> DEFINE L == {q \in Index : Live(q)}
           S == {q \in Index : piece[q] = "submit"}
<1>1. IsFiniteSet(Index)
  BY FS_Interval, ParForAssumption DEF Index
<1>2. L \in SUBSET Index /\ S \in SUBSET Index
  OBVIOUS
<1> HIDE DEF L, S
<1>3. IsFiniteSet(L) /\ IsFiniteSet(S)
  BY <1>1, <1>2, FS_Subset
<1>4. Cardinality(L) \in Nat /\ Cardinality(S) \in Nat
  BY <1>3, FS_CardinalityType
<1> QED
  BY <1>3, <1>4 DEF L, S

\* The ways outstanding moves together with the pieces: not at all, for a
\* half about to be published, for that half becoming a piece, and for a
\* piece that retires.
LEMMA PieceCountStep ==
    ASSUME LoopInv, NEW p \in Index, NEW r \in Index,
           \/ /\ {q \in Index : Live(q)}' = {q \in Index : Live(q)}
              /\ {q \in Index : piece[q] = "submit"}' = {q \in Index : piece[q] = "submit"}
              /\ Unstarted' <=> Unstarted
              /\ outstanding' = outstanding
           \/ /\ {q \in Index : Live(q)}' = {q \in Index : Live(q)}
              /\ {q \in Index : piece[q] = "submit"}' = {q \in Index : piece[q] = "submit"} \cup {p}
              /\ piece[p] # "submit" /\ (Unstarted' <=> Unstarted)
              /\ outstanding' = outstanding + 1
           \/ /\ {q \in Index : Live(q)}' = {q \in Index : Live(q)} \cup {r}
              /\ {q \in Index : piece[q] = "submit"}' = {q \in Index : piece[q] = "submit"} \ {p}
              /\ piece[p] = "submit" /\ ~Live(r) /\ (Unstarted' <=> Unstarted)
              /\ outstanding' = outstanding
           \/ /\ {q \in Index : Live(q)}' = {q \in Index : Live(q)} \ {p}
              /\ {q \in Index : piece[q] = "submit"}' = {q \in Index : piece[q] = "submit"}
              /\ Live(p) /\ (Unstarted' <=> Unstarted)
              /\ outstanding' = outstanding - 1
           \/ /\ {q \in Index : Live(q)}' = {q \in Index : Live(q)} \cup {p}
              /\ {q \in Index : piece[q] = "submit"}' = {q \in Index : piece[q] = "submit"}
              /\ ~Live(p) /\ Unstarted /\ ~Unstarted'
              /\ outstanding' = outstanding
    PROVE  PiecesCounted'
<1> DEFINE L == {q \in Index : Live(q)}
           S == {q \in Index : piece[q] = "submit"}
           u == IF Unstarted THEN 1 ELSE 0
<1>1. /\ IsFiniteSet(L) /\ IsFiniteSet(S) /\ Cardinality(L) \in Nat /\ Cardinality(S) \in Nat
  BY PiecesFinite
<1>2. outstanding = Cardinality(L) + Cardinality(S) + u
  BY DEF LoopInv, PiecesCounted
<1>3. SUFFICES outstanding' = Cardinality(L') + Cardinality(S') + u'
  BY DEF PiecesCounted
<1>4. /\ Cardinality(S \cup {p}) = IF p \in S THEN Cardinality(S) ELSE Cardinality(S) + 1
      /\ Cardinality(S \ {p}) = IF p \in S THEN Cardinality(S) - 1 ELSE Cardinality(S)
      /\ Cardinality(L \cup {p}) = IF p \in L THEN Cardinality(L) ELSE Cardinality(L) + 1
      /\ Cardinality(L \cup {r}) = IF r \in L THEN Cardinality(L) ELSE Cardinality(L) + 1
      /\ Cardinality(L \ {p}) = IF p \in L THEN Cardinality(L) - 1 ELSE Cardinality(L)
  <2> HIDE DEF L, S
  <2> QED
    BY <1>1, FS_AddElement, FS_RemoveElement
<1>5. /\ Live(p) <=> p \in L
      /\ Live(r) <=> r \in L
      /\ (piece[p] = "submit") <=> p \in S
  OBVIOUS
<1>6. /\ u \in {0, 1} /\ u' \in {0, 1} /\ ((Unstarted' <=> Unstarted) => u' = u)
      /\ (Unstarted /\ ~Unstarted' => u = 1 /\ u' = 0)
  OBVIOUS
<1> HIDE DEF u
<1>7. \/ L' = L /\ S' = S /\ u' = u /\ outstanding' = outstanding
      \/ L' = L /\ S' = S \cup {p} /\ p \notin S /\ u' = u /\ outstanding' = outstanding + 1
      \/ L' = L \cup {r} /\ r \notin L /\ S' = S \ {p} /\ p \in S /\ u' = u /\ outstanding' = outstanding
      \/ L' = L \ {p} /\ p \in L /\ S' = S /\ u' = u /\ outstanding' = outstanding - 1
      \/ L' = L \cup {p} /\ p \notin L /\ S' = S /\ u = 1 /\ u' = 0 /\ outstanding' = outstanding
  BY <1>5, <1>6
<1> HIDE DEF L, S
<1>8. \/ /\ Cardinality(L') = Cardinality(L) /\ Cardinality(S') = Cardinality(S)
         /\ u' = u /\ outstanding' = outstanding
      \/ /\ Cardinality(L') = Cardinality(L) /\ Cardinality(S') = Cardinality(S) + 1
         /\ u' = u /\ outstanding' = outstanding + 1
      \/ /\ Cardinality(L') = Cardinality(L) + 1 /\ Cardinality(S') = Cardinality(S) - 1
         /\ u' = u /\ outstanding' = outstanding
      \/ /\ Cardinality(L') = Cardinality(L) - 1 /\ Cardinality(S') = Cardinality(S)
         /\ u' = u /\ outstanding' = outstanding - 1
      \/ /\ Cardinality(L') = Cardinality(L) + 1 /\ Cardinality(S') = Cardinality(S)
         /\ u = 1 /\ u' = 0 /\ outstanding' = outstanding
  BY <1>4, <1>7
<1> QED
  BY <1>1, <1>2, <1>6, <1>8

\* Every step keeps outstanding the number of pieces and of halves to be
\* submitted.
LEMMA CountedStep ==
    ASSUME LoopInv, ParForNext
    PROVE  PiecesCounted'
<1>0. LoopTypes /\ ParForTypeOK /\ PiecesCounted /\ Indices \in Nat
  BY ParForAssumption DEF LoopInv, LoopTypes
<1> USE <1>0 DEF parShared, pieceVars, ParForTypeOK
<1>1. CASE FirstPoll
  <2>0. /\ Unstarted /\ outstanding = 1 /\ (FirstPollEnds \/ FirstPollStarts)
        /\ \A q \in Index : piece[q] = "none"
    BY <1>1, FirstPollFacts
  <2>1. CASE FirstPollEnds
    <3>1. /\ {q \in Index : Live(q)}' = {} /\ {q \in Index : piece[q] = "submit"}' = {}
          /\ outstanding' = 0 /\ ~Unstarted'
      BY <2>0, <2>1 DEF FirstPollEnds, Live, Unstarted
    <3> QED
      BY <3>1, FS_EmptySet DEF PiecesCounted
  <2>2. CASE FirstPollStarts
    <3>1. /\ {q \in Index : Live(q)}' = {q \in Index : Live(q)} \cup {0}
          /\ {q \in Index : piece[q] = "submit"}' = {q \in Index : piece[q] = "submit"}
          /\ ~Live(0) /\ 0 \in Index
      BY <2>0, <2>2 DEF FirstPollStarts, Live
    <3>2. end'[0] = Indices /\ Indices # 0 /\ outstanding' = outstanding
      BY <2>2 DEF FirstPollStarts, LoopTypes
    <3>3. ~Unstarted'
      BY <3>1, <3>2 DEF Unstarted
    <3> QED
      BY <2>0, <3>1, <3>2, <3>3, PieceCountStep
  <2> QED
    BY <2>0, <2>1, <2>2
<1>2. CASE LookFinished
  BY <1>2 DEF LookFinished, PiecesCounted, Live, Unstarted
<1>3. CASE ParkWaker
  BY <1>3 DEF ParkWaker, ThenLook, PiecesCounted, Live, Unstarted
<1>4. CASE PollLoopAgain
  BY <1>4 DEF PollLoopAgain, PiecesCounted, Live, Unstarted
<1>5. CASE DropLoop
  BY <1>5 DEF DropLoop, PiecesCounted, Live, Unstarted
<1>6. CASE CancelLoop
  BY <1>6 DEF CancelLoop, PiecesCounted, Live, Unstarted
<1>7. CASE DestroyPool
  BY <1>7 DEF DestroyPool, PiecesCounted, Live, Unstarted
<1>8. ASSUME NEW p \in Index, RunPiece(p) PROVE PiecesCounted'
  <2>1. /\ {q \in Index : Live(q)}' = {q \in Index : Live(q)}
        /\ {q \in Index : piece[q] = "submit"}' = {q \in Index : piece[q] = "submit"}
        /\ outstanding' = outstanding
    BY <1>8 DEF RunPiece, PieceGoto, Live
  <2>2. Unstarted' <=> Unstarted
    BY <1>8 DEF RunPiece, PieceGoto, Unstarted
  <2> QED
    BY <2>1, <2>2, PieceCountStep
<1>9. ASSUME NEW p \in Index, Split(p) PROVE PiecesCounted'
  <2>1. CASE piece' = [piece EXCEPT ![p] = "body"] /\ UNCHANGED <<right, end, outstanding>>
    <3>1. piece[p] = "split" /\ (Unstarted' <=> Unstarted)
      BY <1>9, SplitFacts
    <3>2. /\ {q \in Index : Live(q)}' = {q \in Index : Live(q)}
          /\ {q \in Index : piece[q] = "submit"}' = {q \in Index : piece[q] = "submit"}
      BY <2>1, <3>1 DEF Live
    <3> QED
      BY <2>1, <3>1, <3>2, PieceCountStep
  <2>2. CASE piece' = [piece EXCEPT ![p] = "submit"] /\ outstanding' = outstanding + 1
    <3>1. piece[p] = "split" /\ (Unstarted' <=> Unstarted)
      BY <1>9, SplitFacts
    <3>2. /\ {q \in Index : Live(q)}' = {q \in Index : Live(q)}
          /\ {q \in Index : piece[q] = "submit"}' = {q \in Index : piece[q] = "submit"} \cup {p}
          /\ piece[p] # "submit"
      BY <2>2, <3>1 DEF Live
    <3> QED
      BY <2>2, <3>1, <3>2, PieceCountStep
  <2> QED
    BY <1>9, <2>1, <2>2, SplitFacts
<1>10. ASSUME NEW p \in Index, SubmitRight(p) PROVE PiecesCounted'
  <2>1. PICK r \in Index :
           /\ r # p /\ piece[p] = "submit" /\ piece[r] = "none" /\ outstanding' = outstanding
           /\ piece' = [piece EXCEPT ![p] = "split", ![r] = "queued"] /\ ~Unstarted /\ ~Unstarted'
    <3>1. p \in Nat /\ \A r \in Index : r \in Nat
      BY LoopBounds
    <3> QED
      BY <1>10, <3>1, SubmitFacts
  <2>2. /\ {q \in Index : Live(q)}' = {q \in Index : Live(q)} \cup {r}
        /\ {q \in Index : piece[q] = "submit"}' = {q \in Index : piece[q] = "submit"} \ {p}
        /\ ~Live(r)
    BY <2>1 DEF Live
  <2> QED
    BY <2>1, <2>2, PieceCountStep
<1>11. ASSUME NEW p \in Index, Body(p) PROVE PiecesCounted'
  <2>1. /\ {q \in Index : Live(q)}' = {q \in Index : Live(q)}
        /\ {q \in Index : piece[q] = "submit"}' = {q \in Index : piece[q] = "submit"}
        /\ outstanding' = outstanding
    BY <1>11 DEF Body, PieceGoto, Live
  <2>2. Unstarted' <=> Unstarted
    BY <1>11 DEF Body, PieceGoto, Unstarted
  <2> QED
    BY <2>1, <2>2, PieceCountStep
<1>12. ASSUME NEW p \in Index, RecordPanic(p) PROVE PiecesCounted'
  <2>1. /\ {q \in Index : Live(q)}' = {q \in Index : Live(q)}
        /\ {q \in Index : piece[q] = "submit"}' = {q \in Index : piece[q] = "submit"}
        /\ outstanding' = outstanding
    BY <1>12 DEF RecordPanic, PieceGoto, Live
  <2>2. Unstarted' <=> Unstarted
    BY <1>12 DEF RecordPanic, PieceGoto, Unstarted
  <2> QED
    BY <2>1, <2>2, PieceCountStep
<1>13. ASSUME NEW p \in Index, DropQueued(p) PROVE PiecesCounted'
  <2>1. /\ {q \in Index : Live(q)}' = {q \in Index : Live(q)}
        /\ {q \in Index : piece[q] = "submit"}' = {q \in Index : piece[q] = "submit"}
        /\ outstanding' = outstanding
    BY <1>13 DEF DropQueued, PieceGoto, Live
  <2>2. Unstarted' <=> Unstarted
    BY <1>13 DEF DropQueued, PieceGoto, Unstarted
  <2> QED
    BY <2>1, <2>2, PieceCountStep
<1>14. ASSUME NEW p \in Index, Retire(p) PROVE PiecesCounted'
  <2>1. /\ {q \in Index : Live(q)}' = {q \in Index : Live(q)} \ {p}
        /\ {q \in Index : piece[q] = "submit"}' = {q \in Index : piece[q] = "submit"}
        /\ outstanding' = outstanding - 1 /\ Live(p)
    BY <1>14 DEF Retire, PieceGoto, Live
  <2>2. Unstarted' <=> Unstarted
    BY <1>14 DEF Retire, PieceGoto, Unstarted
  <2> QED
    BY <2>1, <2>2, PieceCountStep
<1>15. ASSUME NEW p \in Index, RetireLast(p) PROVE PiecesCounted'
  <2>1. /\ {q \in Index : Live(q)}' = {q \in Index : Live(q)}
        /\ {q \in Index : piece[q] = "submit"}' = {q \in Index : piece[q] = "submit"}
        /\ outstanding' = outstanding
    BY <1>15 DEF RetireLast, PieceGoto, Live
  <2>2. Unstarted' <=> Unstarted
    BY <1>15, LiveIsCounted DEF RetireLast, PieceGoto, Unstarted
  <2> QED
    BY <2>1, <2>2, PieceCountStep
<1>16. ASSUME NEW p \in Index, WakeWaiter(p) PROVE PiecesCounted'
  <2>1. /\ {q \in Index : Live(q)}' = {q \in Index : Live(q)}
        /\ {q \in Index : piece[q] = "submit"}' = {q \in Index : piece[q] = "submit"}
        /\ outstanding' = outstanding
    BY <1>16 DEF WakeWaiter, PieceGoto, Live
  <2>2. Unstarted' <=> Unstarted
    BY <1>16 DEF WakeWaiter, PieceGoto, Unstarted
  <2> QED
    BY <2>1, <2>2, PieceCountStep
<1> QED
  BY <1>1, <1>2, <1>3, <1>4, <1>5, <1>6, <1>7, <1>8, <1>9, <1>10,
     <1>11, <1>12, <1>13, <1>14, <1>15, <1>16 DEF ParForNext

\* Every step keeps the ranges of the pieces apart: a split cuts one in two.
LEMMA RangesStep ==
    ASSUME LoopInv, ParForNext
    PROVE  RangesExact'
<1>0. LoopTypes /\ ParForTypeOK /\ RangesExact /\ Indices \in Nat
  BY ParForAssumption DEF LoopInv, LoopTypes
<1> USE <1>0 DEF parShared, pieceVars, LoopTypes, ParForTypeOK, Index, RangesExact, Live, Until
<1>1. CASE FirstPoll
  <2>0. /\ \A q \in Index : piece[q] = "none" /\ end[q] = 0 /\ ran[q] = 0
        /\ FirstPollEnds \/ FirstPollStarts
    BY <1>1, FirstPollFacts
  <2>1. CASE FirstPollEnds
    BY <2>0, <2>1 DEF FirstPollEnds
  <2>2. CASE FirstPollStarts
    <3>1. /\ 0 \in Index /\ end'[0] = Indices /\ Indices # 0 /\ at'[0] = 0 /\ piece'[0] = "queued"
          /\ future' # "new"
          /\ \A q \in Index : q # 0 => piece'[q] = "none" /\ end'[q] = 0
      BY <2>0, <2>2 DEF FirstPollStarts
    <3>2. \A q \in Index : Live(q)' => q = 0
      BY <3>1
    <3> QED
      BY <3>1, <3>2
  <2> QED
    BY <2>0, <2>1, <2>2
<1>2. CASE LookFinished
  BY <1>2 DEF LookFinished
<1>3. CASE ParkWaker
  BY <1>3 DEF ParkWaker, ThenLook
<1>4. CASE PollLoopAgain
  BY <1>4 DEF PollLoopAgain
<1>5. CASE DropLoop
  BY <1>5 DEF DropLoop
<1>6. CASE CancelLoop
  BY <1>6 DEF CancelLoop
<1>7. CASE DestroyPool
  BY <1>7 DEF DestroyPool
<1>8. ASSUME NEW p \in Index, RunPiece(p) PROVE RangesExact'
  BY <1>8 DEF RunPiece, PieceGoto
<1>9. ASSUME NEW p \in Index, Split(p) PROVE RangesExact'
  <2>0. /\ piece[p] = "split" /\ Live(p) /\ p \in Nat
        /\ UNCHANGED <<finished, panic, at, future, ran>>
    BY <1>9, SplitFacts, LoopBounds
  <2>1. CASE piece' = [piece EXCEPT ![p] = "body"] /\ UNCHANGED <<right, end, outstanding>>
    BY <2>0, <2>1
  <2>2. ASSUME NEW middle \in 0..Indices, p < middle, middle < end[p],
               right' = [right EXCEPT ![p] = end[p]], end' = [end EXCEPT ![p] = middle],
               piece' = [piece EXCEPT ![p] = "submit"]
        PROVE  RangesExact'
    <3>1. \A q \in Index : (Live(q)' <=> Live(q)) /\ Until(q)' = Until(q)
      BY <2>0, <2>2
    <3>2. /\ end'[p] = middle /\ right'[p] = end[p] /\ piece'[p] = "submit" /\ at[p] = p
          /\ \A q \in Index : q # p => end'[q] = end[q] /\ right'[q] = right[q] /\ piece'[q] = piece[q]
      BY <2>0, <2>2
    <3>3. \A q \in Index : Live(q) =>
              /\ q <= at[q] /\ at[q] <= end'[q] /\ q < end'[q]
              /\ piece'[q] = "submit" => end'[q] < right'[q]
              /\ piece'[q] \in {"queued", "split", "submit"} => at[q] = q
      BY <2>0, <2>2, <3>2
    <3>4. \A q \in Index : piece'[q] # "none" => end'[q] # 0
      BY <2>0, <2>2, <3>2
    <3>5. future # "new"
      BY <2>0
    <3> HIDE DEF Until, Live
    <3> QED
      BY <2>0, <3>1, <3>3, <3>4, <3>5
  <2> QED
    BY <1>9, <2>1, <2>2, SplitFacts
<1>10. ASSUME NEW p \in Index, SubmitRight(p) PROVE RangesExact'
  <2>1. PICK r \in Index :
              /\ r = end[p] /\ p < r /\ r < right[p] /\ piece[p] = "submit" /\ piece[r] = "none"
              /\ piece' = [piece EXCEPT ![p] = "split", ![r] = "queued"]
              /\ end' = [end EXCEPT ![r] = right[p]] /\ at' = [at EXCEPT ![r] = r]
              /\ right' = [right EXCEPT ![p] = 0]
              /\ UNCHANGED <<finished, panic, future, ran>>
    BY <1>10, SubmitFacts
  <2>2. /\ Live(p) /\ ~Live(r) /\ at[p] = p /\ future # "new" /\ Until(p) = right[p]
    BY <2>1
  <2>3. p \in Nat /\ r \in Nat /\ right[p] \in Nat /\ r # p
    BY <2>1, LoopBounds
  <2>4. /\ piece'[p] = "split" /\ end'[p] = r /\ at'[p] = p
        /\ piece'[r] = "queued" /\ end'[r] = right[p] /\ at'[r] = r
        /\ \A q \in Index : q # p /\ q # r =>
              piece'[q] = piece[q] /\ end'[q] = end[q] /\ at'[q] = at[q] /\ right'[q] = right[q]
    BY <2>1, <2>2, <2>3
  <2>5. ASSUME NEW q \in Index
        PROVE  /\ Live(q)' =>
                    /\ q <= at'[q] /\ at'[q] <= end'[q] /\ q < end'[q]
                    /\ piece'[q] = "submit" => end'[q] < right'[q]
                    /\ piece'[q] \in {"queued", "split", "submit"} => at'[q] = q
               /\ piece'[q] # "none" => end'[q] # 0
    <3>1. CASE q # p /\ q # r
      BY <2>4, <3>1
    <3>2. CASE q = p \/ q = r
      <4> HIDE DEF LoopTypes, ParForTypeOK, Index, RangesExact, Live, Until
      <4> QED
        BY <2>1, <2>3, <2>4, <3>2
    <3> QED
      BY <3>1, <3>2
  <2>7. /\ Until(p)' = r /\ Until(r)' = right[p]
        /\ \A q \in Index : q # p /\ q # r => Until(q)' = Until(q) /\ (Live(q)' <=> Live(q))
    BY <2>4
  <2>8. \A x \in Index : Until(x) \in Nat /\ x \in Nat
    BY LoopBounds
  <2>9. /\ \A q \in Index : Live(q) /\ q < p => Until(q) <= p
        /\ \A q \in Index : Live(q) /\ p < q => right[p] <= q
        /\ \A q, s \in Index : Live(q) /\ Live(s) /\ q < s => Until(q) <= s
    BY <2>2
  <2>10. \A q, s \in Index : Live(q)' /\ Live(s)' /\ q < s => Until(q)' <= s
    <3> HIDE DEF LoopTypes, ParForTypeOK, Index, RangesExact, Live, Until
    <3>1. \A s \in Index : Live(s)' /\ p < s => r <= s
      BY <2>1, <2>3, <2>7, <2>8, <2>9
    <3>2. \A s \in Index : Live(s)' /\ r < s => right[p] <= s
      BY <2>1, <2>3, <2>7, <2>8, <2>9
    <3>3. \A q \in Index : q # p /\ q # r /\ Live(q) /\ q < p => Until(q) <= p
      BY <2>9
    <3>4. \A q \in Index : q # p /\ q # r /\ Live(q) /\ q < r => Until(q) <= r
      BY <2>1, <2>3, <2>8, <2>9
    <3> QED
      BY <2>7, <2>9, <3>1, <3>2, <3>3, <3>4
  <2> QED
    BY <2>1, <2>2, <2>5, <2>10
<1>11. ASSUME NEW p \in Index, Body(p) PROVE RangesExact'
  <2>1. /\ piece[p] = "body" /\ Live(p) /\ future # "new"
        /\ end' = end /\ right' = right /\ future' = future
        /\ p <= at[p] /\ at[p] <= end[p] /\ p < end[p]
    BY <1>11 DEF Body
  <2>0. p \in Nat /\ at[p] \in Nat /\ end[p] \in Nat
    BY LoopBounds
  <2>2. /\ \A q \in Index : q # p => piece'[q] = piece[q] /\ at'[q] = at[q]
        /\ piece'[p] \in {"body", "panicked", "retire"}
    BY <1>11, <2>1 DEF Body, PieceGoto
  <2>3. p <= at'[p] /\ at'[p] <= end[p]
    <3>1. at'[p] = at[p] \/ (at[p] # end[p] /\ at'[p] = at[p] + 1)
      BY <1>11 DEF Body
    <3> HIDE DEF LoopTypes, ParForTypeOK, Index, RangesExact, Live, Until
    <3> QED
      BY <2>0, <2>1, <3>1
  <2>4. \A q \in Index : (Live(q)' <=> Live(q)) /\ Until(q)' = Until(q)
    BY <2>1, <2>2
  <2>5. \A q \in Index : Live(q)' =>
          /\ q <= at'[q] /\ at'[q] <= end[q] /\ q < end[q]
          /\ piece'[q] = "submit" => end[q] < right[q]
          /\ piece'[q] \in {"queued", "split", "submit"} => at'[q] = q
    BY <2>1, <2>2, <2>3
  <2>6. \A q, s \in Index : Live(q)' /\ Live(s)' /\ q < s => Until(q)' <= s
    <3> HIDE DEF Live, Until
    <3> QED
      BY <2>4
  <2>7. \A q \in Index : piece'[q] # "none" => end[q] # 0
    BY <2>1, <2>2
  <2> QED
    BY <2>1, <2>5, <2>6, <2>7
<1>12. ASSUME NEW p \in Index, RecordPanic(p) PROVE RangesExact'
  BY <1>12 DEF RecordPanic, PieceGoto
<1>13. ASSUME NEW p \in Index, DropQueued(p) PROVE RangesExact'
  BY <1>13 DEF DropQueued, PieceGoto
<1>14. ASSUME NEW p \in Index, Retire(p) PROVE RangesExact'
  BY <1>14 DEF Retire, PieceGoto
<1>15. ASSUME NEW p \in Index, RetireLast(p) PROVE RangesExact'
  BY <1>15 DEF RetireLast, PieceGoto
<1>16. ASSUME NEW p \in Index, WakeWaiter(p) PROVE RangesExact'
  BY <1>16 DEF WakeWaiter, PieceGoto
<1> QED
  BY <1>1, <1>2, <1>3, <1>4, <1>5, <1>6, <1>7, <1>8, <1>9, <1>10,
     <1>11, <1>12, <1>13, <1>14, <1>15, <1>16 DEF ParForNext

\* What does not move an index, a range or the loop's end leaves the runs as
\* they are.
KeepsRuns ==
    /\ ran' = ran /\ (cancelled => cancelled') /\ (~pool => ~pool')
    /\ Unstarted => Unstarted'
    /\ \A p \in Index : Live(p)' => Live(p) /\ at'[p] = at[p] /\ Until(p)' = Until(p)
    /\ \A p \in Index : /\ Live(p) /\ piece[p] # "retire" /\ at[p] < Until(p)
                         /\ ~cancelled' /\ pool' => Live(p)' /\ piece'[p] # "retire"

\* Such a step keeps what was run, and what is left, exact.
LEMMA RunsKept ==
    ASSUME LoopInv, KeepsRuns
    PROVE  RunsExact'
<1> USE DEF KeepsRuns
<1>0. RunsExact /\ \A p \in Index : Until(p) \in Nat /\ at[p] \in Nat /\ p \in Nat
  BY LoopBounds DEF LoopInv
<1>1. \A i \in Index : ran'[i] <= 1
  BY <1>0 DEF RunsExact
<1>2. \A p \in Index : Live(p)' => \A i \in Index : at'[p] <= i /\ i < Until(p)' => ran'[i] = 0
  BY <1>0 DEF RunsExact
<1>3. CASE ~cancelled' /\ pool' /\ ~Unstarted' /\ ~\A i \in Index : ran[i] = 1
  <2>1. ASSUME NEW i \in Index, ran[i] # 1
        PROVE  \E p \in Index : /\ Live(p)' /\ piece'[p] # "retire"
                                /\ at'[p] <= i /\ i < Until(p)'
    <3>1. PICK p \in Index : Live(p) /\ piece[p] # "retire" /\ at[p] <= i /\ i < Until(p)
      BY <1>0, <1>3, <2>1 DEF RunsExact
    <3>2. at[p] < Until(p)
      BY <1>0, <3>1
    <3> QED
      BY <1>3, <3>1, <3>2
  <2> QED
    BY <1>1, <1>2, <2>1 DEF RunsExact
<1>4. CASE cancelled' \/ ~pool' \/ Unstarted' \/ \A i \in Index : ran[i] = 1
  BY <1>1, <1>2, <1>4 DEF RunsExact
<1> QED
  BY <1>3, <1>4

\* Every step keeps it exact: an index is run by the piece it is left to,
\* which goes past it, and a split leaves each of its indices to one of the
\* halves.
LEMMA RunsStep ==
    ASSUME LoopInv, ParForNext
    PROVE  RunsExact'
<1>0. LoopTypes /\ ParForTypeOK /\ RangesExact /\ RunsExact /\ Indices \in Nat
  BY ParForAssumption DEF LoopInv, LoopTypes
<1> USE <1>0 DEF parShared, pieceVars, ParForTypeOK
<1>1. CASE FirstPoll
  <2>0. /\ \A q \in Index : piece[q] = "none" /\ ran[q] = 0
        /\ ran' = ran /\ cancelled' = cancelled /\ (FirstPollEnds \/ FirstPollStarts)
    BY <1>1, FirstPollFacts
  <2>1. CASE FirstPollEnds
    <3>1. cancelled' \/ Index = {}
      BY <2>0, <2>1 DEF FirstPollEnds, Index
    <3>2. \A q \in Index : ~Live(q)' /\ ran'[q] = 0
      BY <2>0, <2>1 DEF FirstPollEnds, Live
    <3> QED
      BY <3>1, <3>2 DEF RunsExact
  <2>2. CASE FirstPollStarts
    <3>1. /\ 0 \in Index /\ Live(0)' /\ piece'[0] # "retire" /\ at'[0] = 0 /\ Until(0)' = Indices
      BY <2>0, <2>2 DEF FirstPollStarts, LoopTypes, Live, Until
    <3>2. \A i \in Index : at'[0] <= i /\ i < Until(0)' /\ ran'[i] = 0
      BY <2>0, <3>1, LoopBounds
    <3> QED
      BY <3>1, <3>2 DEF RunsExact
  <2> QED
    BY <2>0, <2>1, <2>2
<1>2. CASE LookFinished
  <2>1. ran' = ran /\ (cancelled => cancelled') /\ (~pool => ~pool')
    BY <1>2 DEF LookFinished
  <2>2. Unstarted => Unstarted'
    BY <1>2 DEF LookFinished, Unstarted
  <2>3. \A q \in Index : Live(q)' => Live(q) /\ at'[q] = at[q] /\ Until(q)' = Until(q)
    BY <1>2 DEF LookFinished, Live, Until
  <2>4. \A q \in Index : /\ Live(q) /\ piece[q] # "retire" /\ at[q] < Until(q)
                          /\ ~cancelled' /\ pool' => Live(q)' /\ piece'[q] # "retire"
    BY <1>2 DEF LookFinished, Live
  <2>5. KeepsRuns
    BY <2>1, <2>2, <2>3, <2>4 DEF KeepsRuns
  <2> QED
    BY <2>5, RunsKept
<1>3. CASE ParkWaker
  <2>1. ran' = ran /\ (cancelled => cancelled') /\ (~pool => ~pool')
    BY <1>3 DEF ParkWaker, ThenLook
  <2>2. Unstarted => Unstarted'
    BY <1>3 DEF ParkWaker, ThenLook, Unstarted
  <2>3. \A q \in Index : Live(q)' => Live(q) /\ at'[q] = at[q] /\ Until(q)' = Until(q)
    BY <1>3 DEF ParkWaker, ThenLook, Live, Until
  <2>4. \A q \in Index : /\ Live(q) /\ piece[q] # "retire" /\ at[q] < Until(q)
                          /\ ~cancelled' /\ pool' => Live(q)' /\ piece'[q] # "retire"
    BY <1>3 DEF ParkWaker, ThenLook, Live
  <2>5. KeepsRuns
    BY <2>1, <2>2, <2>3, <2>4 DEF KeepsRuns
  <2> QED
    BY <2>5, RunsKept
<1>4. CASE PollLoopAgain
  <2>1. ran' = ran /\ (cancelled => cancelled') /\ (~pool => ~pool')
    BY <1>4 DEF PollLoopAgain
  <2>2. Unstarted => Unstarted'
    BY <1>4 DEF PollLoopAgain, Unstarted
  <2>3. \A q \in Index : Live(q)' => Live(q) /\ at'[q] = at[q] /\ Until(q)' = Until(q)
    BY <1>4 DEF PollLoopAgain, Live, Until
  <2>4. \A q \in Index : /\ Live(q) /\ piece[q] # "retire" /\ at[q] < Until(q)
                          /\ ~cancelled' /\ pool' => Live(q)' /\ piece'[q] # "retire"
    BY <1>4 DEF PollLoopAgain, Live
  <2>5. KeepsRuns
    BY <2>1, <2>2, <2>3, <2>4 DEF KeepsRuns
  <2> QED
    BY <2>5, RunsKept
<1>5. CASE DropLoop
  <2>1. ran' = ran /\ (cancelled => cancelled') /\ (~pool => ~pool')
    BY <1>5 DEF DropLoop
  <2>2. Unstarted => Unstarted'
    BY <1>5 DEF DropLoop, Unstarted
  <2>3. \A q \in Index : Live(q)' => Live(q) /\ at'[q] = at[q] /\ Until(q)' = Until(q)
    BY <1>5 DEF DropLoop, Live, Until
  <2>4. \A q \in Index : /\ Live(q) /\ piece[q] # "retire" /\ at[q] < Until(q)
                          /\ ~cancelled' /\ pool' => Live(q)' /\ piece'[q] # "retire"
    BY <1>5 DEF DropLoop, Live
  <2>5. KeepsRuns
    BY <2>1, <2>2, <2>3, <2>4 DEF KeepsRuns
  <2> QED
    BY <2>5, RunsKept
<1>6. CASE CancelLoop
  <2>1. ran' = ran /\ (cancelled => cancelled') /\ (~pool => ~pool')
    BY <1>6 DEF CancelLoop
  <2>2. Unstarted => Unstarted'
    BY <1>6 DEF CancelLoop, Unstarted
  <2>3. \A q \in Index : Live(q)' => Live(q) /\ at'[q] = at[q] /\ Until(q)' = Until(q)
    BY <1>6 DEF CancelLoop, Live, Until
  <2>4. \A q \in Index : /\ Live(q) /\ piece[q] # "retire" /\ at[q] < Until(q)
                          /\ ~cancelled' /\ pool' => Live(q)' /\ piece'[q] # "retire"
    BY <1>6 DEF CancelLoop, Live
  <2>5. KeepsRuns
    BY <2>1, <2>2, <2>3, <2>4 DEF KeepsRuns
  <2> QED
    BY <2>5, RunsKept
<1>7. CASE DestroyPool
  <2>1. ran' = ran /\ (cancelled => cancelled') /\ (~pool => ~pool')
    BY <1>7 DEF DestroyPool
  <2>2. Unstarted => Unstarted'
    BY <1>7 DEF DestroyPool, Unstarted
  <2>3. \A q \in Index : Live(q)' => Live(q) /\ at'[q] = at[q] /\ Until(q)' = Until(q)
    BY <1>7 DEF DestroyPool, Live, Until
  <2>4. \A q \in Index : /\ Live(q) /\ piece[q] # "retire" /\ at[q] < Until(q)
                          /\ ~cancelled' /\ pool' => Live(q)' /\ piece'[q] # "retire"
    BY <1>7 DEF DestroyPool, Live
  <2>5. KeepsRuns
    BY <2>1, <2>2, <2>3, <2>4 DEF KeepsRuns
  <2> QED
    BY <2>5, RunsKept
<1>8. ASSUME NEW p \in Index, RunPiece(p) PROVE RunsExact'
  <2>1. ran' = ran /\ (cancelled => cancelled') /\ (~pool => ~pool')
    BY <1>8 DEF RunPiece, PieceGoto
  <2>2. Unstarted => Unstarted'
    BY <1>8 DEF RunPiece, PieceGoto, Unstarted
  <2>3. \A q \in Index : Live(q)' => Live(q) /\ at'[q] = at[q] /\ Until(q)' = Until(q)
    BY <1>8 DEF RunPiece, PieceGoto, Live, Until
  <2>4. \A q \in Index : /\ Live(q) /\ piece[q] # "retire" /\ at[q] < Until(q)
                          /\ ~cancelled' /\ pool' => Live(q)' /\ piece'[q] # "retire"
    BY <1>8 DEF RunPiece, PieceGoto, Live
  <2>5. KeepsRuns
    BY <2>1, <2>2, <2>3, <2>4 DEF KeepsRuns
  <2> QED
    BY <2>5, RunsKept
<1>9. ASSUME NEW p \in Index, Split(p) PROVE RunsExact'
  <2>0. /\ piece[p] = "split" /\ Live(p) /\ (Unstarted => Unstarted')
        /\ ran' = ran /\ at' = at /\ cancelled' = cancelled /\ pool' = pool
    BY <1>9, SplitFacts
  <2>1. /\ \A q \in Index : q # p => piece'[q] = piece[q] /\ end'[q] = end[q] /\ right'[q] = right[q]
        /\ \/ piece'[p] = "submit" /\ right'[p] = end[p]
           \/ piece'[p] = "body" /\ end'[p] = end[p]
    BY <1>9, SplitFacts DEF LoopTypes
  <2>2. \A q \in Index : (Live(q)' <=> Live(q)) /\ Until(q)' = Until(q)
    BY <2>0, <2>1 DEF Live, Until
  <2>3. \A q \in Index : piece'[q] = "retire" => piece[q] = "retire"
    BY <2>1
  <2>5. KeepsRuns
    BY <2>0, <2>2, <2>3 DEF KeepsRuns
  <2> QED
    BY <2>5, RunsKept
<1>10. ASSUME NEW p \in Index, SubmitRight(p) PROVE RunsExact'
  <2>1. PICK r \in Index :
              /\ r = end[p] /\ p < r /\ r < right[p] /\ piece[p] = "submit" /\ piece[r] = "none"
              /\ piece' = [piece EXCEPT ![p] = "split", ![r] = "queued"]
              /\ end' = [end EXCEPT ![r] = right[p]] /\ at' = [at EXCEPT ![r] = r]
              /\ right' = [right EXCEPT ![p] = 0]
              /\ UNCHANGED <<cancelled, pool, ran>> /\ ~Unstarted
    BY <1>10, SubmitFacts
  <2>2. p \in Nat /\ r \in Nat /\ right[p] \in Nat /\ r # p /\ \A i \in Index : i \in Nat
    BY <2>1, LoopBounds
  <2>3. /\ Live(p) /\ Live(p)' /\ Live(r)' /\ ~Live(r)
        /\ piece'[p] # "retire" /\ piece'[r] # "retire"
        /\ at'[p] = at[p] /\ at'[r] = r
        /\ Until(p) = right[p] /\ Until(p)' = r /\ Until(r)' = right[p]
    BY <2>1, <2>2 DEF Live, Until, LoopTypes
  <2>4. at[p] = p
    BY <2>1, <2>3 DEF RangesExact
  <2>5. \A q \in Index : q # p /\ q # r =>
           /\ Live(q)' <=> Live(q)
           /\ at'[q] = at[q] /\ Until(q)' = Until(q) /\ piece'[q] = piece[q]
    BY <2>1 DEF Live, Until, LoopTypes
  <2>6. ASSUME NEW q \in Index, Live(q)', NEW i \in Index, at'[q] <= i, i < Until(q)'
        PROVE  ran'[i] = 0
    <3>1. CASE q # p /\ q # r
      BY <2>1, <2>5, <2>6, <3>1 DEF RunsExact
    <3>2. CASE q = p \/ q = r
      <4>1. at[p] <= i /\ i < Until(p)
        BY <2>1, <2>2, <2>3, <2>4, <2>6, <3>2
      <4> QED
        BY <2>1, <2>3, <4>1 DEF RunsExact
    <3> QED
      BY <3>1, <3>2
  <2>7. ASSUME NEW i \in Index,
               \E q \in Index : Live(q) /\ piece[q] # "retire" /\ at[q] <= i /\ i < Until(q)
        PROVE  \E q \in Index : Live(q)' /\ piece'[q] # "retire" /\ at'[q] <= i /\ i < Until(q)'
    <3>1. PICK q \in Index : Live(q) /\ piece[q] # "retire" /\ at[q] <= i /\ i < Until(q)
      BY <2>7
    <3>2. CASE q # p
      BY <2>3, <2>5, <3>1, <3>2
    <3>3. CASE q = p /\ i < r
      BY <2>3, <3>1, <3>3
    <3>4. CASE q = p /\ ~(i < r)
      <4>1. r <= i /\ i < right[p]
        BY <2>2, <2>3, <3>1, <3>4
      <4> QED
        BY <2>3, <4>1
    <3> QED
      BY <3>2, <3>3, <3>4
  <2>8. \A i \in Index : ran'[i] <= 1
    BY <2>1 DEF RunsExact
  <2> QED
    BY <2>1, <2>6, <2>7, <2>8 DEF RunsExact
<1>11. ASSUME NEW p \in Index, Body(p) PROVE RunsExact'
  <2>0. /\ piece[p] = "body" /\ Live(p) /\ Until(p) = end[p]
        /\ end' = end /\ right' = right /\ cancelled' = cancelled /\ pool' = pool /\ finished' = finished
    BY <1>11 DEF Body, Live, Until
  <2>1. p <= at[p] /\ at[p] <= end[p] /\ \A i \in Index : i \in Nat /\ at[i] \in Nat /\ Until(i) \in Nat
    BY <2>0, LoopBounds DEF RangesExact
  <2>2. /\ \A q \in Index : q # p => piece'[q] = piece[q] /\ at'[q] = at[q]
        /\ piece'[p] \in {"body", "panicked", "retire"}
    BY <1>11, <2>0 DEF Body, PieceGoto, LoopTypes
  <2>3. \A q \in Index : (Live(q)' <=> Live(q)) /\ Until(q)' = Until(q)
    BY <2>0, <2>2 DEF Live, Until
  <2>4. Unstarted' <=> Unstarted
    BY <2>0 DEF Unstarted
  <2>5. CASE at[p] = end[p]
    <3>1. at' = at /\ ran' = ran
      BY <1>11, <2>5 DEF Body
    <3>2. ~(at[p] < Until(p))
      BY <2>0, <2>1, <2>5
    <3>3. KeepsRuns
      BY <2>0, <2>2, <2>3, <2>4, <3>1, <3>2 DEF KeepsRuns
    <3> QED
      BY <3>3, RunsKept
  <2>6. CASE at[p] # end[p]
    <3>1. /\ ran' = [ran EXCEPT ![at[p]] = ran[at[p]] + 1] /\ at'[p] = at[p] + 1
          /\ piece'[p] # "retire"
      BY <1>11, <2>0, <2>6 DEF Body, LoopTypes
    <3>2. at[p] \in Index /\ at[p] < Until(p)
      <4>1. at[p] < end[p] /\ end[p] <= Indices
        BY <2>0, <2>1, <2>6, LoopBounds
      <4>2. at[p] \in 0..Indices
        BY DEF LoopTypes
      <4> QED
        BY <2>0, <2>1, <4>1, <4>2, LoopBounds
    <3>3. ran[at[p]] = 0
      BY <2>0, <2>1, <3>2 DEF RunsExact
    <3>4. ran'[at[p]] = 1 /\ \A i \in Index : i # at[p] => ran'[i] = ran[i]
      BY <3>1, <3>2, <3>3 DEF LoopTypes
    <3>5. \A i \in Index : ran'[i] <= 1
      BY <3>4 DEF RunsExact
    <3>6. \A q \in Index : Live(q) /\ q # p => ~(at[q] <= at[p] /\ at[p] < Until(q))
      <4>1. /\ \A q \in Index : Live(q) => q <= at[q]
            /\ \A q \in Index : Live(q) /\ q < p => Until(q) <= p
            /\ \A q \in Index : Live(q) /\ p < q => Until(p) <= q
        BY <2>0 DEF RangesExact
      <4> QED
        BY <2>1, <3>2, <4>1
    <3>7. ASSUME NEW q \in Index, Live(q)', NEW i \in Index, at'[q] <= i, i < Until(q)'
          PROVE  ran'[i] = 0
      <4>1. Live(q) /\ i < Until(q) /\ i \in Nat
        BY <2>1, <2>3, <3>7
      <4>2. at[q] <= i /\ i # at[p]
        <5>1. CASE q = p
          BY <2>1, <3>1, <3>7, <5>1
        <5>2. CASE q # p
          BY <2>2, <3>6, <3>7, <4>1, <5>2
        <5> QED
          BY <5>1, <5>2
      <4>3. ran[i] = 0
        BY <4>1, <4>2 DEF RunsExact
      <4> QED
        BY <3>4, <4>2, <4>3
    <3>8. ASSUME NEW i \in Index, i # at[p],
                 \E q \in Index : Live(q) /\ piece[q] # "retire" /\ at[q] <= i /\ i < Until(q)
          PROVE  \E q \in Index : Live(q)' /\ piece'[q] # "retire" /\ at'[q] <= i /\ i < Until(q)'
      <4>1. PICK q \in Index : Live(q) /\ piece[q] # "retire" /\ at[q] <= i /\ i < Until(q)
        BY <3>8
      <4>2. at'[q] <= i
        BY <2>1, <2>2, <3>1, <3>8, <4>1
      <4>3. piece'[q] # "retire"
        BY <2>2, <3>1, <4>1
      <4> QED
        BY <2>3, <4>1, <4>2, <4>3
    <3>9. CASE ~cancelled /\ pool /\ ~Unstarted
      <4>1. \A i \in Index : ran'[i] = 1 \/
               \E q \in Index : Live(q)' /\ piece'[q] # "retire" /\ at'[q] <= i /\ i < Until(q)'
        BY <3>4, <3>8, <3>9 DEF RunsExact
      <4> QED
        BY <3>5, <3>7, <4>1 DEF RunsExact
    <3>10. CASE cancelled \/ ~pool \/ Unstarted
      BY <2>0, <2>4, <3>5, <3>7, <3>10 DEF RunsExact
    <3> QED
      BY <3>9, <3>10
  <2> QED
    BY <2>5, <2>6
<1>12. ASSUME NEW p \in Index, RecordPanic(p) PROVE RunsExact'
  <2>1. ran' = ran /\ (cancelled => cancelled') /\ (~pool => ~pool')
    BY <1>12 DEF RecordPanic, PieceGoto
  <2>2. Unstarted => Unstarted'
    BY <1>12 DEF RecordPanic, PieceGoto, Unstarted
  <2>3. \A q \in Index : Live(q)' => Live(q) /\ at'[q] = at[q] /\ Until(q)' = Until(q)
    BY <1>12 DEF RecordPanic, PieceGoto, Live, Until
  <2>4. \A q \in Index : /\ Live(q) /\ piece[q] # "retire" /\ at[q] < Until(q)
                          /\ ~cancelled' /\ pool' => Live(q)' /\ piece'[q] # "retire"
    BY <1>12 DEF RecordPanic, PieceGoto, Live
  <2>5. KeepsRuns
    BY <2>1, <2>2, <2>3, <2>4 DEF KeepsRuns
  <2> QED
    BY <2>5, RunsKept
<1>13. ASSUME NEW p \in Index, DropQueued(p) PROVE RunsExact'
  <2>1. ran' = ran /\ (cancelled => cancelled') /\ (~pool => ~pool')
    BY <1>13 DEF DropQueued, PieceGoto
  <2>2. Unstarted => Unstarted'
    BY <1>13 DEF DropQueued, PieceGoto, Unstarted
  <2>3. \A q \in Index : Live(q)' => Live(q) /\ at'[q] = at[q] /\ Until(q)' = Until(q)
    BY <1>13 DEF DropQueued, PieceGoto, Live, Until
  <2>4. \A q \in Index : /\ Live(q) /\ piece[q] # "retire" /\ at[q] < Until(q)
                          /\ ~cancelled' /\ pool' => Live(q)' /\ piece'[q] # "retire"
    BY <1>13 DEF DropQueued, PieceGoto, Live
  <2>5. KeepsRuns
    BY <2>1, <2>2, <2>3, <2>4 DEF KeepsRuns
  <2> QED
    BY <2>5, RunsKept
<1>14. ASSUME NEW p \in Index, Retire(p) PROVE RunsExact'
  <2>1. ran' = ran /\ (cancelled => cancelled') /\ (~pool => ~pool')
    BY <1>14 DEF Retire, PieceGoto
  <2>2. Unstarted => Unstarted'
    BY <1>14 DEF Retire, PieceGoto, Unstarted
  <2>3. \A q \in Index : Live(q)' => Live(q) /\ at'[q] = at[q] /\ Until(q)' = Until(q)
    BY <1>14 DEF Retire, PieceGoto, Live, Until
  <2>4. \A q \in Index : /\ Live(q) /\ piece[q] # "retire" /\ at[q] < Until(q)
                          /\ ~cancelled' /\ pool' => Live(q)' /\ piece'[q] # "retire"
    BY <1>14 DEF Retire, PieceGoto, Live
  <2>5. KeepsRuns
    BY <2>1, <2>2, <2>3, <2>4 DEF KeepsRuns
  <2> QED
    BY <2>5, RunsKept
<1>15. ASSUME NEW p \in Index, RetireLast(p) PROVE RunsExact'
  <2>1. ran' = ran /\ (cancelled => cancelled') /\ (~pool => ~pool')
    BY <1>15 DEF RetireLast, PieceGoto
  <2>2. Unstarted => Unstarted'
    BY <1>15, LiveIsCounted DEF RetireLast, PieceGoto, Unstarted
  <2>3. \A q \in Index : Live(q)' => Live(q) /\ at'[q] = at[q] /\ Until(q)' = Until(q)
    BY <1>15 DEF RetireLast, PieceGoto, Live, Until
  <2>4. \A q \in Index : /\ Live(q) /\ piece[q] # "retire" /\ at[q] < Until(q)
                          /\ ~cancelled' /\ pool' => Live(q)' /\ piece'[q] # "retire"
    BY <1>15 DEF RetireLast, PieceGoto, Live
  <2>5. KeepsRuns
    BY <2>1, <2>2, <2>3, <2>4 DEF KeepsRuns
  <2> QED
    BY <2>5, RunsKept
<1>16. ASSUME NEW p \in Index, WakeWaiter(p) PROVE RunsExact'
  <2>1. ran' = ran /\ (cancelled => cancelled') /\ (~pool => ~pool')
    BY <1>16 DEF WakeWaiter, PieceGoto
  <2>2. Unstarted => Unstarted'
    BY <1>16 DEF WakeWaiter, PieceGoto, Unstarted
  <2>3. \A q \in Index : Live(q)' => Live(q) /\ at'[q] = at[q] /\ Until(q)' = Until(q)
    BY <1>16 DEF WakeWaiter, PieceGoto, Live, Until
  <2>4. \A q \in Index : /\ Live(q) /\ piece[q] # "retire" /\ at[q] < Until(q)
                          /\ ~cancelled' /\ pool' => Live(q)' /\ piece'[q] # "retire"
    BY <1>16 DEF WakeWaiter, PieceGoto, Live
  <2>5. KeepsRuns
    BY <2>1, <2>2, <2>3, <2>4 DEF KeepsRuns
  <2> QED
    BY <2>5, RunsKept
<1> QED
  BY <1>1, <1>2, <1>3, <1>4, <1>5, <1>6, <1>7, <1>8, <1>9, <1>10,
     <1>11, <1>12, <1>13, <1>14, <1>15, <1>16 DEF ParForNext

\* The invariant holds in every state of the loop.
LEMMA LoopInvariant == ParForSpec => []LoopInv
<1>1. ParForInit => LoopInv
  <2> SUFFICES ASSUME ParForInit PROVE LoopInv
    OBVIOUS
  <2>0. 0 \in 0..Indices
    BY ParForAssumption
  <2>1. LoopTypes
    BY <2>0, ParForAssumption DEF ParForInit, LoopTypes, ParForTypeOK
  <2>2. RangesExact /\ EndExact /\ WaiterExact
    BY DEF ParForInit, RangesExact, EndExact, WaiterExact, LoopIsAwaited, Live
  <2>3. Unstarted /\ \A p \in Index : ~Live(p) /\ ran[p] = 0 /\ piece[p] # "submit"
    BY DEF ParForInit, Unstarted, Live
  <2>4. RunsExact
    BY <2>3 DEF RunsExact
  <2>5. PiecesCounted
    <3>1. {p \in Index : Live(p)} = {} /\ {p \in Index : piece[p] = "submit"} = {} /\ outstanding = 1
      BY <2>3 DEF ParForInit
    <3> QED
      BY <2>3, <3>1, FS_EmptySet DEF PiecesCounted
  <2> QED
    BY <2>1, <2>2, <2>4, <2>5 DEF LoopInv
<1>2. LoopInv /\ [ParForNext]_parVars => LoopInv'
  <2> SUFFICES ASSUME LoopInv, [ParForNext]_parVars PROVE LoopInv'
    OBVIOUS
  <2>1. CASE ParForNext
    BY <2>1, LoopTypesStep, RangesStep, CountedStep, EndStep, RunsStep, WaiterStep DEF LoopInv
  <2>2. CASE UNCHANGED parVars
    <3>1. /\ UNCHANGED <<outstanding, finished, waiter, panic, cancelled, pool, leaf, piece>>
          /\ UNCHANGED <<end, at, right, future, woken, ran>>
      BY <2>2 DEF parVars, parShared, pieceVars
    <3>2. LoopTypes'
      BY <3>1 DEF LoopInv, LoopTypes, ParForTypeOK
    <3>3. RangesExact' /\ EndExact' /\ WaiterExact'
      BY <3>1 DEF LoopInv, RangesExact, EndExact, WaiterExact, LoopIsAwaited, Live, Until
    <3>4. RunsExact'
      BY <3>1 DEF LoopInv, RunsExact, Live, Until, Unstarted
    <3>5. PiecesCounted'
      BY <3>1 DEF LoopInv, PiecesCounted, Live, Unstarted
    <3> QED
      BY <3>2, <3>3, <3>4, <3>5 DEF LoopInv
  <2> QED
    BY <2>1, <2>2
<1> QED
  BY <1>1, <1>2, PTL DEF ParForSpec

\* A loop over any number of indices ends once and not too soon: outstanding
\* counts its pieces, no index is run twice and, unless the loop was
\* cancelled or its pool destroyed, a future that is Ready has had every one
\* run (Shared::work, retire, ParFor::poll).
THEOREM LoopsAreWhole == ParForSpec => []LoopIsWhole
<1>1. LoopInv => LoopIsWhole
  <2> SUFFICES ASSUME LoopInv PROVE LoopIsWhole
    OBVIOUS
  <2>1. ParForTypeOK /\ EndExact /\ RunsExact
    BY DEF LoopInv, LoopTypes
  <2>2. ASSUME future \in {"ready", "unwound"}
        PROVE  /\ \A p \in Index : ~Live(p)
               /\ cancelled \/ ~pool \/ \A i \in Index : ran[i] = 1
               /\ future = "ready" => ~panic
    <3>1. finished /\ outstanding = 0 /\ (future = "ready" => ~panic)
      BY <2>1, <2>2 DEF EndExact
    <3>2. \A p \in Index : ~Live(p)
      BY <3>1, LiveIsCounted
    <3>3. ~Unstarted
      BY <3>1 DEF Unstarted
    <3> QED
      BY <2>1, <3>1, <3>2, <3>3 DEF RunsExact
  <2>3. \A i \in Index : ran[i] <= 1
    BY <2>1 DEF RunsExact
  <2> QED
    BY <2>1, <2>2, <2>3 DEF LoopIsWhole, LoopInv, PiecesCounted
<1> QED
  BY <1>1, LoopInvariant, PTL

\* The task awaiting a loop is not left asleep beside a finished one: its
\* waker is still to be called (ParFor::poll against retire).
THEOREM LoopsAreAwaited == ParForSpec => []LoopIsAwaited
<1>1. LoopInv => LoopIsAwaited
  BY DEF LoopInv, WaiterExact
<1> QED
  BY <1>1, LoopInvariant, PTL

-----------------------------------------------------------------------------
(* A child process, its watch and its pipes                                *)

\* The types TLC checks, without its bounds.
ChildTypes ==
    /\ ChildTypeOK
    /\ process \in BOOLEAN /\ status \in BOOLEAN /\ exitflag \in BOOLEAN /\ edge \in BOOLEAN
    /\ stdin \in BOOLEAN /\ reads \in BOOLEAN /\ killondrop \in BOOLEAN
    /\ owing \in [Outputs -> Nat] /\ wrote \in [Outputs -> Nat] /\ got \in [Outputs -> Nat]

\* Who has the Process, what it is then, and who is inside poll_exit.
HolderExact ==
    /\ holder \in {"nobody", "adopt", "failed"} => step = "idle" /\ ~process
    /\ holder = "nobody" => proc \in {"none", "free"}
    /\ holder = "adopt" => proc \in {"running", "exiting", "zombie"} /\ ~status
    /\ holder = "failed" => proc \in {"exiting", "zombie"}
    /\ holder = "task" => (status <=> ~process) /\ (~process => proc = "free")
    /\ holder = "orphan" => process /\ ~status /\ step \in {"ask", "park", "parked"}
    /\ process => proc \in {"running", "exiting", "zombie"} /\ watch # "none"
    /\ step \in {"park", "parked"} => process
    /\ proc = "none" => ~status /\ holder = "nobody"

\* What a call has closed before it waits: the input always, the outputs of a
\* status, and those output has read to their end.
ModeExact ==
    /\ holder \in {"nobody", "failed", "orphan"} => mode = "none"
    /\ holder = "task" /\ step = "idle" => mode = "none"
    /\ step # "idle" => ~stdin
    /\ mode \in {"status", "output"} /\ step \in {"ask", "park", "parked"} => open = {}
    /\ step \in {"collect", "asleep"} => mode = "output" /\ holder = "task"
    /\ step = "asleep" => onpipe = open

\* A parked holder has its waker with the watch or on its way to be called;
\* one about to park beside a process that can be waited for has an edge to
\* come, or finds the flag.
ExitExact ==
    /\ step = "parked" => watch # "exiting" /\ (parked = holder \/ exitwake = holder)
    /\ ExitIsNoticed
    /\ step = "park" /\ proc = "zombie" /\ watch # "exiting" => edge \/ exitflag

\* Every byte of an open pipe is in it or has been read.
BytesExact ==
    /\ proc = "none" => \A x \in Outputs : wrote[x] = 0 /\ got[x] = 0 /\ pipe[x] = 0 /\ x \notin open
    /\ holder \in {"adopt", "task"} /\ mode # "status" =>
          \A x \in Outputs : wrote[x] = got[x] + (IF x \in open THEN pipe[x] ELSE 0)

\* The inductive invariant of a child process, its watch and its pipes.
ChildInv == ChildTypes /\ HolderExact /\ ModeExact /\ ExitExact /\ BytesExact

\* Every step keeps the types.
LEMMA ChildTypesStep ==
    ASSUME ChildInv, ChildNext
    PROVE  ChildTypes'
<1> USE ChildAssumption DEF procVars, watchVars, handleVars, pipeVars
<1> USE DEF ChildInv, ChildTypes, ChildTypeOK, Outputs, HolderExact
<1>1. ASSUME NEW x \in Outputs, ChildWrites(x) PROVE ChildTypes'
  BY <1>1 DEF ChildWrites
<1>2. CASE ChildExits
  BY <1>2 DEF ChildExits
<1>3. CASE BecomesZombie
  BY <1>3 DEF BecomesZombie
<1>4. CASE ExitReported
  <2>1. process' \in BOOLEAN /\ status' \in BOOLEAN
    BY <1>4 DEF ExitReported
  <2>2. exitflag' \in BOOLEAN /\ edge' \in BOOLEAN
    BY <1>4 DEF ExitReported
  <2>3. stdin' \in BOOLEAN /\ reads' \in BOOLEAN /\ killondrop' \in BOOLEAN
    BY <1>4 DEF ExitReported
  <2>4. owing' \in [Outputs -> Nat] /\ wrote' \in [Outputs -> Nat] /\ got' \in [Outputs -> Nat]
    BY <1>4 DEF ExitReported
  <2>5. ChildTypeOK'
    BY <1>4 DEF ExitReported
  <2> QED
    BY <2>1, <2>2, <2>3, <2>4, <2>5
<1>5. CASE WakeExit
  BY <1>5 DEF WakeExit
<1>6. ASSUME NEW m \in {"none", "status", "output"}, NEW piped \in SUBSET Outputs,
             NEW input \in BOOLEAN, SpawnChild(m, piped, input)
      PROVE  ChildTypes'
  BY <1>6 DEF SpawnChild
<1>7. ASSUME NEW w \in {"descriptor", "thread", "exiting"}, NEW reported \in BOOLEAN,
             Adopt(w, reported)
      PROVE  ChildTypes'
  BY <1>7 DEF Adopt, Watchable, NewWatch, GoOn
<1>8. CASE AdoptFails
  BY <1>8 DEF AdoptFails
<1>9. CASE FailedReaped
  BY <1>9 DEF FailedReaped
<1>10. ASSUME NEW m \in {"wait", "output"}, CallWait(m) PROVE ChildTypes'
  <2>1. process' \in BOOLEAN /\ status' \in BOOLEAN
    BY <1>10 DEF CallWait, Idle, GoOn
  <2>2. exitflag' \in BOOLEAN /\ edge' \in BOOLEAN
    BY <1>10 DEF CallWait, Idle, GoOn
  <2>3. stdin' \in BOOLEAN /\ reads' \in BOOLEAN /\ killondrop' \in BOOLEAN
    BY <1>10 DEF CallWait, Idle, GoOn
  <2>4. owing' \in [Outputs -> Nat] /\ wrote' \in [Outputs -> Nat] /\ got' \in [Outputs -> Nat]
    BY <1>10 DEF CallWait, Idle, GoOn
  <2>5. ChildTypeOK'
    BY <1>10 DEF CallWait, Idle, GoOn
  <2> QED
    BY <2>1, <2>2, <2>3, <2>4, <2>5
<1>11. ASSUME NEW x \in Outputs \cup {"in"}, ClosePipe(x) PROVE ChildTypes'
  BY <1>11 DEF ClosePipe, Idle
<1>12. CASE Drain
  <2>1. process' \in BOOLEAN /\ status' \in BOOLEAN
    BY <1>12 DEF Drain, Drained, Eof
  <2>2. exitflag' \in BOOLEAN /\ edge' \in BOOLEAN
    BY <1>12 DEF Drain, Drained, Eof
  <2>3. stdin' \in BOOLEAN /\ reads' \in BOOLEAN /\ killondrop' \in BOOLEAN
    BY <1>12 DEF Drain, Drained, Eof
  <2>4. owing' \in [Outputs -> Nat] /\ wrote' \in [Outputs -> Nat] /\ got' \in [Outputs -> Nat]
    BY <1>12 DEF Drain, Drained, Eof
  <2>5. ChildTypeOK'
    <3>1. pipe' \in [Outputs -> 0..1]
      <4>1. 0 \in 0..1
        OBVIOUS
      <4> QED
        BY <1>12, <4>1 DEF Drain
    <3>2. open' \subseteq Outputs /\ onpipe' \subseteq Outputs
      BY <1>12 DEF Drain, Drained
    <3>3. step' \in {"ask", "collect", "asleep"}
      BY <1>12 DEF Drain
    <3> QED
      BY <1>12, <3>1, <3>2, <3>3 DEF Drain
  <2> QED
    BY <2>1, <2>2, <2>3, <2>4, <2>5
<1>13. CASE PipeReady
  BY <1>13 DEF PipeReady, Eof
<1>14. CASE AskWaitpid
  <2>1. process' \in BOOLEAN /\ status' \in BOOLEAN
    BY <1>14 DEF AskWaitpid, WaitEnds, DropProcess, reaped, OrphanReaped
  <2>2. exitflag' \in BOOLEAN /\ edge' \in BOOLEAN
    BY <1>14 DEF AskWaitpid, WaitEnds, DropProcess, reaped, OrphanReaped
  <2>3. stdin' \in BOOLEAN /\ reads' \in BOOLEAN /\ killondrop' \in BOOLEAN
    BY <1>14 DEF AskWaitpid, WaitEnds, DropProcess, reaped, OrphanReaped
  <2>4. owing' \in [Outputs -> Nat] /\ wrote' \in [Outputs -> Nat] /\ got' \in [Outputs -> Nat]
    BY <1>14 DEF AskWaitpid, WaitEnds, DropProcess, reaped, OrphanReaped
  <2>5. ChildTypeOK'
    BY <1>14 DEF AskWaitpid, WaitEnds, DropProcess, reaped, OrphanReaped
  <2> QED
    BY <2>1, <2>2, <2>3, <2>4, <2>5
<1>15. CASE ParkOrCheck
  BY <1>15 DEF ParkOrCheck, FlagSeen
<1>16. CASE BlockingWait
  BY <1>16 DEF BlockingWait
<1>17. CASE TryWait
  <2>1. process' \in BOOLEAN /\ status' \in BOOLEAN
    BY <1>17 DEF TryWait, Idle, DropProcess, reaped
  <2>2. exitflag' \in BOOLEAN /\ edge' \in BOOLEAN
    BY <1>17 DEF TryWait, Idle, DropProcess, reaped
  <2>3. stdin' \in BOOLEAN /\ reads' \in BOOLEAN /\ killondrop' \in BOOLEAN
    BY <1>17 DEF TryWait, Idle, DropProcess, reaped
  <2>4. owing' \in [Outputs -> Nat] /\ wrote' \in [Outputs -> Nat] /\ got' \in [Outputs -> Nat]
    BY <1>17 DEF TryWait, Idle, DropProcess, reaped
  <2>5. ChildTypeOK'
    BY <1>17 DEF TryWait, Idle, DropProcess, reaped
  <2> QED
    BY <2>1, <2>2, <2>3, <2>4, <2>5
<1>18. CASE StartKill
  BY <1>18 DEF StartKill, Idle
<1>19. CASE CancelChildWait
  BY <1>19 DEF CancelChildWait
<1>20. CASE DropChild
  BY <1>20 DEF DropChild, AdoptedAsks
<1> QED
  BY <1>1, <1>2, <1>3, <1>4, <1>5, <1>6, <1>7, <1>8, <1>9, <1>10, <1>11, <1>12,
     <1>13, <1>14, <1>15, <1>16, <1>17, <1>18, <1>19, <1>20 DEF ChildNext

\* Every step keeps the Process with the one that may wait for it.
LEMMA HolderStep ==
    ASSUME ChildInv, ChildNext
    PROVE  HolderExact'
<1> USE ChildAssumption DEF procVars, watchVars, handleVars, pipeVars
<1> USE DEF ChildInv, ChildTypes, ChildTypeOK, HolderExact, ModeExact
<1>1. ASSUME NEW x \in Outputs, ChildWrites(x) PROVE HolderExact'
  BY <1>1 DEF ChildWrites
<1>2. CASE ChildExits
  BY <1>2 DEF ChildExits
<1>3. CASE BecomesZombie
  BY <1>3 DEF BecomesZombie
<1>4. CASE ExitReported
  BY <1>4 DEF ExitReported
<1>5. CASE WakeExit
  BY <1>5 DEF WakeExit
<1>6. ASSUME NEW m \in {"none", "status", "output"}, NEW piped \in SUBSET Outputs,
             NEW input \in BOOLEAN, SpawnChild(m, piped, input)
      PROVE  HolderExact'
  BY <1>6 DEF SpawnChild
<1>7. ASSUME NEW w \in {"descriptor", "thread", "exiting"}, NEW reported \in BOOLEAN,
             Adopt(w, reported)
      PROVE  HolderExact'
  BY <1>7 DEF Adopt, Watchable, NewWatch, GoOn
<1>8. CASE AdoptFails
  BY <1>8 DEF AdoptFails
<1>9. CASE FailedReaped
  BY <1>9 DEF FailedReaped
<1>10. ASSUME NEW m \in {"wait", "output"}, CallWait(m) PROVE HolderExact'
  BY <1>10 DEF CallWait, Idle, GoOn
<1>11. ASSUME NEW x \in Outputs \cup {"in"}, ClosePipe(x) PROVE HolderExact'
  BY <1>11 DEF ClosePipe, Idle
<1>12. CASE Drain
  BY <1>12 DEF Drain, Drained, Eof
<1>13. CASE PipeReady
  BY <1>13 DEF PipeReady, Eof
<1>14. CASE AskWaitpid
  BY <1>14 DEF AskWaitpid, WaitEnds, DropProcess, reaped, OrphanReaped
<1>15. CASE ParkOrCheck
  BY <1>15 DEF ParkOrCheck, FlagSeen
<1>16. CASE BlockingWait
  BY <1>16 DEF BlockingWait
<1>17. CASE TryWait
  BY <1>17 DEF TryWait, Idle, DropProcess, reaped
<1>18. CASE StartKill
  BY <1>18 DEF StartKill, Idle
<1>19. CASE CancelChildWait
  BY <1>19 DEF CancelChildWait
<1>20. CASE DropChild
  BY <1>20 DEF DropChild, AdoptedAsks
<1> QED
  BY <1>1, <1>2, <1>3, <1>4, <1>5, <1>6, <1>7, <1>8, <1>9, <1>10, <1>11, <1>12,
     <1>13, <1>14, <1>15, <1>16, <1>17, <1>18, <1>19, <1>20 DEF ChildNext

\* Every step keeps in line with its call what the call has closed.
LEMMA ModeStep ==
    ASSUME ChildInv, ChildNext
    PROVE  ModeExact'
<1> USE ChildAssumption DEF procVars, watchVars, handleVars, pipeVars
<1> USE DEF ChildInv, ChildTypes, ChildTypeOK, ModeExact, HolderExact
<1>1. ASSUME NEW x \in Outputs, ChildWrites(x) PROVE ModeExact'
  BY <1>1 DEF ChildWrites
<1>2. CASE ChildExits
  BY <1>2 DEF ChildExits
<1>3. CASE BecomesZombie
  BY <1>3 DEF BecomesZombie
<1>4. CASE ExitReported
  BY <1>4 DEF ExitReported
<1>5. CASE WakeExit
  BY <1>5 DEF WakeExit
<1>6. ASSUME NEW m \in {"none", "status", "output"}, NEW piped \in SUBSET Outputs,
             NEW input \in BOOLEAN, SpawnChild(m, piped, input)
      PROVE  ModeExact'
  BY <1>6 DEF SpawnChild
<1>7. ASSUME NEW w \in {"descriptor", "thread", "exiting"}, NEW reported \in BOOLEAN,
             Adopt(w, reported)
      PROVE  ModeExact'
  BY <1>7 DEF Adopt, Watchable, NewWatch, GoOn
<1>8. CASE AdoptFails
  BY <1>8 DEF AdoptFails
<1>9. CASE FailedReaped
  BY <1>9 DEF FailedReaped
<1>10. ASSUME NEW m \in {"wait", "output"}, CallWait(m) PROVE ModeExact'
  BY <1>10 DEF CallWait, Idle, GoOn
<1>11. ASSUME NEW x \in Outputs \cup {"in"}, ClosePipe(x) PROVE ModeExact'
  BY <1>11 DEF ClosePipe, Idle
<1>12. CASE Drain
  BY <1>12 DEF Drain, Drained, Eof
<1>13. CASE PipeReady
  BY <1>13 DEF PipeReady, Eof
<1>14. CASE AskWaitpid
  BY <1>14 DEF AskWaitpid, WaitEnds, DropProcess, reaped, OrphanReaped
<1>15. CASE ParkOrCheck
  BY <1>15 DEF ParkOrCheck, FlagSeen
<1>16. CASE BlockingWait
  BY <1>16 DEF BlockingWait
<1>17. CASE TryWait
  BY <1>17 DEF TryWait, Idle, DropProcess, reaped
<1>18. CASE StartKill
  BY <1>18 DEF StartKill, Idle
<1>19. CASE CancelChildWait
  BY <1>19 DEF CancelChildWait
<1>20. CASE DropChild
  BY <1>20 DEF DropChild, AdoptedAsks
<1> QED
  BY <1>1, <1>2, <1>3, <1>4, <1>5, <1>6, <1>7, <1>8, <1>9, <1>10, <1>11, <1>12,
     <1>13, <1>14, <1>15, <1>16, <1>17, <1>18, <1>19, <1>20 DEF ChildNext

\* Every step keeps the exit on its way to whoever is parked for it.
LEMMA ExitStep ==
    ASSUME ChildInv, ChildNext
    PROVE  ExitExact'
<1> USE ChildAssumption DEF procVars, watchVars, handleVars, pipeVars
<1> USE DEF ChildInv, ChildTypes, ChildTypeOK, ExitExact, ExitIsNoticed, HolderExact
<1>1. ASSUME NEW x \in Outputs, ChildWrites(x) PROVE ExitExact'
  BY <1>1 DEF ChildWrites
<1>2. CASE ChildExits
  BY <1>2 DEF ChildExits
<1>3. CASE BecomesZombie
  BY <1>3 DEF BecomesZombie
<1>4. CASE ExitReported
  BY <1>4 DEF ExitReported
<1>5. CASE WakeExit
  BY <1>5 DEF WakeExit
<1>6. ASSUME NEW m \in {"none", "status", "output"}, NEW piped \in SUBSET Outputs,
             NEW input \in BOOLEAN, SpawnChild(m, piped, input)
      PROVE  ExitExact'
  BY <1>6 DEF SpawnChild
<1>7. ASSUME NEW w \in {"descriptor", "thread", "exiting"}, NEW reported \in BOOLEAN,
             Adopt(w, reported)
      PROVE  ExitExact'
  BY <1>7 DEF Adopt, Watchable, NewWatch, GoOn
<1>8. CASE AdoptFails
  BY <1>8 DEF AdoptFails
<1>9. CASE FailedReaped
  BY <1>9 DEF FailedReaped
<1>10. ASSUME NEW m \in {"wait", "output"}, CallWait(m) PROVE ExitExact'
  BY <1>10 DEF CallWait, Idle, GoOn
<1>11. ASSUME NEW x \in Outputs \cup {"in"}, ClosePipe(x) PROVE ExitExact'
  BY <1>11 DEF ClosePipe, Idle
<1>12. CASE Drain
  BY <1>12 DEF Drain, Drained, Eof
<1>13. CASE PipeReady
  BY <1>13 DEF PipeReady, Eof
<1>14. CASE AskWaitpid
  BY <1>14 DEF AskWaitpid, WaitEnds, DropProcess, reaped, OrphanReaped
<1>15. CASE ParkOrCheck
  BY <1>15 DEF ParkOrCheck, FlagSeen
<1>16. CASE BlockingWait
  BY <1>16 DEF BlockingWait
<1>17. CASE TryWait
  BY <1>17 DEF TryWait, Idle, DropProcess, reaped
<1>18. CASE StartKill
  BY <1>18 DEF StartKill, Idle
<1>19. CASE CancelChildWait
  BY <1>19 DEF CancelChildWait
<1>20. CASE DropChild
  BY <1>20 DEF DropChild, AdoptedAsks
<1> QED
  BY <1>1, <1>2, <1>3, <1>4, <1>5, <1>6, <1>7, <1>8, <1>9, <1>10, <1>11, <1>12,
     <1>13, <1>14, <1>15, <1>16, <1>17, <1>18, <1>19, <1>20 DEF ChildNext

\* Every step keeps the bytes of an open pipe accounted for.
LEMMA BytesStep ==
    ASSUME ChildInv, ChildNext
    PROVE  BytesExact'
<1> USE ChildAssumption DEF procVars, watchVars, handleVars, pipeVars
<1> USE DEF ChildInv, ChildTypes, ChildTypeOK, BytesExact, HolderExact, ModeExact
<1>1. ASSUME NEW x \in Outputs, ChildWrites(x) PROVE BytesExact'
  BY <1>1 DEF ChildWrites
<1>2. CASE ChildExits
  BY <1>2 DEF ChildExits
<1>3. CASE BecomesZombie
  BY <1>3 DEF BecomesZombie
<1>4. CASE ExitReported
  BY <1>4 DEF ExitReported
<1>5. CASE WakeExit
  BY <1>5 DEF WakeExit
<1>6. ASSUME NEW m \in {"none", "status", "output"}, NEW piped \in SUBSET Outputs,
             NEW input \in BOOLEAN, SpawnChild(m, piped, input)
      PROVE  BytesExact'
  BY <1>6 DEF SpawnChild
<1>7. ASSUME NEW w \in {"descriptor", "thread", "exiting"}, NEW reported \in BOOLEAN,
             Adopt(w, reported)
      PROVE  BytesExact'
  BY <1>7 DEF Adopt, Watchable, NewWatch, GoOn
<1>8. CASE AdoptFails
  BY <1>8 DEF AdoptFails
<1>9. CASE FailedReaped
  BY <1>9 DEF FailedReaped
<1>10. ASSUME NEW m \in {"wait", "output"}, CallWait(m) PROVE BytesExact'
  BY <1>10 DEF CallWait, Idle, GoOn
<1>11. ASSUME NEW x \in Outputs \cup {"in"}, ClosePipe(x) PROVE BytesExact'
  BY <1>11 DEF ClosePipe, Idle
<1>12. CASE Drain
  BY <1>12 DEF Drain, Drained, Eof
<1>13. CASE PipeReady
  BY <1>13 DEF PipeReady, Eof
<1>14. CASE AskWaitpid
  BY <1>14 DEF AskWaitpid, WaitEnds, DropProcess, reaped, OrphanReaped
<1>15. CASE ParkOrCheck
  BY <1>15 DEF ParkOrCheck, FlagSeen
<1>16. CASE BlockingWait
  BY <1>16 DEF BlockingWait
<1>17. CASE TryWait
  BY <1>17 DEF TryWait, Idle, DropProcess, reaped
<1>18. CASE StartKill
  BY <1>18 DEF StartKill, Idle
<1>19. CASE CancelChildWait
  BY <1>19 DEF CancelChildWait
<1>20. CASE DropChild
  BY <1>20 DEF DropChild, AdoptedAsks
<1> QED
  BY <1>1, <1>2, <1>3, <1>4, <1>5, <1>6, <1>7, <1>8, <1>9, <1>10, <1>11, <1>12,
     <1>13, <1>14, <1>15, <1>16, <1>17, <1>18, <1>19, <1>20 DEF ChildNext

\* The invariant holds in every state of the child.
LEMMA ChildInvariant == ChildSpec => []ChildInv
<1>1. ChildInit => ChildInv
  <2> SUFFICES ASSUME ChildInit PROVE ChildInv
    OBVIOUS
  <2> USE ChildAssumption DEF ChildInit
  <2>1. ChildTypes
    <3>1. pipe \in [Outputs -> 0..1] /\ owing \in [Outputs -> Nat]
      OBVIOUS
    <3> QED
      BY <3>1 DEF ChildTypes, ChildTypeOK
  <2> QED
    BY <2>1 DEF ChildInv, HolderExact, ModeExact, ExitExact, ExitIsNoticed, BytesExact
<1>2. ChildInv /\ [ChildNext]_childVars => ChildInv'
  <2> SUFFICES ASSUME ChildInv, [ChildNext]_childVars PROVE ChildInv'
    OBVIOUS
  <2>1. CASE ChildNext
    BY <2>1, ChildTypesStep, HolderStep, ModeStep, ExitStep, BytesStep DEF ChildInv
  <2>2. CASE UNCHANGED childVars
    BY <2>2 DEF ChildInv, childVars, procVars, watchVars, handleVars, pipeVars, ChildTypes,
       ChildTypeOK, HolderExact, ModeExact, ExitExact, ExitIsNoticed, BytesExact
  <2> QED
    BY <2>1, <2>2
<1> QED
  BY <1>1, <1>2, PTL DEF ChildSpec

\* The pid a Child gives out is that of a process it has not reaped, and a
\* spawn that failed left none behind (Child::reaped, Command::spawn).
THEOREM ThePidIsOurs == ChildSpec => []PidIsOurs
<1>1. ChildInv => PidIsOurs
  BY DEF ChildInv, ChildTypes, HolderExact, PidIsOurs
<1> QED
  BY <1>1, ChildInvariant, PTL

\* No exit is slept through, by the task that waits or by the Orphan of a
\* dropped Child (Process::poll_exit against dispatch).
THEOREM ExitsAreNoticed == ChildSpec => []ExitIsNoticed
<1>1. ChildInv => ExitIsNoticed
  BY DEF ChildInv, ExitExact
<1> QED
  BY <1>1, ChildInvariant, PTL

\* Parent and child do not wait for each other in status and output, for
\* pipes and outputs of any size, and output returns every byte that was
\* written.
THEOREM PipesDoNotDeadlock == ChildSpec => []NoPipeDeadlock
<1>1. ChildInv => NoPipeDeadlock
  <2> SUFFICES ASSUME ChildInv PROVE NoPipeDeadlock
    OBVIOUS
  <2> USE DEF ChildInv, ChildTypes, ChildTypeOK
  <2>1. ASSUME step \in {"parked", "asleep"}, mode \in {"status", "output"}
        PROVE  \/ CanExit
               \/ \E x \in Outputs : owing[x] > 0 /\ (x \in open => pipe[x] = 0)
               \/ \E x \in onpipe : pipe[x] > 0
    <3>1. CASE \A x \in Outputs : owing[x] = 0
      BY <2>1, <3>1 DEF CanExit, ModeExact
    <3>2. ASSUME NEW x \in Outputs, owing[x] # 0, x \in open, pipe[x] # 0
          PROVE  x \in onpipe /\ pipe[x] > 0
      BY <2>1, <3>2 DEF ModeExact
    <3> QED
      BY <3>1, <3>2
  <2>2. ASSUME mode = "output", step \in {"ask", "park", "parked"} PROVE got = wrote
    <3>1. open = {} /\ holder = "task"
      BY <2>2 DEF ModeExact, HolderExact
    <3>2. \A x \in Outputs : wrote[x] = got[x]
      BY <2>2, <3>1 DEF BytesExact
    <3> QED
      BY <3>2
  <2> QED
    BY <2>1, <2>2 DEF NoPipeDeadlock
<1> QED
  BY <1>1, ChildInvariant, PTL

-----------------------------------------------------------------------------
(* A signal and the threads that listen for it                             *)

\* The types TLC checks, and those of the kernel's state.
SignalsTypes ==
    /\ SignalsTypeOK
    /\ platform \in {"linux", "bsd"} /\ original \in {"default", "own"}
    /\ previous \in {"none", "default", "own", "handler"}
    /\ blocked \in [Makers -> BOOLEAN] /\ was \in [Makers -> BOOLEAN]
    /\ pend \in [Makers -> {"no", "caught", "new"}]
    /\ registered \in [Makers -> BOOLEAN]

\* One thread at a time is between its claim and the release of it.
OneOwner ==
    /\ \A t, u \in Makers : maker[t] # "out" /\ maker[u] # "out" => t = u
    /\ claimed <=> \E t \in Makers : maker[t] # "out"
    /\ \A t \in Makers : Alive(t) => inpoller /\ registered[t]

\* On Linux the disposition is left alone, and whoever has the descriptor has
\* the signal masked.
LinuxExact ==
    platform = "linux" =>
        /\ disposition = original /\ saved = "none"
        /\ \A t \in Makers :
              /\ maker[t] \in {"register", "live", "read", "park", "parked"} => blocked[t]
              /\ maker[t] \notin {"action", "save", "block", "unpublish", "ignore", "flush",
                                  "restore", "republish", "unmask"}

\* On the BSDs the owner's place says which action is installed, where the
\* program's own is kept, and whether the handler has its pipe.
BsdExact ==
    platform = "bsd" =>
        /\ (\A t \in Makers : maker[t] \in {"out", "arm", "action", "republish", "unmask",
                                            "leave", "release"}) =>
              disposition = original /\ saved = "none"
        /\ \A t \in Makers :
              /\ maker[t] = "save" => disposition = "handler" /\ previous = original /\ saved = "none"
              /\ maker[t] \in {"register", "live", "read", "park", "parked", "disarm"} =>
                    disposition = "handler" /\ saved = original
              /\ maker[t] \in {"block", "unpublish", "ignore"} =>
                    disposition = "handler" /\ previous = original /\ saved = "none"
              /\ maker[t] \in {"flush", "restore"} =>
                    disposition = "ignore" /\ previous = original /\ saved = "none"
              /\ maker[t] \in {"action", "save", "register", "live", "read", "park", "parked",
                               "disarm", "block", "unpublish"} => published

\* The masks on the BSDs are the program's, but for a thread in disarm; a
\* signal from before the handler went is gone when the mask is lifted.
MasksExact ==
    /\ platform = "bsd" =>
          \A t \in Makers :
              IF maker[t] \in {"unpublish", "ignore", "flush", "restore", "republish", "unmask"}
              THEN blocked[t] ELSE blocked[t] = was[t]
    /\ \A t \in Makers :
          maker[t] \in {"restore", "republish", "unmask"} /\ ~was[t] =>
             pend[t] # "caught" /\ shared # "caught"

\* The default action was taken by a thread, and at a time, where it may.
KilledExact ==
    killed # Nobody =>
        /\ ~Alive(killed) /\ ~late
        /\ platform = "bsd" => \A t \in Makers : ~Alive(t)

\* Something to report to a waiter that has not looked since has set the
\* edge, or the flag the waiter will look at.
EdgesExact ==
    /\ ~dropped /\ ~late
    /\ \A t \in Makers :
          /\ maker[t] = "parked" => sigparked
          /\ queue > 0 \/ (platform = "linux" /\ Reported(t)) =>
                /\ maker[t] \in {"live", "park"} => sigedge \/ sigready
                /\ maker[t] = "parked" => sigedge

\* The inductive invariant of a signal and the threads that listen for it.
SignalsInv ==
    /\ SignalsTypes /\ OneOwner /\ LinuxExact /\ BsdExact /\ MasksExact
    /\ KilledExact /\ EdgesExact

\* Every step keeps the types.
LEMMA SignalsTypesStep ==
    ASSUME SignalsInv, SignalsNext
    PROVE  SignalsTypes'
<1> USE SignalsAssumption DEF MakerAt, MakerGoto, fixedSigVars, kernelSigVars,
        slotSigVars, makerVars
<1> USE DEF SignalsInv, SignalsTypes, SignalsTypeOK, LinuxExact, BsdExact
<1>1. CASE DispatchSignal
  BY <1>1 DEF DispatchSignal
<1>2. ASSUME NEW t \in Makers, SendSignal(t) PROVE SignalsTypes'
  BY <1>2 DEF SendSignal, Act, Held
<1>3. ASSUME NEW t \in Makers, Acquire(t) PROVE SignalsTypes'
  BY <1>3 DEF Acquire
<1>4. ASSUME NEW t \in Makers, ActionBsd(t) PROVE SignalsTypes'
  <2>1. maker[t] = "action" /\ platform = "bsd" /\ disposition = original
    BY <1>4 DEF ActionBsd, OneOwner
  <2> QED
    BY <1>4, <2>1 DEF ActionBsd, InstallOrder, SetAction
<1>5. ASSUME NEW t \in Makers, SaveBsd(t) PROVE SignalsTypes'
  BY <1>5 DEF SaveBsd
<1>6. ASSUME NEW t \in Makers, NEW fails \in BOOLEAN, ArmLinux(t, fails)
      PROVE  SignalsTypes'
  BY <1>6 DEF ArmLinux
<1>7. ASSUME NEW t \in Makers, NEW fails \in BOOLEAN, ArmBsd(t, fails) PROVE SignalsTypes'
  BY <1>7 DEF ArmBsd, InstallOrder, SetAction
<1>8. ASSUME NEW t \in Makers, NEW fails \in BOOLEAN, RegisterSignal(t, fails)
      PROVE  SignalsTypes'
  BY <1>8 DEF RegisterSignal
<1>9. ASSUME NEW t \in Makers, TakeSignal(t) PROVE SignalsTypes'
  BY <1>9 DEF TakeSignal
<1>10. ASSUME NEW t \in Makers, ReadOne(t) PROVE SignalsTypes'
  BY <1>10 DEF ReadOne, ReadByte, ReadInfo, KeepReady
<1>11. ASSUME NEW t \in Makers, ParkRecv(t) PROVE SignalsTypes'
  BY <1>11 DEF ParkRecv
<1>12. ASSUME NEW t \in Makers, DropSignal(t) PROVE SignalsTypes'
  BY <1>12 DEF DropSignal
<1>13. ASSUME NEW t \in Makers, Disarm(t) PROVE SignalsTypes'
  BY <1>13 DEF Disarm
<1>14. ASSUME NEW t \in Makers, DisarmBlock(t) PROVE SignalsTypes'
  BY <1>14 DEF DisarmBlock
<1>15. ASSUME NEW t \in Makers, Unpublish(t) PROVE SignalsTypes'
  BY <1>15 DEF Unpublish
<1>16. ASSUME NEW t \in Makers, Ignore(t) PROVE SignalsTypes'
  BY <1>16 DEF Ignore, SetAction
<1>17. ASSUME NEW t \in Makers, Flush(t) PROVE SignalsTypes'
  BY <1>17 DEF Flush, FlushPending
<1>18. ASSUME NEW t \in Makers, RestoreAction(t) PROVE SignalsTypes'
  BY <1>18 DEF RestoreAction, SetAction
<1>19. ASSUME NEW t \in Makers, Republish(t) PROVE SignalsTypes'
  BY <1>19 DEF Republish
<1>20. ASSUME NEW t \in Makers, Unmask(t) PROVE SignalsTypes'
  BY <1>20 DEF Unmask, Act, Reported
<1>21. ASSUME NEW t \in Makers, DropRegistration(t) PROVE SignalsTypes'
  BY <1>21 DEF DropRegistration, FieldOrder
<1>22. ASSUME NEW t \in Makers, ReleaseClaim(t) PROVE SignalsTypes'
  BY <1>22 DEF ReleaseClaim, FieldOrder
<1>23. ASSUME KillProcess PROVE SignalsTypes'
  BY <1>23 DEF KillProcess, Act, Held
<1> QED
  BY <1>1, <1>2, <1>3, <1>4, <1>5, <1>6, <1>7, <1>8, <1>9, <1>10, <1>11, <1>12,
     <1>13, <1>14, <1>15, <1>16, <1>17, <1>18, <1>19, <1>20, <1>21, <1>22, <1>23
     DEF SignalsNext

\* Every step keeps the claim exclusive.
LEMMA OneOwnerStep ==
    ASSUME SignalsInv, SignalsNext
    PROVE  OneOwner'
<1> USE SignalsAssumption DEF MakerAt, MakerGoto, fixedSigVars, kernelSigVars,
        slotSigVars, makerVars
<1> USE DEF SignalsInv, SignalsTypes, SignalsTypeOK, OneOwner, Alive
<1>1. CASE DispatchSignal
  BY <1>1 DEF DispatchSignal
<1>2. ASSUME NEW t \in Makers, SendSignal(t) PROVE OneOwner'
  BY <1>2 DEF SendSignal, Act, Held
<1>3. ASSUME NEW t \in Makers, Acquire(t) PROVE OneOwner'
  BY <1>3 DEF Acquire
<1>4. ASSUME NEW t \in Makers, ActionBsd(t) PROVE OneOwner'
  BY <1>4 DEF ActionBsd, InstallOrder, SetAction
<1>5. ASSUME NEW t \in Makers, SaveBsd(t) PROVE OneOwner'
  BY <1>5 DEF SaveBsd
<1>6. ASSUME NEW t \in Makers, NEW fails \in BOOLEAN, ArmLinux(t, fails) PROVE OneOwner'
  BY <1>6 DEF ArmLinux
<1>7. ASSUME NEW t \in Makers, NEW fails \in BOOLEAN, ArmBsd(t, fails) PROVE OneOwner'
  BY <1>7 DEF ArmBsd, InstallOrder, SetAction
<1>8. ASSUME NEW t \in Makers, NEW fails \in BOOLEAN, RegisterSignal(t, fails)
      PROVE  OneOwner'
  BY <1>8 DEF RegisterSignal
<1>9. ASSUME NEW t \in Makers, TakeSignal(t) PROVE OneOwner'
  BY <1>9 DEF TakeSignal
<1>10. ASSUME NEW t \in Makers, ReadOne(t) PROVE OneOwner'
  BY <1>10 DEF ReadOne, ReadByte, ReadInfo, KeepReady
<1>11. ASSUME NEW t \in Makers, ParkRecv(t) PROVE OneOwner'
  BY <1>11 DEF ParkRecv
<1>12. ASSUME NEW t \in Makers, DropSignal(t) PROVE OneOwner'
  BY <1>12 DEF DropSignal
<1>13. ASSUME NEW t \in Makers, Disarm(t) PROVE OneOwner'
  BY <1>13 DEF Disarm
<1>14. ASSUME NEW t \in Makers, DisarmBlock(t) PROVE OneOwner'
  BY <1>14 DEF DisarmBlock
<1>15. ASSUME NEW t \in Makers, Unpublish(t) PROVE OneOwner'
  BY <1>15 DEF Unpublish
<1>16. ASSUME NEW t \in Makers, Ignore(t) PROVE OneOwner'
  BY <1>16 DEF Ignore, SetAction
<1>17. ASSUME NEW t \in Makers, Flush(t) PROVE OneOwner'
  BY <1>17 DEF Flush, FlushPending
<1>18. ASSUME NEW t \in Makers, RestoreAction(t) PROVE OneOwner'
  BY <1>18 DEF RestoreAction, SetAction
<1>19. ASSUME NEW t \in Makers, Republish(t) PROVE OneOwner'
  BY <1>19 DEF Republish
<1>20. ASSUME NEW t \in Makers, Unmask(t) PROVE OneOwner'
  BY <1>20 DEF Unmask, Act, Reported
<1>21. ASSUME NEW t \in Makers, DropRegistration(t) PROVE OneOwner'
  BY <1>21 DEF DropRegistration, FieldOrder
<1>22. ASSUME NEW t \in Makers, ReleaseClaim(t) PROVE OneOwner'
  BY <1>22 DEF ReleaseClaim, FieldOrder
<1>23. ASSUME KillProcess PROVE OneOwner'
  BY <1>23 DEF KillProcess, Act, Held
<1> QED
  BY <1>1, <1>2, <1>3, <1>4, <1>5, <1>6, <1>7, <1>8, <1>9, <1>10, <1>11, <1>12,
     <1>13, <1>14, <1>15, <1>16, <1>17, <1>18, <1>19, <1>20, <1>21, <1>22, <1>23
     DEF SignalsNext

\* Every step keeps the mask of whoever has the descriptor.
LEMMA LinuxStep ==
    ASSUME SignalsInv, SignalsNext
    PROVE  LinuxExact'
<1> USE SignalsAssumption DEF MakerAt, MakerGoto, fixedSigVars, kernelSigVars,
        slotSigVars, makerVars
<1> USE DEF SignalsInv, SignalsTypes, SignalsTypeOK, LinuxExact, OneOwner, Alive
<1>1. CASE DispatchSignal
  BY <1>1 DEF DispatchSignal
<1>2. ASSUME NEW t \in Makers, SendSignal(t) PROVE LinuxExact'
  BY <1>2 DEF SendSignal, Act, Held
<1>3. ASSUME NEW t \in Makers, Acquire(t) PROVE LinuxExact'
  BY <1>3 DEF Acquire
<1>4. ASSUME NEW t \in Makers, ActionBsd(t) PROVE LinuxExact'
  BY <1>4 DEF ActionBsd, InstallOrder, SetAction
<1>5. ASSUME NEW t \in Makers, SaveBsd(t) PROVE LinuxExact'
  BY <1>5 DEF SaveBsd
<1>6. ASSUME NEW t \in Makers, NEW fails \in BOOLEAN, ArmLinux(t, fails) PROVE LinuxExact'
  BY <1>6 DEF ArmLinux
<1>7. ASSUME NEW t \in Makers, NEW fails \in BOOLEAN, ArmBsd(t, fails) PROVE LinuxExact'
  BY <1>7 DEF ArmBsd, InstallOrder, SetAction
<1>8. ASSUME NEW t \in Makers, NEW fails \in BOOLEAN, RegisterSignal(t, fails)
      PROVE  LinuxExact'
  BY <1>8 DEF RegisterSignal
<1>9. ASSUME NEW t \in Makers, TakeSignal(t) PROVE LinuxExact'
  BY <1>9 DEF TakeSignal
<1>10. ASSUME NEW t \in Makers, ReadOne(t) PROVE LinuxExact'
  BY <1>10 DEF ReadOne, ReadByte, ReadInfo, KeepReady
<1>11. ASSUME NEW t \in Makers, ParkRecv(t) PROVE LinuxExact'
  BY <1>11 DEF ParkRecv
<1>12. ASSUME NEW t \in Makers, DropSignal(t) PROVE LinuxExact'
  BY <1>12 DEF DropSignal
<1>13. ASSUME NEW t \in Makers, Disarm(t) PROVE LinuxExact'
  BY <1>13 DEF Disarm
<1>14. ASSUME NEW t \in Makers, DisarmBlock(t) PROVE LinuxExact'
  BY <1>14 DEF DisarmBlock
<1>15. ASSUME NEW t \in Makers, Unpublish(t) PROVE LinuxExact'
  BY <1>15 DEF Unpublish
<1>16. ASSUME NEW t \in Makers, Ignore(t) PROVE LinuxExact'
  BY <1>16 DEF Ignore, SetAction
<1>17. ASSUME NEW t \in Makers, Flush(t) PROVE LinuxExact'
  BY <1>17 DEF Flush, FlushPending
<1>18. ASSUME NEW t \in Makers, RestoreAction(t) PROVE LinuxExact'
  BY <1>18 DEF RestoreAction, SetAction
<1>19. ASSUME NEW t \in Makers, Republish(t) PROVE LinuxExact'
  BY <1>19 DEF Republish
<1>20. ASSUME NEW t \in Makers, Unmask(t) PROVE LinuxExact'
  BY <1>20 DEF Unmask, Act, Reported
<1>21. ASSUME NEW t \in Makers, DropRegistration(t) PROVE LinuxExact'
  BY <1>21 DEF DropRegistration, FieldOrder
<1>22. ASSUME NEW t \in Makers, ReleaseClaim(t) PROVE LinuxExact'
  BY <1>22 DEF ReleaseClaim, FieldOrder
<1>23. ASSUME KillProcess PROVE LinuxExact'
  BY <1>23 DEF KillProcess, Act, Held
<1> QED
  BY <1>1, <1>2, <1>3, <1>4, <1>5, <1>6, <1>7, <1>8, <1>9, <1>10, <1>11, <1>12,
     <1>13, <1>14, <1>15, <1>16, <1>17, <1>18, <1>19, <1>20, <1>21, <1>22, <1>23
     DEF SignalsNext

\* Every step keeps action, saved action and published pipe in line with the
\* place of the owner in arm or disarm.
LEMMA BsdStep ==
    ASSUME SignalsInv, SignalsNext
    PROVE  BsdExact'
<1> USE SignalsAssumption DEF MakerAt, MakerGoto, fixedSigVars, kernelSigVars,
        slotSigVars, makerVars
<1> USE DEF SignalsInv, SignalsTypes, SignalsTypeOK, BsdExact, OneOwner, LinuxExact
<1>1. CASE DispatchSignal
  BY <1>1 DEF DispatchSignal
<1>2. ASSUME NEW t \in Makers, SendSignal(t) PROVE BsdExact'
  BY <1>2 DEF SendSignal, Act, Held
<1>3. ASSUME NEW t \in Makers, Acquire(t) PROVE BsdExact'
  BY <1>3 DEF Acquire
<1>4. ASSUME NEW t \in Makers, ActionBsd(t) PROVE BsdExact'
  BY <1>4 DEF ActionBsd, InstallOrder, SetAction
<1>5. ASSUME NEW t \in Makers, SaveBsd(t) PROVE BsdExact'
  BY <1>5 DEF SaveBsd
<1>6. ASSUME NEW t \in Makers, NEW fails \in BOOLEAN, ArmLinux(t, fails) PROVE BsdExact'
  BY <1>6 DEF ArmLinux
<1>7. ASSUME NEW t \in Makers, NEW fails \in BOOLEAN, ArmBsd(t, fails) PROVE BsdExact'
  BY <1>7 DEF ArmBsd, InstallOrder, SetAction
<1>8. ASSUME NEW t \in Makers, NEW fails \in BOOLEAN, RegisterSignal(t, fails)
      PROVE  BsdExact'
  BY <1>8 DEF RegisterSignal
<1>9. ASSUME NEW t \in Makers, TakeSignal(t) PROVE BsdExact'
  BY <1>9 DEF TakeSignal
<1>10. ASSUME NEW t \in Makers, ReadOne(t) PROVE BsdExact'
  BY <1>10 DEF ReadOne, ReadByte, ReadInfo, KeepReady
<1>11. ASSUME NEW t \in Makers, ParkRecv(t) PROVE BsdExact'
  BY <1>11 DEF ParkRecv
<1>12. ASSUME NEW t \in Makers, DropSignal(t) PROVE BsdExact'
  BY <1>12 DEF DropSignal
<1>13. ASSUME NEW t \in Makers, Disarm(t) PROVE BsdExact'
  BY <1>13 DEF Disarm
<1>14. ASSUME NEW t \in Makers, DisarmBlock(t) PROVE BsdExact'
  BY <1>14 DEF DisarmBlock
<1>15. ASSUME NEW t \in Makers, Unpublish(t) PROVE BsdExact'
  BY <1>15 DEF Unpublish
<1>16. ASSUME NEW t \in Makers, Ignore(t) PROVE BsdExact'
  BY <1>16 DEF Ignore, SetAction
<1>17. ASSUME NEW t \in Makers, Flush(t) PROVE BsdExact'
  BY <1>17 DEF Flush, FlushPending
<1>18. ASSUME NEW t \in Makers, RestoreAction(t) PROVE BsdExact'
  BY <1>18 DEF RestoreAction, SetAction
<1>19. ASSUME NEW t \in Makers, Republish(t) PROVE BsdExact'
  BY <1>19 DEF Republish
<1>20. ASSUME NEW t \in Makers, Unmask(t) PROVE BsdExact'
  BY <1>20 DEF Unmask, Act, Reported
<1>21. ASSUME NEW t \in Makers, DropRegistration(t) PROVE BsdExact'
  BY <1>21 DEF DropRegistration, FieldOrder
<1>22. ASSUME NEW t \in Makers, ReleaseClaim(t) PROVE BsdExact'
  BY <1>22 DEF ReleaseClaim, FieldOrder
<1>23. ASSUME KillProcess PROVE BsdExact'
  BY <1>23 DEF KillProcess, Act, Held
<1> QED
  BY <1>1, <1>2, <1>3, <1>4, <1>5, <1>6, <1>7, <1>8, <1>9, <1>10, <1>11, <1>12,
     <1>13, <1>14, <1>15, <1>16, <1>17, <1>18, <1>19, <1>20, <1>21, <1>22, <1>23
     DEF SignalsNext

\* Every step keeps the program's masks, but for a thread in disarm.
LEMMA MasksStep ==
    ASSUME SignalsInv, SignalsNext
    PROVE  MasksExact'
<1> USE SignalsAssumption DEF MakerAt, MakerGoto, fixedSigVars, kernelSigVars,
        slotSigVars, makerVars
<1> USE DEF SignalsInv, SignalsTypes, SignalsTypeOK, MasksExact, OneOwner, LinuxExact, BsdExact
<1>1. CASE DispatchSignal
  BY <1>1 DEF DispatchSignal
<1>2. ASSUME NEW t \in Makers, SendSignal(t) PROVE MasksExact'
  BY <1>2 DEF SendSignal, Act, Held
<1>3. ASSUME NEW t \in Makers, Acquire(t) PROVE MasksExact'
  BY <1>3 DEF Acquire
<1>4. ASSUME NEW t \in Makers, ActionBsd(t) PROVE MasksExact'
  BY <1>4 DEF ActionBsd, InstallOrder, SetAction
<1>5. ASSUME NEW t \in Makers, SaveBsd(t) PROVE MasksExact'
  BY <1>5 DEF SaveBsd
<1>6. ASSUME NEW t \in Makers, NEW fails \in BOOLEAN, ArmLinux(t, fails) PROVE MasksExact'
  BY <1>6 DEF ArmLinux
<1>7. ASSUME NEW t \in Makers, NEW fails \in BOOLEAN, ArmBsd(t, fails) PROVE MasksExact'
  BY <1>7 DEF ArmBsd, InstallOrder, SetAction
<1>8. ASSUME NEW t \in Makers, NEW fails \in BOOLEAN, RegisterSignal(t, fails)
      PROVE  MasksExact'
  BY <1>8 DEF RegisterSignal
<1>9. ASSUME NEW t \in Makers, TakeSignal(t) PROVE MasksExact'
  BY <1>9 DEF TakeSignal
<1>10. ASSUME NEW t \in Makers, ReadOne(t) PROVE MasksExact'
  BY <1>10 DEF ReadOne, ReadByte, ReadInfo, KeepReady
<1>11. ASSUME NEW t \in Makers, ParkRecv(t) PROVE MasksExact'
  BY <1>11 DEF ParkRecv
<1>12. ASSUME NEW t \in Makers, DropSignal(t) PROVE MasksExact'
  BY <1>12 DEF DropSignal
<1>13. ASSUME NEW t \in Makers, Disarm(t) PROVE MasksExact'
  BY <1>13 DEF Disarm
<1>14. ASSUME NEW t \in Makers, DisarmBlock(t) PROVE MasksExact'
  BY <1>14 DEF DisarmBlock
<1>15. ASSUME NEW t \in Makers, Unpublish(t) PROVE MasksExact'
  BY <1>15 DEF Unpublish
<1>16. ASSUME NEW t \in Makers, Ignore(t) PROVE MasksExact'
  BY <1>16 DEF Ignore, SetAction
<1>17. ASSUME NEW t \in Makers, Flush(t) PROVE MasksExact'
  BY <1>17 DEF Flush, FlushPending
<1>18. ASSUME NEW t \in Makers, RestoreAction(t) PROVE MasksExact'
  BY <1>18 DEF RestoreAction, SetAction
<1>19. ASSUME NEW t \in Makers, Republish(t) PROVE MasksExact'
  BY <1>19 DEF Republish
<1>20. ASSUME NEW t \in Makers, Unmask(t) PROVE MasksExact'
  BY <1>20 DEF Unmask, Act, Reported
<1>21. ASSUME NEW t \in Makers, DropRegistration(t) PROVE MasksExact'
  BY <1>21 DEF DropRegistration, FieldOrder
<1>22. ASSUME NEW t \in Makers, ReleaseClaim(t) PROVE MasksExact'
  BY <1>22 DEF ReleaseClaim, FieldOrder
<1>23. ASSUME KillProcess PROVE MasksExact'
  BY <1>23 DEF KillProcess, Act, Held
<1> QED
  BY <1>1, <1>2, <1>3, <1>4, <1>5, <1>6, <1>7, <1>8, <1>9, <1>10, <1>11, <1>12,
     <1>13, <1>14, <1>15, <1>16, <1>17, <1>18, <1>19, <1>20, <1>21, <1>22, <1>23
     DEF SignalsNext

\* Every step that takes the default action takes it where it may: no
\* listener is alive to whom the signal was owed.
LEMMA KilledStep ==
    ASSUME SignalsInv, SignalsNext
    PROVE  KilledExact'
<1> USE SignalsAssumption DEF MakerAt, MakerGoto, fixedSigVars, kernelSigVars,
        slotSigVars, makerVars
<1> USE DEF SignalsInv, SignalsTypes, SignalsTypeOK, KilledExact, OneOwner, LinuxExact,
        BsdExact, MasksExact, Alive
<1>1. CASE DispatchSignal
  BY <1>1 DEF DispatchSignal
<1>2. ASSUME NEW t \in Makers, SendSignal(t) PROVE KilledExact'
  <2>1. /\ killed = Nobody /\ UNCHANGED <<platform, maker, late>>
        /\ killed' = killed \/ (killed' = t /\ disposition = "default" /\ ~blocked[t])
    <3>1. CASE blocked[t]
      BY <1>2, <3>1 DEF SendSignal
    <3>2. CASE ~blocked[t] /\ disposition = "default"
      BY <1>2, <3>2 DEF SendSignal, Act, Held
    <3>3. CASE ~blocked[t] /\ disposition # "default"
      BY <1>2, <3>3 DEF SendSignal, Act, Held
    <3> QED
      BY <1>2, <3>1, <3>2, <3>3 DEF SendSignal
  <2>2. ~late
    BY DEF EdgesExact
  <2>3. disposition = "default" /\ platform = "bsd" => \A u \in Makers : ~Alive(u)
    OBVIOUS
  <2> QED
    BY <2>1, <2>2, <2>3
<1>3. ASSUME NEW t \in Makers, Acquire(t) PROVE KilledExact'
  BY <1>3 DEF Acquire
<1>4. ASSUME NEW t \in Makers, ActionBsd(t) PROVE KilledExact'
  BY <1>4 DEF ActionBsd, InstallOrder, SetAction
<1>5. ASSUME NEW t \in Makers, SaveBsd(t) PROVE KilledExact'
  BY <1>5 DEF SaveBsd
<1>6. ASSUME NEW t \in Makers, NEW fails \in BOOLEAN, ArmLinux(t, fails)
      PROVE  KilledExact'
  BY <1>6 DEF ArmLinux
<1>7. ASSUME NEW t \in Makers, NEW fails \in BOOLEAN, ArmBsd(t, fails) PROVE KilledExact'
  BY <1>7 DEF ArmBsd, InstallOrder, SetAction
<1>8. ASSUME NEW t \in Makers, NEW fails \in BOOLEAN, RegisterSignal(t, fails)
      PROVE  KilledExact'
  BY <1>8 DEF RegisterSignal
<1>9. ASSUME NEW t \in Makers, TakeSignal(t) PROVE KilledExact'
  BY <1>9 DEF TakeSignal
<1>10. ASSUME NEW t \in Makers, ReadOne(t) PROVE KilledExact'
  BY <1>10 DEF ReadOne, ReadByte, ReadInfo, KeepReady
<1>11. ASSUME NEW t \in Makers, ParkRecv(t) PROVE KilledExact'
  BY <1>11 DEF ParkRecv
<1>12. ASSUME NEW t \in Makers, DropSignal(t) PROVE KilledExact'
  BY <1>12 DEF DropSignal
<1>13. ASSUME NEW t \in Makers, Disarm(t) PROVE KilledExact'
  BY <1>13 DEF Disarm
<1>14. ASSUME NEW t \in Makers, DisarmBlock(t) PROVE KilledExact'
  BY <1>14 DEF DisarmBlock
<1>15. ASSUME NEW t \in Makers, Unpublish(t) PROVE KilledExact'
  BY <1>15 DEF Unpublish
<1>16. ASSUME NEW t \in Makers, Ignore(t) PROVE KilledExact'
  BY <1>16 DEF Ignore, SetAction
<1>17. ASSUME NEW t \in Makers, Flush(t) PROVE KilledExact'
  BY <1>17 DEF Flush, FlushPending
<1>18. ASSUME NEW t \in Makers, RestoreAction(t) PROVE KilledExact'
  BY <1>18 DEF RestoreAction, SetAction
<1>19. ASSUME NEW t \in Makers, Republish(t) PROVE KilledExact'
  BY <1>19 DEF Republish
<1>20. ASSUME NEW t \in Makers, Unmask(t) PROVE KilledExact'
  BY <1>20 DEF Unmask, Act, Reported
<1>21. ASSUME NEW t \in Makers, DropRegistration(t) PROVE KilledExact'
  BY <1>21 DEF DropRegistration, FieldOrder
<1>22. ASSUME NEW t \in Makers, ReleaseClaim(t) PROVE KilledExact'
  BY <1>22 DEF ReleaseClaim, FieldOrder
<1>23. ASSUME KillProcess PROVE KilledExact'
  <2>1. /\ killed = Nobody /\ UNCHANGED <<platform, maker, late>>
        /\ \/ killed' = killed
           \/ \E t \in Makers : killed' = t /\ disposition = "default" /\ ~blocked[t]
    <3>1. ASSUME NEW t \in Makers, ~blocked[t], Act(t)
          PROVE  killed' = killed \/ (killed' = t /\ disposition = "default")
      BY <3>1 DEF Act
    <3>2. /\ killed = Nobody /\ UNCHANGED <<platform, maker, late>>
          /\ killed' = killed \/ \E t \in Makers : ~blocked[t] /\ Act(t)
      BY <1>23 DEF KillProcess
    <3> QED
      BY <3>1, <3>2
  <2>2. ~late
    BY DEF EdgesExact
  <2>3. disposition = "default" /\ platform = "bsd" => \A u \in Makers : ~Alive(u)
    OBVIOUS
  <2> QED
    BY <2>1, <2>2, <2>3
<1> QED
  BY <1>1, <1>2, <1>3, <1>4, <1>5, <1>6, <1>7, <1>8, <1>9, <1>10, <1>11, <1>12,
     <1>13, <1>14, <1>15, <1>16, <1>17, <1>18, <1>19, <1>20, <1>21, <1>22, <1>23
     DEF SignalsNext

\* Every step keeps an edge, or a flag, behind what is there to be read.
LEMMA EdgesStep ==
    ASSUME SignalsInv, SignalsNext
    PROVE  EdgesExact'
<1> USE SignalsAssumption DEF MakerAt, MakerGoto, fixedSigVars, kernelSigVars,
        slotSigVars, makerVars
<1> USE DEF SignalsInv, SignalsTypes, SignalsTypeOK, EdgesExact, OneOwner, LinuxExact,
        BsdExact, MasksExact, Alive, Reported, Disarming
<1>1. CASE DispatchSignal
  BY <1>1 DEF DispatchSignal
<1>2. ASSUME NEW t \in Makers, SendSignal(t) PROVE EdgesExact'
  BY <1>2 DEF SendSignal, Act, Held
<1>3. ASSUME NEW t \in Makers, Acquire(t) PROVE EdgesExact'
  BY <1>3 DEF Acquire
<1>4. ASSUME NEW t \in Makers, ActionBsd(t) PROVE EdgesExact'
  BY <1>4 DEF ActionBsd, InstallOrder, SetAction
<1>5. ASSUME NEW t \in Makers, SaveBsd(t) PROVE EdgesExact'
  BY <1>5 DEF SaveBsd
<1>6. ASSUME NEW t \in Makers, NEW fails \in BOOLEAN, ArmLinux(t, fails) PROVE EdgesExact'
  BY <1>6 DEF ArmLinux
<1>7. ASSUME NEW t \in Makers, NEW fails \in BOOLEAN, ArmBsd(t, fails) PROVE EdgesExact'
  BY <1>7 DEF ArmBsd, InstallOrder, SetAction
<1>8. ASSUME NEW t \in Makers, NEW fails \in BOOLEAN, RegisterSignal(t, fails)
      PROVE  EdgesExact'
  BY <1>8 DEF RegisterSignal
<1>9. ASSUME NEW t \in Makers, TakeSignal(t) PROVE EdgesExact'
  BY <1>9 DEF TakeSignal
<1>10. ASSUME NEW t \in Makers, ReadOne(t) PROVE EdgesExact'
  BY <1>10 DEF ReadOne, ReadByte, ReadInfo, KeepReady
<1>11. ASSUME NEW t \in Makers, ParkRecv(t) PROVE EdgesExact'
  BY <1>11 DEF ParkRecv
<1>12. ASSUME NEW t \in Makers, DropSignal(t) PROVE EdgesExact'
  BY <1>12 DEF DropSignal
<1>13. ASSUME NEW t \in Makers, Disarm(t) PROVE EdgesExact'
  BY <1>13 DEF Disarm
<1>14. ASSUME NEW t \in Makers, DisarmBlock(t) PROVE EdgesExact'
  BY <1>14 DEF DisarmBlock
<1>15. ASSUME NEW t \in Makers, Unpublish(t) PROVE EdgesExact'
  BY <1>15 DEF Unpublish
<1>16. ASSUME NEW t \in Makers, Ignore(t) PROVE EdgesExact'
  BY <1>16 DEF Ignore, SetAction
<1>17. ASSUME NEW t \in Makers, Flush(t) PROVE EdgesExact'
  BY <1>17 DEF Flush, FlushPending
<1>18. ASSUME NEW t \in Makers, RestoreAction(t) PROVE EdgesExact'
  BY <1>18 DEF RestoreAction, SetAction
<1>19. ASSUME NEW t \in Makers, Republish(t) PROVE EdgesExact'
  BY <1>19 DEF Republish
<1>20. ASSUME NEW t \in Makers, Unmask(t) PROVE EdgesExact'
  BY <1>20 DEF Unmask, Act, Reported
<1>21. ASSUME NEW t \in Makers, DropRegistration(t) PROVE EdgesExact'
  BY <1>21 DEF DropRegistration, FieldOrder
<1>22. ASSUME NEW t \in Makers, ReleaseClaim(t) PROVE EdgesExact'
  BY <1>22 DEF ReleaseClaim, FieldOrder
<1>23. ASSUME KillProcess PROVE EdgesExact'
  BY <1>23 DEF KillProcess, Act, Held
<1> QED
  BY <1>1, <1>2, <1>3, <1>4, <1>5, <1>6, <1>7, <1>8, <1>9, <1>10, <1>11, <1>12,
     <1>13, <1>14, <1>15, <1>16, <1>17, <1>18, <1>19, <1>20, <1>21, <1>22, <1>23
     DEF SignalsNext

\* A set all of whose members are equal has at most one.
LEMMA AtMostOne ==
    ASSUME NEW S, \A x, y \in S : x = y
    PROVE  Cardinality(S) <= 1
<1>1. Cardinality({}) = 0 /\ \A c : Cardinality({c}) = 1
  BY FS_EmptySet, FS_Singleton
<1>2. CASE S = {}
  BY <1>1, <1>2
<1>3. ASSUME NEW c \in S PROVE Cardinality(S) = 1
  <2>1. S = {c}
    OBVIOUS
  <2> QED
    BY <1>1, <2>1
<1> QED
  BY <1>2, <1>3

\* The invariant holds in every state of the signal.
LEMMA SignalsInvariant == SignalsSpec => []SignalsInv
<1>1. SignalsInit => SignalsInv
  <2> SUFFICES ASSUME SignalsInit PROVE SignalsInv
    OBVIOUS
  <2> USE SignalsAssumption DEF SignalsInit
  <2>1. SignalsTypes
    <3>1. queue \in 0..PipeRoom
      OBVIOUS
    <3> QED
      BY <3>1 DEF SignalsTypes, SignalsTypeOK
  <2>2. OneOwner /\ LinuxExact /\ BsdExact /\ MasksExact /\ KilledExact
    BY DEF OneOwner, Alive, LinuxExact, BsdExact, MasksExact, KilledExact
  <2>3. EdgesExact
    BY DEF EdgesExact, Reported
  <2> QED
    BY <2>1, <2>2, <2>3 DEF SignalsInv
<1>2. SignalsInv /\ [SignalsNext]_signalsVars => SignalsInv'
  <2> SUFFICES ASSUME SignalsInv, [SignalsNext]_signalsVars PROVE SignalsInv'
    OBVIOUS
  <2>1. CASE SignalsNext
    BY <2>1, SignalsTypesStep, OneOwnerStep, LinuxStep, BsdStep, MasksStep, KilledStep, EdgesStep
       DEF SignalsInv
  <2>2. CASE UNCHANGED signalsVars
    <3> USE <2>2 DEF SignalsInv, signalsVars, fixedSigVars, kernelSigVars, slotSigVars, makerVars
    <3>1. SignalsTypes'
      BY DEF SignalsTypes, SignalsTypeOK
    <3>2. OneOwner' /\ LinuxExact' /\ BsdExact' /\ MasksExact' /\ KilledExact'
      BY DEF OneOwner, Alive, LinuxExact, BsdExact, MasksExact, KilledExact
    <3>3. EdgesExact'
      BY DEF EdgesExact, Reported
    <3> QED
      BY <3>1, <3>2, <3>3
  <2> QED
    BY <2>1, <2>2
<1> QED
  BY <1>1, <1>2, PTL DEF SignalsSpec

\* The default action is not taken while a Signal exists, nor by a signal
\* that came while the handler was taken down, and without a Signal the
\* program's own disposition and masks are in force again (install, disarm).
THEOREM DefaultIsHeldOff == SignalsSpec => []DefaultHeldOff
<1>1. SignalsInv => DefaultHeldOff
  <2> SUFFICES ASSUME SignalsInv PROVE DefaultHeldOff
    OBVIOUS
  <2> USE DEF SignalsInv
  <2>1. ASSUME \A t \in Makers : maker[t] = "out"
        PROVE  /\ disposition = original /\ saved = "none"
               /\ platform = "bsd" => blocked = was
    <3>1. platform = "bsd" => \A t \in Makers : blocked[t] = was[t]
      BY <2>1 DEF MasksExact
    <3> QED
      BY <2>1, <3>1 DEF SignalsTypes, LinuxExact, BsdExact
  <2> QED
    BY <2>1 DEF DefaultHeldOff, SignalsTypes, KilledExact
<1> QED
  BY <1>1, SignalsInvariant, PTL

\* A Signal that exists has the one claim, and its descriptor is in the
\* poller, whatever other threads make and drop (Claim, Signal::new).
THEOREM WaitersStayRegistered == SignalsSpec => []WaiterStaysRegistered
<1>1. SignalsInv => WaiterStaysRegistered
  <2> SUFFICES ASSUME SignalsInv PROVE WaiterStaysRegistered
    OBVIOUS
  <2> DEFINE L == {t \in Makers : Alive(t)}
  <2>1. \A x, y \in L : x = y
    BY DEF SignalsInv, OneOwner, Alive
  <2>2. Cardinality(L) <= 1
    BY <2>1, AtMostOne
  <2> QED
    BY <2>2 DEF SignalsInv, OneOwner, Alive, WaiterStaysRegistered
<1> QED
  BY <1>1, SignalsInvariant, PTL

\* A task parked in recv beside something its descriptor has to report is about
\* to be told, whether it was sent to its thread or to the process, and no
\* handler runs without its pipe (install, poll_recv).
THEOREM DeliveriesAreSeen == SignalsSpec => []DeliveryIsSeen
<1>1. SignalsInv => DeliveryIsSeen
  BY DEF SignalsInv, EdgesExact, DeliveryIsSeen
<1> QED
  BY <1>1, SignalsInvariant, PTL
=============================================================================
