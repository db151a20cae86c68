-------------------------------- MODULE Child --------------------------------
(***************************************************************************)
(* One child process (process.rs): spawn and its error path, wait,         *)
(* try_wait, kill, output, status, and the Orphan that reaps a child whose *)
(* handle was dropped.  The exit reaches a waker through a registered      *)
(* descriptor (pidfd or kqueue), through a thread in waitid, or, when the  *)
(* process could no longer be watched, through a blocking wait.            *)
(*                                                                         *)
(* External: the kernel's process and pipes, and std's Child around        *)
(* waitpid.  A descriptor reports a process that can be waited for.  The   *)
(* registration is module Slot's promise: dispatch sets the flag and takes *)
(* the waker in one step.  A parked reader of a pipe with something to     *)
(* read is woken (module Stream).                                          *)
(***************************************************************************)
EXTENDS Naturals

CONSTANT MaxBytes       \* bound on what the child writes to each pipe

ASSUME ChildAssumption == MaxBytes \in Nat

Outputs == {"out", "err"}

VARIABLES proc,              \* the process, as the kernel has it
          watch, exitflag,   \* Watch; the slot's flag or ThreadExit.exited
          parked, edge,      \* whose waker is parked; an undelivered event
          exitwake,          \* the waker taken and about to be called
          holder, step,      \* who has the Process and where its poll_exit is
          process, status,   \* Child: Some or None
          mode, killondrop,  \* what is called on the Child; its option
          stdin, reads,      \* stdin is open; the child reads it to the end
          pipe, owing, wrote, got, open, onpipe  \* the output pipes

procVars == <<proc, owing, wrote, pipe>>
watchVars == <<watch, exitflag, parked, edge, exitwake>>
handleVars == <<holder, step, process, status, mode>>
pipeVars == <<stdin, got, open, onpipe>>
childVars == <<procVars, watchVars, handleVars, pipeVars, killondrop, reads>>

ChildTypeOK ==
    /\ proc \in {"none", "running", "exiting", "zombie", "free"}
    /\ watch \in {"none", "descriptor", "thread", "exiting"}
    /\ parked \in {"nobody", "task", "orphan"}
    /\ exitwake \in {"nobody", "task", "orphan"}
    /\ holder \in {"nobody", "adopt", "failed", "task", "orphan"}
    /\ step \in {"idle", "ask", "park", "parked", "blocked", "collect", "asleep"}
    /\ mode \in {"none", "wait", "status", "output"}
    /\ pipe \in [Outputs -> 0..1] /\ open \subseteq Outputs /\ onpipe \subseteq Outputs

ChildInit ==
    /\ proc = "none" /\ watch = "none" /\ exitflag = FALSE
    /\ parked = "nobody" /\ edge = FALSE /\ exitwake = "nobody"
    /\ holder = "nobody" /\ step = "idle" /\ process = FALSE /\ status = FALSE
    /\ mode = "none" /\ killondrop \in BOOLEAN
    /\ stdin = FALSE /\ reads \in BOOLEAN
    /\ pipe = [x \in Outputs |-> 0] /\ owing \in [Outputs -> 0..MaxBytes]
    /\ wrote = [x \in Outputs |-> 0] /\ got = [x \in Outputs |-> 0]
    /\ open = {} /\ onpipe = {}

-----------------------------------------------------------------------------
(* The kernel.                                                             *)

\* A write blocks on a full pipe and fails on one the parent has closed.
ChildWrites(x) ==
    /\ proc = "running" /\ owing[x] > 0
    /\ IF x \in open
       THEN /\ pipe[x] = 0
            /\ pipe' = [pipe EXCEPT ![x] = 1]
            /\ owing' = [owing EXCEPT ![x] = @ - 1]
            /\ wrote' = [wrote EXCEPT ![x] = @ + 1]
       ELSE owing' = [owing EXCEPT ![x] = 0] /\ UNCHANGED <<pipe, wrote>>
    /\ UNCHANGED <<proc, watchVars, handleVars, pipeVars, killondrop, reads>>

\* The child has written everything and, if it reads its input, seen its end.
CanExit == (\A x \in Outputs : owing[x] = 0) /\ ~(reads /\ stdin)

ChildExits ==
    /\ proc = "running" /\ CanExit
    /\ proc' = "exiting"
    /\ UNCHANGED <<owing, wrote, pipe, watchVars, handleVars, pipeVars, killondrop, reads>>

\* It can be waited for, and a watch that was set up reports it.
BecomesZombie ==
    /\ proc = "exiting"
    /\ proc' = "zombie"
    /\ edge' = (watch \in {"descriptor", "thread"})
    /\ UNCHANGED <<owing, wrote, pipe, watch, exitflag, parked, exitwake,
                   handleVars, pipeVars, killondrop, reads>>

\* dispatch by the reactor, or ThreadExit::exited: the flag is set and the
\* waker taken, to be called after the lock.
ExitReported ==
    /\ edge /\ exitwake = "nobody"
    /\ edge' = FALSE /\ exitflag' = TRUE
    /\ exitwake' = parked /\ parked' = "nobody"
    /\ UNCHANGED <<procVars, watch, handleVars, pipeVars, killondrop, reads>>

\* The waker: a task is polled again, an Orphan reaps once its mutex is free.
\* A waker of a Child that is gone wakes a task that has nothing to poll.
WakeExit ==
    /\ exitwake # "nobody"
    /\ exitwake = "orphan" => step \in {"parked", "idle"}
    /\ exitwake' = "nobody"
    /\ step' = IF step = "parked" /\ exitwake = holder THEN "ask" ELSE step
    /\ UNCHANGED <<procVars, watch, exitflag, parked, edge, holder, process,
                   status, mode, pipeVars, killondrop, reads>>

-----------------------------------------------------------------------------
(* Command::spawn                                                          *)

\* The process starts for spawn, status or output; the pipes asked for are
\* open, and output asks for both.
SpawnChild(m, piped, input) ==
    /\ holder = "nobody" /\ proc = "none"
    /\ proc' = "running" /\ holder' = "adopt" /\ mode' = m
    /\ open' = IF m = "output" THEN Outputs ELSE piped
    /\ stdin' = input
    /\ UNCHANGED <<owing, wrote, pipe, watchVars, step, process, status, got,
                   onpipe, killondrop, reads>>

\* wait and output close stdin first, status every pipe; output drains both
\* pipes before it waits.
GoOn(m) ==
    /\ stdin' = IF m = "none" THEN stdin ELSE FALSE
    /\ open' = IF m = "status" THEN {} ELSE open
    /\ step' = CASE m = "none" -> "idle" [] m = "output" -> "collect" [] OTHER -> "ask"

\* sys::watch: only a process on its way out can be refused, and a pidfd that
\* cannot be had at all leaves the thread.
Watchable(w) == w = "exiting" => proc # "running"

\* Watch::new.  A descriptor is registered readable; that its process is
\* already waitable may or may not (late) be reported as an edge.
NewWatch(w, late) ==
    /\ watch' = w
    /\ exitflag' = (w = "descriptor")
    /\ edge' = ((w = "thread" /\ proc = "zombie") \/ (w = "descriptor" /\ late))

\* adopt succeeds: the Child is made and its first call goes on.
Adopt(w, late) ==
    /\ holder = "adopt"
    /\ Watchable(w) /\ (late => proc = "zombie")
    /\ NewWatch(w, late)
    /\ holder' = "task" /\ process' = TRUE
    /\ GoOn(mode)
    /\ UNCHANGED <<procVars, parked, exitwake, status, mode, got, onpipe,
                   killondrop, reads>>

\* A pipe or the watch could not be registered: the child is killed ...
AdoptFails ==
    /\ holder = "adopt"
    /\ holder' = "failed" /\ mode' = "none"
    /\ proc' = IF proc = "running" THEN "exiting" ELSE proc
    /\ open' = {} /\ stdin' = FALSE
    /\ UNCHANGED <<owing, wrote, pipe, watchVars, step, process, status, got,
                   onpipe, killondrop, reads>>

\* ... and waited for before the error is returned.
FailedReaped ==
    /\ holder = "failed" /\ proc = "zombie"
    /\ proc' = "free" /\ holder' = "nobody"
    /\ UNCHANGED <<owing, wrote, pipe, watchVars, step, process, status, mode,
                   pipeVars, killondrop, reads>>

-----------------------------------------------------------------------------
(* The Child.                                                              *)

Idle == holder = "task" /\ step = "idle"

\* wait, and wait_with_output, which takes the Child.
CallWait(m) ==
    /\ Idle
    /\ mode' = m
    /\ GoOn(m)
    /\ UNCHANGED <<procVars, watchVars, holder, process, status, got, onpipe,
                   killondrop, reads>>

\* The caller closes a pipe of a Child it keeps: ChildStdin::poll_close, or
\* the field taken and dropped, and what was in it is the caller's loss.
ClosePipe(x) ==
    /\ Idle
    /\ stdin' = (stdin /\ x # "in")
    /\ open' = open \ {x}
    /\ got' = [y \in Outputs |-> IF y = x THEN wrote[y] ELSE got[y]]
    /\ UNCHANGED <<procVars, watchVars, handleVars, onpipe, killondrop, reads>>

\* Slip: standard error is read once standard output has ended.
DrainedFirst == IF "out" \in open THEN {"out"} ELSE open

\* Both are polled, whatever the other one says.
Drained == open

Eof == proc \in {"exiting", "zombie", "free"}

\* One poll: the pipes are read until they are empty or at their end.
Drain ==
    /\ step = "collect"
    /\ got' = [x \in Outputs |-> IF x \in Drained THEN got[x] + pipe[x] ELSE got[x]]
    /\ pipe' = [x \in Outputs |-> IF x \in Drained THEN 0 ELSE pipe[x]]
    /\ LET left == IF Eof THEN open \ Drained ELSE open IN
       /\ open' = left
       /\ onpipe' = IF left = {} THEN {} ELSE Drained \cap left
       /\ step' = IF left = {} THEN "ask" ELSE IF Drained \cap left = {} THEN "collect" ELSE "asleep"
    /\ UNCHANGED <<proc, owing, wrote, watchVars, holder, process, status, mode,
                   stdin, killondrop, reads>>

PipeReady ==
    /\ step = "asleep" /\ \E x \in onpipe : pipe[x] > 0 \/ Eof
    /\ step' = "collect" /\ onpipe' = {}
    /\ UNCHANGED <<procVars, watchVars, holder, process, status, mode, stdin,
                   got, open, killondrop, reads>>

\* Slip: the process is kept beside its status.
reapedKeeps == status' = TRUE /\ UNCHANGED process

\* reaped: the status is kept and the process, with its watch, dropped.
reaped == status' = TRUE /\ process' = FALSE

\* Orphan::reap_or_park: nobody is left to be told the status.
OrphanReaped == process' = FALSE /\ UNCHANGED status

\* The Process is dropped: its watch is closed, a parked waker with it.
DropProcess ==
    /\ watch' = "none" /\ parked' = "nobody" /\ edge' = FALSE /\ exitflag' = FALSE

\* A finished wait leaves the Child, status and output end with theirs.
WaitEnds ==
    /\ step' = "idle" /\ mode' = "none"
    /\ holder' = IF mode = "wait" THEN holder ELSE "nobody"

\* poll_exit asks waitpid; poll_wait of a child that was reaped answers ...
AskWaitpid ==
    /\ step = "ask"
    /\ \/ /\ status
          /\ WaitEnds
          /\ UNCHANGED <<proc, watch, parked, edge, exitflag, process, status>>
       \/ /\ ~status /\ proc = "zombie"
          /\ proc' = "free" /\ DropProcess /\ WaitEnds
          /\ (holder = "task" /\ reaped) \/ (holder = "orphan" /\ OrphanReaped)
       \/ /\ ~status /\ proc # "zombie"
          /\ step' = "park"
          /\ UNCHANGED <<proc, watch, parked, edge, exitflag, holder, mode, process, status>>
    /\ UNCHANGED <<owing, wrote, pipe, exitwake, pipeVars, killondrop, reads>>

\* Slip: the waker is parked and the flag looked at before.
ParkBlind == FALSE

\* take_or_park sees the flag that was set since; ThreadExit's stays set.
FlagSeen == exitflag

\* ... and then the watch, which parks the waker unless its flag is set.
ParkOrCheck ==
    /\ step = "park" /\ watch # "exiting"
    /\ IF FlagSeen
       THEN step' = "ask" /\ exitflag' = (watch = "thread") /\ UNCHANGED parked
       ELSE step' = "parked" /\ parked' = holder /\ UNCHANGED exitflag
    /\ UNCHANGED <<procVars, watch, edge, exitwake, holder, process, status,
                   mode, pipeVars, killondrop, reads>>

\* Readiness::Exiting: a blocking wait for a process that is inside exit.
BlockingWait ==
    /\ step = "park" /\ watch = "exiting" /\ proc = "zombie"
    /\ step' = "ask"
    /\ UNCHANGED <<procVars, watchVars, holder, process, status, mode,
                   pipeVars, killondrop, reads>>

\* Child::try_wait.
TryWait ==
    /\ Idle /\ ~status /\ process
    /\ IF proc = "zombie"
       THEN proc' = "free" /\ DropProcess /\ reaped
       ELSE UNCHANGED <<proc, watch, parked, edge, exitflag, process, status>>
    /\ UNCHANGED <<owing, wrote, pipe, exitwake, holder, step, mode, pipeVars,
                   killondrop, reads>>

\* start_kill: SIGKILL to the pid id() names.
StartKill ==
    /\ Idle /\ process
    /\ proc' = IF proc = "running" THEN "exiting" ELSE proc
    /\ UNCHANGED <<owing, wrote, pipe, watchVars, handleVars, pipeVars, killondrop, reads>>

\* A wait is cancel safe: its future is dropped, the waker stays parked.
CancelChildWait ==
    /\ holder = "task" /\ mode = "wait" /\ step = "parked"
    /\ step' = "idle" /\ mode' = "none"
    /\ UNCHANGED <<procVars, watchVars, holder, process, status, pipeVars, killondrop, reads>>

\* Orphan::adopt asks at once.
AdoptedAsks == "ask"

\* Child::drop, also of one that a cancelled output or status held: its pipes
\* go with it, and a child not reaped goes to an Orphan.
DropChild ==
    /\ holder = "task" /\ step \in {"idle", "parked", "asleep"}
    /\ proc' = IF killondrop /\ process /\ proc = "running" THEN "exiting" ELSE proc
    /\ open' = {} /\ stdin' = FALSE /\ onpipe' = {}
    /\ mode' = "none"
    /\ IF process THEN holder' = "orphan" /\ step' = AdoptedAsks
       ELSE holder' = "nobody" /\ step' = "idle"
    /\ UNCHANGED <<owing, wrote, pipe, watchVars, process, status, got, killondrop, reads>>

ChildNext ==
    \/ \E x \in Outputs : ChildWrites(x)
    \/ ChildExits \/ BecomesZombie \/ ExitReported \/ WakeExit
    \/ \E m \in {"none", "status", "output"}, piped \in SUBSET Outputs, input \in BOOLEAN :
          SpawnChild(m, piped, input)
    \/ \E w \in {"descriptor", "thread", "exiting"}, late \in BOOLEAN : Adopt(w, late)
    \/ AdoptFails \/ FailedReaped
    \/ \E m \in {"wait", "output"} : CallWait(m)
    \/ \E x \in Outputs \cup {"in"} : ClosePipe(x)
    \/ Drain \/ PipeReady
    \/ AskWaitpid \/ ParkOrCheck \/ BlockingWait
    \/ TryWait \/ StartKill \/ CancelChildWait \/ DropChild

ChildSpec == ChildInit /\ [][ChildNext]_childVars

-----------------------------------------------------------------------------
(* Properties                                                              *)

\* The pid id() gives out is the child's: whoever holds the Process holds one
\* that was not reaped, a Child has a process or a status and not both, and a
\* spawn that failed left nothing behind (Child::reaped, Command::spawn).
PidIsOurs ==
    /\ ChildTypeOK
    /\ process => proc \in {"running", "exiting", "zombie"}
    /\ holder = "task" => status = ~process
    /\ holder = "orphan" => process
    /\ holder = "nobody" => proc \in {"none", "free"}

\* No exit is slept through, by the task that waits or by the Orphan of a
\* dropped Child: with the process waitable, a parked one is about to be told,
\* and the reaper parked is the one that holds the Process (Process::poll_exit
\* against dispatch and ThreadExit::exited).
ExitIsNoticed ==
    step = "parked" /\ proc = "zombie" => exitwake = holder \/ (edge /\ parked = holder)

\* Parent and child do not wait for each other in status and output: while
\* the parent sleeps, a child that cannot go on writes to a pipe the parent
\* has its waker on; and output returns everything that was written.
NoPipeDeadlock ==
    /\ step \in {"parked", "asleep"} /\ proc = "running" /\ mode \in {"status", "output"} =>
          \/ CanExit
          \/ \E x \in Outputs : owing[x] > 0 /\ (x \in open => pipe[x] = 0)
          \/ \E x \in onpipe : pipe[x] > 0
    /\ mode = "output" /\ step \in {"ask", "park", "parked"} => got = wrote
=============================================================================
