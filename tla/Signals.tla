------------------------------- MODULE Signals -------------------------------
(***************************************************************************)
(* Waiting for one unix signal number (signal.rs): two threads make and    *)
(* drop a Signal for it, concurrently, on Linux (signalfd and the calling  *)
(* thread's mask) or on the BSDs (a handler that writes to a pipe), while  *)
(* the signal is sent to any thread, or to the process, at any time.  The  *)
(* thread that makes a Signal is the one that polls and drops it and turns *)
(* its reactor (block_on_with).                                            *)
(*                                                                         *)
(* External: the kernel's dispositions, masks and pending signals, its     *)
(* poller, which knows a descriptor by its number, and the slot, which is  *)
(* module Slot's promise.  A signalfd reports what is pending on the       *)
(* thread that looks at it and what is pending for the process: a signal   *)
(* sent to another thread that masks it stays pending there, unseen.       *)
(***************************************************************************)
EXTENDS Naturals, FiniteSets

CONSTANTS Makers,       \* the threads
          MaxMade,      \* bound on the calls of Signal::new
          MaxSent,      \* bound on the signals sent
          PipeRoom      \* bytes the handler's pipe holds

ASSUME SignalsAssumption ==
    IsFiniteSet(Makers) /\ MaxMade \in Nat /\ MaxSent \in Nat /\ PipeRoom \in Nat \ {0}

Nobody == "nobody"

VARIABLES platform, original,    \* "linux" or "bsd"; the program's disposition
          eager,                 \* SIG_IGN drops a pending signal at once
          claimed,               \* the bit in CLAIMED
          disposition, saved,    \* kernel; SAVED, "none" or an action
          previous,              \* the saved action in a local of install or disarm
          published, fd,         \* PIPES.write >= 0; the descriptor was made
          blocked, pend,         \* per thread: masked; "caught" or "new", sent while
                                 \* masked, with our handler installed or not
          shared,                \* the same, pending for the process
          queue,                 \* bytes in the pipe
          maker, was,            \* per thread: where it is, was_blocked
          registered,            \* per thread: it has a Registration
          inpoller,              \* the descriptor is in the poller
          sigready, sigparked, sigedge,  \* slot: flag, waker; kernel: edge
          killed, late,          \* history: who took the default action; by a
                                 \* signal from before the handler went
          dropped,               \* a handler that found nothing to write to
          made, sent

kernelSigVars == <<disposition, blocked, pend, shared, killed, dropped>>
slotSigVars == <<inpoller, sigready, sigparked, sigedge>>
makerVars == <<maker, was, registered>>
fixedSigVars == <<platform, original, eager>>
signalsVars == <<fixedSigVars, claimed, saved, previous, published, fd, queue,
                 kernelSigVars, slotSigVars, makerVars, late, made, sent>>

SignalsTypeOK ==
    /\ claimed \in BOOLEAN /\ disposition \in {"default", "own", "handler", "ignore"}
    /\ saved \in {"none", "default", "own", "handler"}
    /\ maker \in [Makers -> {"out", "arm", "action", "save", "register",
                             "live", "read", "park", "parked",
                             "disarm", "block", "unpublish", "ignore", "flush",
                             "restore", "republish", "unmask", "leave", "release"}]
    /\ shared \in {"no", "caught", "new"} /\ queue \in 0..PipeRoom
    /\ killed \in Makers \cup {Nobody}

SignalsInit ==
    /\ platform \in {"linux", "bsd"} /\ original \in {"default", "own"} /\ eager \in BOOLEAN
    /\ claimed = FALSE /\ disposition = original /\ saved = "none"
    /\ previous = "none" /\ published = FALSE /\ fd = FALSE /\ queue = 0
    /\ blocked \in [Makers -> BOOLEAN] /\ pend = [t \in Makers |-> "no"] /\ shared = "no"
    /\ maker = [t \in Makers |-> "out"] /\ was = blocked
    /\ registered = [t \in Makers |-> FALSE]
    /\ inpoller = FALSE /\ sigready = FALSE /\ sigparked = FALSE /\ sigedge = FALSE
    /\ killed = Nobody /\ late = FALSE /\ dropped = FALSE /\ made = 0 /\ sent = 0

MakerAt(t, label) == maker[t] = label /\ killed = Nobody
MakerGoto(t, label) == maker' = [maker EXCEPT ![t] = label]

\* The Signal exists, from the return of new to the start of its drop.
Alive(t) == maker[t] \in {"live", "read", "park", "parked"}
Disarming(t) == maker[t] \in {"block", "unpublish", "ignore", "flush", "restore", "republish"}

\* What a signalfd reports to thread t.
Reported(t) == pend[t] # "no" \/ shared # "no"

-----------------------------------------------------------------------------
(* The kernel.                                                             *)

\* The signal acts on thread t, which does not block it; write_signal puts a
\* byte into the pipe if its write end is published and there is room.
Act(t) ==
    CASE disposition = "default" ->
           killed' = t /\ UNCHANGED <<queue, sigedge, dropped>>
      [] disposition = "handler" ->
           /\ queue' = IF published /\ queue < PipeRoom THEN queue + 1 ELSE queue
           /\ sigedge' = (sigedge \/ (published /\ inpoller))
           /\ dropped' = (dropped \/ (~published /\ ~\E u \in Makers : Disarming(u)))
           /\ UNCHANGED killed
      [] OTHER -> UNCHANGED <<killed, queue, sigedge, dropped>>

\* What is kept of a signal sent while it is masked, on top of an earlier one.
Held(earlier) ==
    IF earlier = "caught" \/ disposition = "handler" THEN "caught" ELSE "new"

\* A signal is sent to thread t (pthread_kill, raise); if t masks it, it stays
\* pending there, which the descriptor reports to t alone.
SendSignal(t) ==
    /\ killed = Nobody /\ sent < MaxSent
    /\ sent' = sent + 1
    /\ IF blocked[t]
       THEN /\ pend' = [pend EXCEPT ![t] = Held(@)]
            /\ sigedge' = (sigedge \/ (platform = "linux" /\ inpoller /\ registered[t]))
            /\ UNCHANGED <<killed, queue, dropped>>
       ELSE Act(t) /\ UNCHANGED pend
    /\ UNCHANGED <<fixedSigVars, previous, claimed, saved, published, fd, disposition,
                   blocked, shared, inpoller, sigready, sigparked, makerVars, late, made>>

\* A signal is sent to the process (kill): some thread that does not mask it
\* takes it; if all do it stays pending for whoever looks or unmasks first.
KillProcess ==
    /\ killed = Nobody /\ sent < MaxSent
    /\ sent' = sent + 1
    /\ \/ \E t \in Makers : ~blocked[t] /\ Act(t) /\ UNCHANGED shared
       \/ /\ \A t \in Makers : blocked[t]
          /\ shared' = Held(shared)
          /\ sigedge' = (sigedge \/ (platform = "linux" /\ inpoller))
          /\ UNCHANGED <<killed, queue, dropped>>
    /\ UNCHANGED <<fixedSigVars, previous, claimed, saved, published, fd, disposition,
                   blocked, pend, inpoller, sigready, sigparked, makerVars, late, made>>

\* sigaction; a pending signal may be dropped when it becomes ignored.
SetAction(action) ==
    /\ disposition' = action
    /\ IF action = "ignore" /\ eager
       THEN pend' = [t \in Makers |-> "no"] /\ shared' = "no"
       ELSE UNCHANGED <<pend, shared>>

\* The reactor: the flag is set and the parked waker called.
DispatchSignal ==
    /\ sigedge /\ killed = Nobody
    /\ sigedge' = FALSE
    /\ sigready' = TRUE /\ sigparked' = FALSE
    /\ maker' = [t \in Makers |-> IF maker[t] = "parked" /\ sigparked THEN "live" ELSE maker[t]]
    /\ UNCHANGED <<fixedSigVars, previous, claimed, saved, published, fd, queue,
                   kernelSigVars, inpoller, was, registered, late, made, sent>>

-----------------------------------------------------------------------------
(* Signal::new                                                             *)

\* Claim::acquire: fetch_or, EBUSY if the bit was set.
Acquire(t) ==
    /\ MakerAt(t, "out") /\ made < MaxMade
    /\ made' = made + 1
    /\ claimed' = TRUE
    /\ IF claimed THEN UNCHANGED maker ELSE MakerGoto(t, "arm")
    /\ UNCHANGED <<fixedSigVars, previous, saved, published, fd, queue, kernelSigVars,
                   slotSigVars, was, registered, late, sent>>

\* Linux: the mask first, then the descriptor, cached or made; if it cannot
\* be made the mask is put back.
ArmLinux(t, fails) ==
    /\ MakerAt(t, "arm") /\ platform = "linux"
    /\ fails => ~fd
    /\ was' = [was EXCEPT ![t] = blocked[t]]
    /\ blocked' = IF fails THEN blocked ELSE [blocked EXCEPT ![t] = TRUE]
    /\ fd' = ~fails
    /\ MakerGoto(t, IF fails THEN "release" ELSE "register")
    /\ UNCHANGED <<fixedSigVars, previous, claimed, saved, published, queue, disposition,
                   pend, shared, killed, dropped, slotSigVars, registered, late, made, sent>>

\* Slip: the handler is installed before it has anything to write to.
InstallOrderLate(label) ==
    IF label = "arm" THEN previous' = disposition /\ SetAction("handler") /\ UNCHANGED published
    ELSE published' = TRUE /\ UNCHANGED <<previous, disposition, pend, shared>>

\* BSD install: the write end is published, then the handler installed.
InstallOrder(label) ==
    IF label = "arm" THEN published' = TRUE /\ UNCHANGED <<previous, disposition, pend, shared>>
    ELSE previous' = disposition /\ SetAction("handler") /\ UNCHANGED published

\* ensure_pipe may fail to make the pipe.
ArmBsd(t, fails) ==
    /\ MakerAt(t, "arm") /\ platform = "bsd"
    /\ fails => ~fd
    /\ IF fails
       THEN MakerGoto(t, "release") /\ UNCHANGED <<fd, published, previous, disposition, pend, shared>>
       ELSE fd' = TRUE /\ InstallOrder("arm") /\ MakerGoto(t, "action")
    /\ UNCHANGED <<fixedSigVars, claimed, saved, queue, blocked, killed,
                   dropped, slotSigVars, was, registered, late, made, sent>>

ActionBsd(t) ==
    /\ MakerAt(t, "action")
    /\ InstallOrder("action")
    /\ MakerGoto(t, "save")
    /\ UNCHANGED <<fixedSigVars, claimed, saved, fd, queue, blocked, killed,
                   dropped, slotSigVars, was, registered, late, made, sent>>

\* What sigaction replaced is kept for disarm.
SaveBsd(t) ==
    /\ MakerAt(t, "save")
    /\ saved' = previous
    /\ MakerGoto(t, "register")
    /\ UNCHANGED <<fixedSigVars, previous, claimed, published, fd, queue, kernelSigVars,
                   slotSigVars, was, registered, late, made, sent>>

\* handle.register: the descriptor is added to the poller, its slot readable;
\* what waits on it already is an edge.  If it fails the arming is undone.
RegisterSignal(t, fails) ==
    /\ MakerAt(t, "register")
    /\ IF fails THEN MakerGoto(t, "disarm") /\ UNCHANGED <<slotSigVars, registered>>
       ELSE /\ inpoller' = TRUE /\ sigready' = TRUE /\ sigparked' = FALSE
            /\ sigedge' = (queue > 0 \/ (platform = "linux" /\ Reported(t)))
            /\ registered' = [registered EXCEPT ![t] = TRUE]
            /\ MakerGoto(t, "live")
    /\ UNCHANGED <<fixedSigVars, previous, claimed, saved, published, fd, queue,
                   kernelSigVars, was, late, made, sent>>

-----------------------------------------------------------------------------
(* Signal::poll_recv                                                       *)

TakeSignal(t) ==
    /\ MakerAt(t, "live")
    /\ IF sigready THEN sigready' = FALSE /\ MakerGoto(t, "read") /\ UNCHANGED sigparked
       ELSE sigparked' = TRUE /\ MakerGoto(t, "parked") /\ UNCHANGED sigready
    /\ UNCHANGED <<fixedSigVars, previous, claimed, saved, published, fd, queue,
                   kernelSigVars, inpoller, sigedge, was, registered, late, made, sent>>

\* mark_readable after an event was read.
KeepReady == sigready' = TRUE

\* read_one: a byte of the handler's pipe ...
ReadByte ==
    /\ platform = "bsd" /\ queue > 0
    /\ queue' = queue - 1 /\ UNCHANGED <<pend, shared>>

\* ... or, from the signalfd, a signal pending on its reader or for the
\* process ...
ReadInfo(t) ==
    /\ platform = "linux"
    /\ \/ pend[t] # "no" /\ pend' = [pend EXCEPT ![t] = "no"] /\ UNCHANGED shared
       \/ pend[t] = "no" /\ shared # "no" /\ shared' = "no" /\ UNCHANGED pend
    /\ UNCHANGED queue

\* ... which does not prove the descriptor empty; or EAGAIN.
ReadOne(t) ==
    /\ MakerAt(t, "read")
    /\ \/ (ReadByte \/ ReadInfo(t)) /\ KeepReady /\ MakerGoto(t, "live")
       \/ /\ queue = 0 /\ (platform = "linux" => ~Reported(t))
          /\ MakerGoto(t, "park")
          /\ UNCHANGED <<queue, pend, shared, sigready>>
    /\ UNCHANGED <<fixedSigVars, previous, claimed, saved, published, fd, disposition,
                   blocked, killed, dropped, inpoller, sigparked, sigedge, was,
                   registered, late, made, sent>>

\* poll_readable: parks, or wakes itself if an edge came meanwhile.
ParkRecv(t) ==
    /\ MakerAt(t, "park")
    /\ IF sigready THEN MakerGoto(t, "live") /\ UNCHANGED sigparked
       ELSE sigparked' = TRUE /\ MakerGoto(t, "parked")
    /\ UNCHANGED <<fixedSigVars, previous, claimed, saved, published, fd, queue,
                   kernelSigVars, inpoller, sigready, sigedge, was, registered,
                   late, made, sent>>

-----------------------------------------------------------------------------
(* Signal::drop, and the error paths of new.                               *)

DropSignal(t) ==
    /\ killed = Nobody /\ maker[t] \in {"live", "parked"}
    /\ MakerGoto(t, "disarm")
    /\ UNCHANGED <<fixedSigVars, previous, claimed, saved, published, fd, queue,
                   kernelSigVars, slotSigVars, was, registered, late, made, sent>>

\* disarm: nothing on Linux; on the BSDs what was saved is taken ...
Disarm(t) ==
    /\ MakerAt(t, "disarm")
    /\ saved' = "none" /\ previous' = saved
    /\ MakerGoto(t, IF saved # "none" THEN "block" ELSE "leave")
    /\ UNCHANGED <<fixedSigVars, claimed, published, fd, queue, kernelSigVars,
                   slotSigVars, was, registered, late, made, sent>>

\* ... the signal held off this thread ...
DisarmBlock(t) ==
    /\ MakerAt(t, "block")
    /\ was' = [was EXCEPT ![t] = blocked[t]]
    /\ blocked' = [blocked EXCEPT ![t] = TRUE]
    /\ MakerGoto(t, "unpublish")
    /\ UNCHANGED <<fixedSigVars, previous, claimed, saved, published, fd, queue,
                   disposition, pend, shared, killed, dropped, slotSigVars, registered,
                   late, made, sent>>

Unpublish(t) ==
    /\ MakerAt(t, "unpublish")
    /\ published' = FALSE
    /\ MakerGoto(t, "ignore")
    /\ UNCHANGED <<fixedSigVars, previous, claimed, saved, fd, queue, kernelSigVars,
                   slotSigVars, was, registered, late, made, sent>>

Ignore(t) ==
    /\ MakerAt(t, "ignore")
    /\ SetAction("ignore")
    /\ MakerGoto(t, "flush")
    /\ UNCHANGED <<fixedSigVars, previous, claimed, saved, published, fd, queue, blocked,
                   killed, dropped, slotSigVars, was, registered, late, made, sent>>

\* Slip: a signal still pending is left to the restored action.
FlushPendingNot(t) == UNCHANGED <<pend, shared>>

\* Unblocked and blocked again under SIG_IGN, unless the program had it
\* blocked itself.
FlushPending(t) ==
    IF was[t] THEN UNCHANGED <<pend, shared>>
    ELSE pend' = [pend EXCEPT ![t] = "no"] /\ shared' = "no"

Flush(t) ==
    /\ MakerAt(t, "flush")
    /\ FlushPending(t)
    /\ MakerGoto(t, "restore")
    /\ UNCHANGED <<fixedSigVars, previous, claimed, saved, published, fd, queue,
                   disposition, blocked, killed, dropped, slotSigVars, was,
                   registered, late, made, sent>>

\* ... and the program's action, the write end and the mask are put back.
RestoreAction(t) ==
    /\ MakerAt(t, "restore")
    /\ SetAction(previous)
    /\ MakerGoto(t, "republish")
    /\ UNCHANGED <<fixedSigVars, previous, claimed, saved, published, fd, queue, blocked,
                   killed, dropped, slotSigVars, was, registered, late, made, sent>>

Republish(t) ==
    /\ MakerAt(t, "republish")
    /\ published' = TRUE
    /\ MakerGoto(t, "unmask")
    /\ UNCHANGED <<fixedSigVars, previous, claimed, saved, fd, queue, kernelSigVars,
                   slotSigVars, was, registered, late, made, sent>>

\* A signal still pending acts as the mask is lifted.
Unmask(t) ==
    /\ MakerAt(t, "unmask")
    /\ blocked' = [blocked EXCEPT ![t] = was[t]]
    /\ IF Reported(t) /\ ~was[t]
       THEN /\ Act(t) /\ pend' = [pend EXCEPT ![t] = "no"] /\ shared' = "no"
            /\ late' = ("caught" \in {pend[t], shared} /\ disposition = "default")
       ELSE UNCHANGED <<killed, queue, sigedge, dropped, pend, shared, late>>
    /\ MakerGoto(t, "leave")
    /\ UNCHANGED <<fixedSigVars, previous, claimed, saved, published, fd, disposition,
                   inpoller, sigready, sigparked, was, registered, made, sent>>

\* Slip: the claim is released before the descriptor leaves the poller.
FieldOrderReversed(label) ==
    IF label = "leave" THEN claimed' = FALSE /\ UNCHANGED inpoller
    ELSE inpoller' = FALSE /\ UNCHANGED claimed

\* The fields in their order: the registration, then the claim.
FieldOrder(label) ==
    IF label = "leave" THEN inpoller' = FALSE /\ UNCHANGED claimed
    ELSE claimed' = FALSE /\ UNCHANGED inpoller

\* The registration is dropped: the poller forgets the descriptor's number.
DropRegistration(t) ==
    /\ MakerAt(t, "leave")
    /\ MakerGoto(t, "release")
    /\ IF registered[t]
       THEN FieldOrder("leave") /\ sigedge' = FALSE /\ sigparked' = FALSE
       ELSE UNCHANGED <<inpoller, claimed, sigedge, sigparked>>
    /\ UNCHANGED <<fixedSigVars, previous, saved, published, fd, queue, kernelSigVars,
                   sigready, was, registered, late, made, sent>>

\* Claim::drop.
ReleaseClaim(t) ==
    /\ MakerAt(t, "release")
    /\ FieldOrder("release")
    /\ MakerGoto(t, "out")
    /\ registered' = [registered EXCEPT ![t] = FALSE]
    /\ UNCHANGED <<fixedSigVars, previous, saved, published, fd, queue, kernelSigVars,
                   sigready, sigparked, sigedge, was, late, made, sent>>

SignalsNext ==
    \/ DispatchSignal \/ KillProcess
    \/ \E t \in Makers :
          \/ SendSignal(t) \/ Acquire(t) \/ ActionBsd(t) \/ SaveBsd(t)
          \/ \E fails \in BOOLEAN :
                ArmLinux(t, fails) \/ ArmBsd(t, fails) \/ RegisterSignal(t, fails)
          \/ TakeSignal(t) \/ ReadOne(t) \/ ParkRecv(t)
          \/ DropSignal(t) \/ Disarm(t) \/ DisarmBlock(t) \/ Unpublish(t)
          \/ Ignore(t) \/ Flush(t) \/ RestoreAction(t) \/ Republish(t) \/ Unmask(t)
          \/ DropRegistration(t) \/ ReleaseClaim(t)

SignalsSpec == SignalsInit /\ [][SignalsNext]_signalsVars

-----------------------------------------------------------------------------
(* Properties                                                              *)

\* The default action is not taken while a Signal exists: on the BSDs on no
\* thread, on Linux not on the thread that has it; nor by a signal that came
\* in while the handler was being taken down.  With no Signal about, the
\* program's own disposition is in force again and, on the BSDs, its masks
\* are as they were (install, disarm, Claim).
DefaultHeldOff ==
    /\ SignalsTypeOK
    /\ killed # Nobody =>
          /\ ~Alive(killed) /\ ~late
          /\ platform = "bsd" => \A t \in Makers : ~Alive(t)
    /\ (\A t \in Makers : maker[t] = "out") =>
          /\ disposition = original /\ saved = "none"
          /\ platform = "bsd" => blocked = was

\* A Signal that exists has the one claim, and its descriptor is in the
\* poller, whoever dropped one at the same time (the order of the fields of
\* Signal, and of the drops in new).
WaiterStaysRegistered ==
    /\ \A t \in Makers : Alive(t) => claimed /\ inpoller
    /\ Cardinality({t \in Makers : Alive(t)}) <= 1

\* A delivery is not missed: a handler finds its pipe unless it is being
\* taken down, and a task parked in recv beside something its descriptor has to
\* report is about to be told (install, poll_recv).  On Linux that is what is
\* pending on its own thread or for the process; a signal that another thread
\* masks is that thread's alone.
DeliveryIsSeen ==
    /\ ~dropped
    /\ \A t \in Makers :
          maker[t] = "parked" /\ (queue > 0 \/ (platform = "linux" /\ Reported(t)))
             => sigedge
=============================================================================
