------------------------------- MODULE Stream -------------------------------
(***************************************************************************)
(* A descriptor that is read and written through its reactor slot, of one  *)
(* of three kinds: TcpStream and UdpSocket of net.rs, and the Pipe of a    *)
(* child process (process.rs).  Each poll is a sequence of slot operations *)
(* and system calls that the peer, the kernel and the reactor thread       *)
(* interleave with; the kinds differ in when they keep the readiness they  *)
(* took.  poll_read stands for poll_read_buf too, which differs in the     *)
(* buffer only.  The two directions may be polled by two tasks, or by one; *)
(* a future may be polled with a new waker each time.                      *)
(*                                                                         *)
(* A unit of a datagram socket is a datagram, and "reset" an error left by *)
(* an earlier one (ICMP), which the next call reports and clears.          *)
(*                                                                         *)
(* A TcpStream reads the size of its send buffer once, when it is made,    *)
(* and compares every write with it.  The kernel may not say it, may count *)
(* its own overhead in it, and may grow the buffer afterwards: what was    *)
(* read is a value of its own beside the capacity the buffer really has.   *)
(***************************************************************************)
EXTENDS Slot

CONSTANTS Capacity,    \* of the kernel's send buffer, in units of data
          SendCapacities, \* what SO_SNDBUF may say of it; 0 where it says nothing
          MaxArrive,   \* bound on the units the peer sends
          MaxWrite,    \* bound on the units the application writes
          MaxLen,      \* the longest buffer handed to a read or a write
          MaxInterrupts, \* bound on the signals that interrupt a pipe's calls
          Uses,        \* the directions an application uses a stream in
          Kinds,       \* of descriptors, among "tcp", "pipe" and "udp"
          ErrorIsHangup  \* an error pending on a datagram socket is reported as
                         \* a hang-up: EPOLLERR is, kqueue has no such event

ASSUME StreamAssumption ==
    /\ NoWaker \notin Wakers
    /\ Capacity \in Nat \ {0} /\ MaxLen \in Nat \ {0} /\ SendCapacities \subseteq Nat
    /\ MaxArrive \in Nat /\ MaxWrite \in Nat
    /\ MaxInterrupts \in Nat
    /\ Uses \subseteq SUBSET Directions
    /\ Kinds \subseteq {"tcp", "pipe", "udp"} /\ ErrorIsHangup \in BOOLEAN

VARIABLES kind,
          send_capacity,        \* what a TcpStream read of SO_SNDBUF; 0 where it is not used
          inq, room, peer,      \* kernel: units to read, room to write, peer
          arrived, written,     \* history: units received, units written
          misjudged,            \* history: the last write left room in the buffer
                                \* and was taken to have filled it
          interrupts,           \* history: calls a signal interrupted
          pc, len, waker,       \* per direction: the poll under way
          answer,               \* what the last poll returned
          notified              \* the task was woken since its last poll began

fixed == <<kind, send_capacity>>
kernelVars == <<fixed, inq, room, peer, arrived, interrupts>>
writeVars == <<written, misjudged>>
callVars == <<pc, len, waker, answer, notified>>
vars == <<slotVars, kernelVars, writeVars, callVars>>

TypeOK ==
    /\ SlotTypeOK
    /\ inq \in Nat /\ room \in 0..Capacity /\ peer \in {"open", "closed", "reset"}
    /\ arrived \in Nat /\ written \in Nat
    /\ kind \in Kinds /\ send_capacity \in Nat /\ misjudged \in BOOLEAN
    /\ interrupts \in 0..MaxInterrupts
    /\ pc \in [Directions -> {"idle", "take", "syscall", "fionread", "mark", "park", "done",
                              "retry", "cancel", "last"}]
    /\ len \in [Directions -> Nat]
    /\ waker \in [Directions -> Wakers \cup {NoWaker}]
    /\ answer \in [Directions -> {"ready", "pending"}]
    /\ notified \in [Directions -> BOOLEAN]

Least(m, n) == IF m < n THEN m ELSE n

\* What a level-triggered look at the descriptor would say.
Holds ==
    {c \in Conditions :
        \/ c = "in" /\ (inq > 0 \/ peer # "open")
        \/ c = "out" /\ (room > 0 \/ peer = "reset")
        \/ c = "hup" /\ peer # "open" /\ (kind = "udp" => ErrorIsHangup)}

\* How a peer may end: a datagram socket's has no end to announce (its errors
\* come and go), a pipe leads one way.
MayEnd(end) ==
    CASE kind = "tcp" -> TRUE
      [] kind = "pipe" -> pc[IF end = "closed" THEN "read" ELSE "write"] # "done"
      [] kind = "udp" -> FALSE

\* Data, and a whole connection, may have come and gone before register.  Only
\* poll_write_vectored looks at what SO_SNDBUF said.
Init ==
    /\ kind \in Kinds /\ interrupts = 0
    /\ inq \in 0..MaxArrive /\ arrived = inq
    /\ room = Capacity
    /\ \E use \in Uses : pc = [d \in Directions |-> IF d \in use THEN "idle" ELSE "done"]
    /\ send_capacity \in IF kind = "tcp" /\ pc["write"] = "idle" THEN SendCapacities ELSE {0}
    /\ peer \in {"open", "closed", "reset"} /\ (peer # "open" => MayEnd(peer))
    /\ SlotInit(Holds)
    /\ written = 0 /\ misjudged = FALSE
    /\ len = [d \in Directions |-> 0]
    /\ waker = [d \in Directions |-> NoWaker]
    /\ answer = [d \in Directions |-> "ready"]
    /\ notified = [d \in Directions |-> FALSE]

-----------------------------------------------------------------------------
(* Kernel and peer.                                                        *)

PeerSends ==
    /\ (peer = "open" \/ kind = "udp") /\ arrived < MaxArrive
    /\ inq' = inq + 1 /\ arrived' = arrived + 1
    /\ edges' = edges \cup {"in"}
    /\ UNCHANGED <<slot, events, pending, fixed, room, peer, interrupts, writeVars, callVars>>

PeerReads ==
    /\ (peer # "reset" \/ kind = "udp") /\ room < Capacity
    /\ room' = room + 1
    /\ edges' = IF room = 0 THEN edges \cup {"out"} ELSE edges
    /\ UNCHANGED <<slot, events, pending, fixed, inq, peer, arrived, interrupts, writeVars, callVars>>

PeerCloses ==
    /\ peer = "open" /\ MayEnd("closed")
    /\ peer' = "closed"
    /\ edges' = edges \cup {"in", "hup"}
    /\ UNCHANGED <<slot, events, pending, fixed, inq, room, arrived, interrupts, writeVars, callVars>>

\* The connection is reset, the reader of a pipe goes away, an earlier
\* datagram is answered by an error.
PeerResets ==
    /\ peer # "reset" /\ (MayEnd("reset") \/ (kind = "udp" /\ arrived < MaxArrive))
    /\ peer' = "reset"
    /\ arrived' = IF kind = "udp" THEN arrived + 1 ELSE arrived
    /\ edges' = edges \cup {"in", "out"} \cup
                  (IF kind = "udp" /\ ~ErrorIsHangup THEN {} ELSE {"hup"})
    /\ UNCHANGED <<slot, events, pending, fixed, inq, room, interrupts, writeVars, callVars>>

-----------------------------------------------------------------------------
(* The reactor thread.                                                     *)

Wait == wait(Holds) /\ UNCHANGED <<kernelVars, writeVars, callVars>>

Dispatch == dispatch /\ UNCHANGED <<kernelVars, writeVars, callVars>>

Wake(w) ==
    /\ w \in pending
    /\ pending' = pending \ {w}
    /\ notified' = [d \in Directions |-> notified[d] \/ waker[d] = w]
    /\ UNCHANGED <<slot, edges, events, kernelVars, writeVars, pc, len, waker, answer>>

-----------------------------------------------------------------------------
(* poll_read and poll_write.                                               *)

\* The application polls with a buffer of n units, after a wake, after a poll
\* that completed, or for reasons of its own.
Poll(d, w, n) ==
    /\ pc[d] = "idle"
    /\ d = "write" => written + n <= MaxWrite
    /\ kind = "udp" => n = 1
    /\ pc' = [pc EXCEPT ![d] = "take"]
    /\ len' = [len EXCEPT ![d] = n]
    /\ waker' = [waker EXCEPT ![d] = w]
    /\ notified' = [notified EXCEPT ![d] = FALSE]
    /\ UNCHANGED <<slotVars, kernelVars, writeVars, answer>>

\* The poll returns; after the end of the stream or an error it is not
\* called again.
Return(d, result, last) ==
    /\ pc' = [pc EXCEPT ![d] = IF last THEN "done" ELSE "idle"]
    /\ len' = [len EXCEPT ![d] = 0]
    /\ answer' = [answer EXCEPT ![d] = result]

Goto(d, to) ==
    /\ pc' = [pc EXCEPT ![d] = to]
    /\ UNCHANGED <<len, answer>>

Take(d) ==
    /\ pc[d] = "take"
    /\ take_or_park(d, waker[d])
    /\ IF Ready(d) THEN Goto(d, "syscall") ELSE Return(d, "pending", FALSE)
    /\ UNCHANGED <<edges, events, pending, kernelVars, writeVars, waker, notified>>

\* TcpSocket::recv: what is queued, the end of the stream, an error, or
\* EWOULDBLOCK.
Recv ==
    /\ kind = "tcp" /\ pc["read"] = "syscall"
    /\ IF peer = "reset" THEN Return("read", "ready", TRUE) /\ UNCHANGED inq
       ELSE IF inq > 0
       THEN /\ inq' = inq - Least(len["read"], inq)
            /\ IF len["read"] <= inq THEN Goto("read", "fionread")
               ELSE Return("read", "ready", FALSE)
       ELSE /\ UNCHANGED inq
            /\ IF peer = "closed" THEN Return("read", "ready", TRUE) ELSE Goto("read", "park")
    /\ UNCHANGED <<slotVars, fixed, room, peer, arrived, interrupts, writeVars, waker, notified>>

\* The buffer was filled: ask what is left (FIONREAD may also fail).
Fionread ==
    /\ pc["read"] = "fionread"
    /\ \/ Goto("read", "mark")
       \/ inq = 0 /\ Return("read", "ready", FALSE)
    /\ UNCHANGED <<slotVars, kernelVars, writeVars, waker, notified>>

\* TcpSocket::send_vectored: taken whole, in part, an error, or EWOULDBLOCK.
\* A write taken whole has not filled the buffer, unless it was as large as
\* the buffer was said to be.
Send ==
    /\ kind = "tcp" /\ pc["write"] = "syscall"
    /\ IF peer = "reset" THEN Return("write", "ready", TRUE) /\ UNCHANGED <<room, writeVars>>
       ELSE LET n == Least(len["write"], room)
                whole == n = len["write"]
                small == send_capacity = 0 \/ len["write"] < send_capacity
            IN  /\ room' = room - n
                /\ written' = written + n
                /\ misjudged' = (whole /\ ~small /\ n < room)
                /\ IF n = 0 THEN Goto("write", "park")
                   ELSE IF whole /\ small THEN Goto("write", "mark")
                   ELSE Return("write", "ready", FALSE)
    /\ UNCHANGED <<slotVars, fixed, inq, peer, arrived, interrupts, waker, notified>>

\* The readiness is put back, whatever became of it meanwhile.
Mark(d) ==
    /\ pc[d] = "mark"
    /\ mark_ready(d)
    /\ IF kind = "udp" THEN Goto(d, "cancel") ELSE Return(d, "ready", FALSE)
    /\ UNCHANGED <<edges, events, pending, kernelVars, writeVars, waker, notified>>

\* Slip: the waker is parked without looking at the readiness again.
ParkBlind(d) ==
    /\ pc[d] = "park"
    /\ slot' = [slot EXCEPT !.parked[d] = waker[d]]
    /\ Return(d, "pending", FALSE)
    /\ UNCHANGED <<edges, events, pending, kernelVars, writeVars, waker, notified>>

\* The call would block: park for the next edge, unless it has come already.
Park(d) ==
    /\ pc[d] = "park"
    /\ poll_ready(d, waker[d])
    /\ Return(d, "pending", FALSE)
    /\ notified' = [notified EXCEPT ![d] = @ \/ Ready(d)]
    /\ UNCHANGED <<edges, events, pending, kernelVars, writeVars, waker>>

-----------------------------------------------------------------------------
(* Pipe::poll_read and Pipe::poll_write.                                   *)

\* read: a pipe hands over everything that is there, so a short read shows it
\* empty; a full one and the end of file keep the readiness.
ReadPipe ==
    /\ kind = "pipe" /\ pc["read"] = "syscall"
    /\ LET n == Least(len["read"], inq)
       IN  /\ inq' = inq - n
           /\ CASE n = 0 /\ peer = "open" -> Goto("read", "take")
                [] n = 0 /\ peer # "open" -> Goto("read", "last")
                [] n > 0 /\ n = len["read"] -> Goto("read", "mark")
                [] n > 0 /\ n < len["read"] -> Return("read", "ready", FALSE)
    /\ UNCHANGED <<slotVars, fixed, room, peer, arrived, interrupts, writeVars, waker, notified>>

\* write: only EAGAIN consumes the readiness.
WritePipe ==
    /\ kind = "pipe" /\ pc["write"] = "syscall"
    /\ LET n == IF peer = "reset" THEN 0 ELSE Least(len["write"], room)
       IN  /\ room' = room - n
           /\ written' = written + n
           /\ Goto("write", IF peer = "reset" THEN "last" ELSE IF n = 0 THEN "take" ELSE "mark")
    /\ UNCHANGED <<slotVars, fixed, inq, peer, arrived, interrupts, misjudged, waker, notified>>

\* The end of file, or an error: the readiness is kept all the same.
MarkLast(d) ==
    /\ pc[d] = "last"
    /\ mark_ready(d)
    /\ Return(d, "ready", TRUE)
    /\ UNCHANGED <<edges, events, pending, kernelVars, writeVars, waker, notified>>

\* A signal interrupts the call, which taught nothing: mark, and go round.
Interrupt(d) ==
    /\ kind = "pipe" /\ pc[d] = "syscall" /\ interrupts < MaxInterrupts
    /\ interrupts' = interrupts + 1
    /\ Goto(d, "retry")
    /\ UNCHANGED <<slotVars, fixed, inq, room, peer, arrived, writeVars, waker, notified>>

MarkRetry(d) ==
    /\ pc[d] = "retry"
    /\ mark_ready(d)
    /\ Goto(d, "take")
    /\ UNCHANGED <<edges, events, pending, kernelVars, writeVars, waker, notified>>

-----------------------------------------------------------------------------
(* UdpSocket::poll_recv_into, poll_send_datagram and their futures.        *)

\* One datagram never proves the queue empty, an error even less.
RecvDatagram ==
    /\ kind = "udp" /\ pc["read"] = "syscall"
    /\ IF peer = "reset" THEN peer' = "open" /\ Goto("read", "mark") /\ UNCHANGED inq
       ELSE /\ inq' = IF inq > 0 THEN inq - 1 ELSE 0
            /\ Goto("read", IF inq > 0 THEN "mark" ELSE "park")
            /\ UNCHANGED peer
    /\ UNCHANGED <<slotVars, fixed, room, arrived, interrupts, writeVars, waker, notified>>

SendDatagram ==
    /\ kind = "udp" /\ pc["write"] = "syscall"
    /\ IF peer = "reset" THEN peer' = "open" /\ Goto("write", "mark") /\ UNCHANGED <<room, written>>
       ELSE LET n == Least(1, room)
            IN  /\ room' = room - n
                /\ written' = written + n
                /\ Goto("write", IF n = 1 THEN "mark" ELSE "park")
                /\ UNCHANGED peer
    /\ UNCHANGED <<slotVars, fixed, inq, arrived, interrupts, misjudged, waker, notified>>

\* cancel_recv, cancel_send: a waker left from an earlier poll is released.
CancelWait(d) ==
    /\ pc[d] = "cancel"
    /\ cancel_wait(d)
    /\ Return(d, "ready", FALSE)
    /\ UNCHANGED <<edges, events, pending, kernelVars, writeVars, waker, notified>>

\* A pending receive or send future is dropped, or a receive is tried with a
\* full buffer (ENOBUFS); the next future is another.
DropFuture(d) ==
    /\ kind = "udp" /\ pc[d] = "idle" /\ answer[d] = "pending"
    /\ cancel_wait(d)
    /\ answer' = [answer EXCEPT ![d] = "ready"]
    /\ UNCHANGED <<edges, events, pending, kernelVars, writeVars, pc, len, waker, notified>>

-----------------------------------------------------------------------------
Reactor == Wait \/ Dispatch \/ \E w \in Wakers : Wake(w)

Step(d) ==
    \/ Take(d) \/ Mark(d) \/ Park(d)
    \/ MarkLast(d) \/ MarkRetry(d) \/ CancelWait(d)
    \/ d = "read" /\ (Recv \/ Fionread \/ ReadPipe \/ RecvDatagram)
    \/ d = "write" /\ (Send \/ WritePipe \/ SendDatagram)

Next ==
    \/ PeerSends \/ PeerReads \/ PeerCloses \/ PeerResets
    \/ Reactor
    \/ \E d \in Directions :
          \/ \E w \in Wakers, n \in 1..MaxLen : Poll(d, w, n)
          \/ Step(d) \/ Interrupt(d) \/ DropFuture(d)

\* The two directions share nothing but the event that reports both.
EachDirection == {{"read"}, {"write"}}

Spec == Init /\ [][Next]_vars

\* Its last poll said Pending and nobody woke it since.
Asleep(d) == pc[d] = "idle" /\ answer[d] = "pending" /\ ~notified[d]

\* The reactor thread runs; a poll under way returns; a task that is not
\* asleep polls again; the peer reads what it was sent.
Fairness ==
    /\ WF_vars(Reactor)
    /\ WF_vars(PeerReads)
    /\ \A d \in Directions :
          /\ WF_vars(Step(d))
          /\ WF_vars(~Asleep(d) /\ \E w \in Wakers, n \in 1..MaxLen : Poll(d, w, n))

FairSpec == Spec /\ Fairness

-----------------------------------------------------------------------------
(* Properties                                                              *)

Worth(d) == IF d = "read" THEN inq > 0 \/ peer # "open" ELSE room > 0 \/ peer = "reset"
Edge(d) == IF d = "read" THEN {"in", "hup"} ELSE {"out"}

\* A sleeping task can be woken: the waker of its last poll, not an older one,
\* is in the slot or about to be invoked.
SleeperParked ==
    \A d \in Directions :
        Asleep(d) => waker[d] \in pending \/ slot.parked[d] = waker[d]

\* The next write waits for an edge that nothing will cause: the readiness was
\* taken by a write that left room (and only an error still comes as an edge).
Stranded(d) == d = "write" /\ misjudged /\ peer # "reset"

\* No edge is missed: a task never sleeps beside a socket it could read or
\* write, unless the edge that will wake it is still with the kernel or the
\* reactor, and its waker is where that edge finds it.  The one exception is
\* what poll_write_vectored risks for a sendmsg saved: a write taken whole, as
\* large as the send_capacity read when the stream was made, which left room
\* all the same.  It takes a buffer larger than that reading; a reading of 0,
\* an exact one and one that is too large strand no writer.
NoMissedEdge ==
    /\ TypeOK /\ SleeperParked
    /\ \A d \in Directions :
          Asleep(d) /\ Worth(d) /\ ~Stranded(d)
              => waker[d] \in pending \/ (edges \cup events) \cap Edge(d) # {}
    /\ misjudged => kind = "tcp" /\ send_capacity \in 1..(Capacity - 1)

\* Everything the peer sends is read, and then its hang-up or error is seen,
\* even when both came on one edge.
StreamDrained ==
    /\ (inq > 0) ~> (inq = 0 \/ pc["read"] = "done")
    /\ (peer # "open") ~> (pc["read"] = "done" \/ peer = "open")

\* A writer stopped by a full buffer goes on once the peer reads.  One that is
\* stopped by a write misjudged to have filled it does not, and is left out.
WriterResumes == Asleep("write") /\ ~misjudged ~> ~Asleep("write")

\* Transfers go on, both ways: whatever the interleaving of polls, edges and
\* system calls, what was sent is read to its end and a writer is resumed.
TransfersProceed == StreamDrained /\ WriterResumes

\* An idle socket costs nothing ("There is no retry interval and no spin"):
\* when the peer falls silent the tasks are not woken again and again.  The
\* comment of take_readable_or_park says it of a hung-up descriptor too,
\* because "recv answers 0 rather than EWOULDBLOCK".
Quiescent == \A d \in Directions : <>[][notified'[d] => notified[d]]_vars
=============================================================================
