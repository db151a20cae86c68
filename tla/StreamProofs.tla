---------------------------- MODULE StreamProofs ----------------------------
(***************************************************************************)
(* For any wakers, buffers, amounts of data and kind of descriptor: no     *)
(* task sleeps beside a socket it could read or write, unless the edge     *)
(* that will wake it is on its way and finds its waker, or a write left    *)
(* room in a send buffer larger than SO_SNDBUF had said it was.            *)
(***************************************************************************)
EXTENDS Stream, TLAPS

\* A poll under way has a buffer and a waker; the last one's waker is kept.
PollsAreWhole ==
    \A d \in Directions :
        /\ pc[d] \notin {"idle", "done"} => len[d] >= 1
        /\ pc[d] \notin {"idle", "done"} \/ answer[d] = "pending" => waker[d] \in Wakers
        /\ pc[d] = "fionread" => kind # "udp"

\* dispatch finds no waker left over from the event before.
OneEventAtATime == events # {} => pending = {}

\* A hang-up is readable too; one that lasts is with the kernel, the reactor
\* or the slot for good.
HangupIsKept ==
    /\ "hup" \in edges => "in" \in edges
    /\ kind = "udp" => peer # "closed"
    /\ peer # "open" /\ kind # "udp" => slot.hangup \/ "hup" \in edges \cup events

\* What there is to do is known to the slot, or an edge will say so.
Covered(d) == Worth(d) /\ ~Stranded(d) => Ready(d) \/ (edges \cup events) \cap Edge(d) # {}

\* A write is misjudged only by a stream whose send buffer is larger than what
\* it read of it.
MisjudgedOnly == misjudged => kind = "tcp" /\ send_capacity \in 1..(Capacity - 1)

\* It may be unknown only between a poll's taking the readiness and its
\* learning what became of the descriptor.
NothingForgotten ==
    \A d \in Directions : pc[d] \in {"idle", "take", "park", "cancel"} => Covered(d)

\* The readiness and the waker of a sleeping task change places together.
SleeperIsUnready ==
    \A d \in Directions :
        Asleep(d) => waker[d] \in pending \/ (slot.parked[d] = waker[d] /\ ~Ready(d))

\* The inductive invariant of a descriptor, its slot and the two polls on it.
StreamInv ==
    /\ TypeOK /\ PollsAreWhole /\ OneEventAtATime /\ HangupIsKept
    /\ NothingForgotten /\ SleeperIsUnready /\ MisjudgedOnly

USE StreamAssumption
USE DEF Directions, Conditions, fixed, writeVars

-----------------------------------------------------------------------------
\* Registered at once: the slot starts ready in both directions, so that what
\* came before is not missed.
LEMMA StreamStart == Init => StreamInv
<1> SUFFICES ASSUME Init PROVE StreamInv
  OBVIOUS
<1>1. /\ kind \in Kinds /\ interrupts = 0 /\ inq \in 0..MaxArrive /\ arrived = inq
      /\ send_capacity \in Nat /\ misjudged = FALSE /\ room = Capacity /\ written = 0 /\ peer \in {"open", "closed", "reset"}
      /\ len = [d \in Directions |-> 0] /\ waker = [d \in Directions |-> NoWaker]
      /\ answer = [d \in Directions |-> "ready"] /\ notified = [d \in Directions |-> FALSE]
      /\ events = {} /\ pending = {} /\ edges = Holds
      /\ slot = [ready |-> [d \in Directions |-> TRUE], hangup |-> FALSE,
                 parked |-> [d \in Directions |-> NoWaker]]
  BY DEF Init, SlotInit, register
<1>2. /\ slot.ready = [d \in Directions |-> TRUE] /\ slot.hangup = FALSE
      /\ slot.parked = [d \in Directions |-> NoWaker]
      /\ edges \in SUBSET Conditions
  BY <1>1 DEF Holds
<1>3. \A d \in Directions : pc[d] \in {"idle", "done"}
  BY DEF Init
<1>4. TypeOK
  <2>1. SlotTypeOK
    BY <1>1, <1>2 DEF SlotTypeOK
  <2>2. pc \in [Directions -> {"idle", "done"}]
    BY DEF Init
  <2>3. misjudged \in BOOLEAN /\ notified \in [Directions -> BOOLEAN]
    BY <1>1
  <2> QED
    BY <1>1, <2>1, <2>2, <2>3 DEF TypeOK
<1>5. PollsAreWhole /\ OneEventAtATime /\ SleeperIsUnready /\ MisjudgedOnly
  BY <1>1, <1>3 DEF PollsAreWhole, OneEventAtATime, SleeperIsUnready, Asleep, MisjudgedOnly
<1>6. NothingForgotten
  BY <1>2 DEF NothingForgotten, Covered, Ready
<1>7. HangupIsKept
  <2>1. kind = "udp" => peer = "open"
    BY <1>1 DEF Init, MayEnd
  <2> QED
    BY <1>1, <2>1 DEF HangupIsKept, Holds
<1> QED
  BY <1>4, <1>5, <1>6, <1>7 DEF StreamInv

-----------------------------------------------------------------------------
\* The kernel and the peer: what becomes worth doing leaves its edge.
LEMMA PeerInv ==
    ASSUME StreamInv, PeerSends \/ PeerReads \/ PeerCloses \/ PeerResets
    PROVE  StreamInv'
<1> USE DEF StreamInv
<1>1. /\ UNCHANGED <<slot, events, pending, fixed, interrupts, writeVars, callVars>>
      /\ edges \subseteq edges'
  BY DEF PeerSends, PeerReads, PeerCloses, PeerResets
<1>2. UNCHANGED <<pc, len, waker, answer, notified>>
  BY <1>1 DEF callVars
<1>3. TypeOK'
  <2>1. SlotTypeOK'
    BY <1>1 DEF TypeOK, SlotTypeOK, PeerSends, PeerReads, PeerCloses, PeerResets
  <2>2. /\ inq' \in Nat /\ room' \in 0..Capacity /\ peer' \in {"open", "closed", "reset"}
        /\ arrived' \in Nat
    BY DEF TypeOK, PeerSends, PeerReads, PeerCloses, PeerResets
  <2> QED
    BY <1>1, <1>2, <2>1, <2>2 DEF TypeOK
<1>4. PollsAreWhole' /\ OneEventAtATime' /\ MisjudgedOnly'
  BY <1>1, <1>2 DEF PollsAreWhole, OneEventAtATime, MisjudgedOnly
<1>5. HangupIsKept'
  <2>1. CASE PeerSends \/ PeerReads
    BY <1>1, <2>1 DEF HangupIsKept, PeerSends, PeerReads
  <2>2. CASE PeerCloses \/ PeerResets
    BY <1>1, <2>2 DEF HangupIsKept, PeerCloses, PeerResets, MayEnd
  <2> QED
    BY <2>1, <2>2
<1>6. NothingForgotten'
  <2> SUFFICES ASSUME NEW d \in Directions, pc[d] \in {"idle", "take", "park", "cancel"},
                      Worth(d)', ~Stranded(d)', ~Ready(d)
               PROVE  (edges' \cup events) \cap Edge(d) # {}
    BY <1>1, <1>2 DEF NothingForgotten, Covered, Ready, Edge
  <2>1. CASE Worth(d) /\ ~Stranded(d)
    BY <1>1, <2>1 DEF NothingForgotten, Covered
  <2>3. CASE Stranded(d)
    <3>1. d = "write" /\ "out" \in edges'
      BY <1>1, <2>3 DEF Stranded, PeerSends, PeerReads, PeerCloses, PeerResets
    <3> QED
      BY <3>1 DEF Edge
  <2>2. CASE ~Worth(d)
    <3>1. CASE d = "read"
      <4>1. "in" \in edges'
        BY <2>2, <3>1 DEF Worth, PeerSends, PeerReads, PeerCloses, PeerResets
      <4> QED
        BY <3>1, <4>1 DEF Edge
    <3>2. CASE d = "write"
      <4>1. "out" \in edges'
        BY <2>2, <3>2 DEF Worth, PeerSends, PeerReads, PeerCloses, PeerResets, TypeOK
      <4> QED
        BY <3>2, <4>1 DEF Edge
    <3> QED
      BY <3>1, <3>2
  <2> QED
    BY <2>1, <2>2, <2>3
<1>7. SleeperIsUnready'
  BY <1>1, <1>2 DEF SleeperIsUnready, Asleep, Ready
<1> QED
  BY <1>3, <1>4, <1>5, <1>6, <1>7

\* Poller::wait: what still holds of the edges is in the event.
LEMMA WaitInv ==
    ASSUME StreamInv, Wait
    PROVE  StreamInv'
<1> USE DEF StreamInv
<1>1. /\ events = {} /\ pending = {} /\ edges' = {} /\ events' \in SUBSET Conditions
      /\ edges \cap Holds \subseteq events' /\ UNCHANGED <<slot, pending>>
  BY DEF Wait, wait
<1>2. UNCHANGED <<kind, send_capacity, inq, room, peer, arrived, interrupts, written,
                  misjudged, pc, len, waker, answer, notified>>
  BY DEF Wait, kernelVars, callVars
<1>3. TypeOK'
  BY <1>1, <1>2 DEF TypeOK, SlotTypeOK
<1>4. PollsAreWhole' /\ OneEventAtATime' /\ MisjudgedOnly'
  BY <1>1, <1>2 DEF PollsAreWhole, OneEventAtATime, MisjudgedOnly
<1>5. HangupIsKept'
  BY <1>1, <1>2 DEF HangupIsKept, Holds
<1>6. NothingForgotten'
  BY <1>1, <1>2 DEF NothingForgotten, Covered, Worth, Stranded, Ready, Edge, Holds,
     HangupIsKept
<1>7. SleeperIsUnready'
  BY <1>1, <1>2 DEF SleeperIsUnready, Asleep, Ready
<1> QED
  BY <1>3, <1>4, <1>5, <1>6, <1>7

\* dispatch: the readiness is set and the waker taken in one step.
LEMMA DispatchInv ==
    ASSUME StreamInv, Dispatch
    PROVE  StreamInv'
<1> USE DEF StreamInv
<1>1. /\ slot' = [ready  |-> [d \in Directions |-> slot.ready[d] \/ Reports(d)],
                  hangup |-> slot.hangup \/ "hup" \in events,
                  parked |-> [d \in Directions |->
                                 IF Reports(d) THEN NoWaker ELSE slot.parked[d]]]
      /\ pending' = {slot.parked[d] : d \in {e \in Directions : Reports(e)}} \ {NoWaker}
      /\ events # {} /\ events' = {} /\ edges' = edges
  BY DEF Dispatch, dispatch
<1>2. /\ slot'.ready = [d \in Directions |-> slot.ready[d] \/ Reports(d)]
      /\ slot'.hangup = (slot.hangup \/ "hup" \in events)
      /\ slot'.parked = [d \in Directions |->
                             IF Reports(d) THEN NoWaker ELSE slot.parked[d]]
  BY <1>1
<1>3. UNCHANGED <<kind, send_capacity, inq, room, peer, arrived, interrupts, written,
                  misjudged, pc, len, waker, answer, notified>>
  BY DEF Dispatch, kernelVars, callVars
<1>4. pending = {}
  BY <1>1 DEF OneEventAtATime
<1>5. \A d \in Directions : Ready(d)' <=> Ready(d) \/ Reports(d)
  BY <1>2 DEF Ready, Reports
<1>6. TypeOK'
  <2>1. SlotTypeOK'
    <3>1. slot'.ready \in [Directions -> BOOLEAN] /\ slot'.hangup \in BOOLEAN
      BY <1>2 DEF TypeOK, SlotTypeOK, Reports
    <3>2. slot'.parked \in [Directions -> Wakers \cup {NoWaker}]
      BY <1>2 DEF TypeOK, SlotTypeOK
    <3>3. pending' \in SUBSET Wakers
      BY <1>1 DEF TypeOK, SlotTypeOK
    <3> QED
      BY <1>1, <3>1, <3>2, <3>3 DEF TypeOK, SlotTypeOK
  <2> QED
    BY <1>3, <2>1 DEF TypeOK
<1>7. PollsAreWhole' /\ OneEventAtATime' /\ MisjudgedOnly'
  BY <1>1, <1>3 DEF PollsAreWhole, OneEventAtATime, MisjudgedOnly
<1>8. HangupIsKept'
  BY <1>1, <1>2, <1>3 DEF HangupIsKept
<1>9. NothingForgotten'
  BY <1>1, <1>3, <1>5 DEF NothingForgotten, Covered, Worth, Stranded, Edge, Reports
<1>10. SleeperIsUnready'
  <2> SUFFICES ASSUME NEW d \in Directions, Asleep(d)
               PROVE  waker[d] \in pending' \/ (slot'.parked[d] = waker[d] /\ ~Ready(d)')
    BY <1>3 DEF SleeperIsUnready, Asleep
  <2>1. slot.parked[d] = waker[d] /\ ~Ready(d) /\ waker[d] \in Wakers
    BY <1>4 DEF SleeperIsUnready, PollsAreWhole, Asleep
  <2> QED
    BY <1>1, <1>2, <1>5, <2>1
<1> QED
  BY <1>6, <1>7, <1>8, <1>9, <1>10

\* A waker is invoked: its task is not asleep any more.
LEMMA WakeInv ==
    ASSUME StreamInv, NEW w \in Wakers, Wake(w)
    PROVE  StreamInv'
<1> USE DEF StreamInv
<1>1. /\ pending' = pending \ {w}
      /\ notified' = [d \in Directions |-> notified[d] \/ waker[d] = w]
      /\ UNCHANGED <<slot, edges, events, kind, send_capacity, inq, room, peer, arrived,
                     interrupts, written, misjudged, pc, len, waker, answer>>
  BY DEF Wake, kernelVars
<1>2. TypeOK'
  <2>1. notified' \in [Directions -> BOOLEAN]
    BY <1>1 DEF TypeOK
  <2> QED
    BY <1>1, <2>1 DEF TypeOK, SlotTypeOK
<1>3. PollsAreWhole' /\ OneEventAtATime' /\ HangupIsKept' /\ MisjudgedOnly'
  BY <1>1 DEF PollsAreWhole, OneEventAtATime, HangupIsKept, MisjudgedOnly
<1>4. NothingForgotten'
  BY <1>1 DEF NothingForgotten, Covered, Worth, Stranded, Edge, Ready
<1>5. SleeperIsUnready'
  BY <1>1 DEF SleeperIsUnready, Asleep, Ready
<1> QED
  BY <1>2, <1>3, <1>4, <1>5

-----------------------------------------------------------------------------
(* The steps of a poll touch one direction: d acts, e is the other one.    *)

\* The parts of the invariant, of one direction.
PollIsWhole(d) ==
    /\ pc[d] \notin {"idle", "done"} => len[d] >= 1
    /\ pc[d] \notin {"idle", "done"} \/ answer[d] = "pending" => waker[d] \in Wakers
    /\ pc[d] = "fionread" => kind # "udp"

\* NothingForgotten, of one direction.
KnownAt(d) == pc[d] \in {"idle", "take", "park", "cancel"} => Covered(d)

\* SleeperIsUnready, of one direction.
UnreadyAt(d) ==
    Asleep(d) => waker[d] \in pending \/ (slot.parked[d] = waker[d] /\ ~Ready(d))

\* Nothing happens to the other direction but that there is less to do.
Beside(e) ==
    /\ UNCHANGED <<edges, events, pending, fixed>>
    /\ misjudged' = misjudged \/ (e = "read" /\ MisjudgedOnly')
    /\ inq' <= inq /\ room' <= room /\ peer' \in {peer, "open"}
    /\ slot'.hangup = slot.hangup
    /\ slot'.ready[e] = slot.ready[e] /\ slot'.parked[e] = slot.parked[e]
    /\ pc'[e] = pc[e] /\ len'[e] = len[e] /\ waker'[e] = waker[e]
    /\ answer'[e] = answer[e] /\ notified'[e] = notified[e]

\* A step of one direction keeps the invariant when it keeps its own part and
\* leaves the other direction beside it.
LEMMA OneDirection ==
    ASSUME StreamInv, TypeOK', NEW d \in Directions, NEW e \in Directions \ {d}, Beside(e),
           PollIsWhole(d)', KnownAt(d)', UnreadyAt(d)'
    PROVE  StreamInv'
<1> USE DEF StreamInv
<1>1. Directions = {d, e}
  OBVIOUS
<1>2. Ready(e)' <=> Ready(e)
  BY DEF Ready, Beside
<1>3. Worth(e)' /\ ~Stranded(e)' => Worth(e) /\ ~Stranded(e)
  BY DEF Worth, Stranded, Beside, TypeOK
<1>4. PollsAreWhole'
  <2>1. PollIsWhole(e)'
    BY DEF PollsAreWhole, PollIsWhole, Beside
  <2> QED
    BY <1>1, <2>1 DEF PollsAreWhole, PollIsWhole
<1>5. NothingForgotten'
  <2>1. KnownAt(e)'
    BY <1>2, <1>3 DEF NothingForgotten, KnownAt, Covered, Beside, Edge
  <2> QED
    BY <1>1, <2>1 DEF NothingForgotten, KnownAt
<1>6. SleeperIsUnready'
  <2>1. UnreadyAt(e)'
    <3>1. Asleep(e)' => Asleep(e)
      BY DEF Asleep, Beside
    <3>2. UnreadyAt(e)
      BY DEF SleeperIsUnready, UnreadyAt
    <3>3. UNCHANGED pending /\ waker'[e] = waker[e] /\ slot'.parked[e] = slot.parked[e]
      BY DEF Beside
    <3> QED
      BY <1>2, <3>1, <3>2, <3>3 DEF UnreadyAt
  <2> QED
    BY <1>1, <2>1 DEF SleeperIsUnready, UnreadyAt
<1>7. OneEventAtATime' /\ HangupIsKept' /\ MisjudgedOnly'
  BY DEF OneEventAtATime, HangupIsKept, MisjudgedOnly, Beside
<1> QED
  BY <1>4, <1>5, <1>6, <1>7

\* A system call: the slot is not touched, the poll goes on or returns.
SystemCall(d, to) ==
    /\ UNCHANGED <<slotVars, fixed, arrived, waker, notified>>
    /\ misjudged' = misjudged \/ (d = "write" /\ misjudged' \in BOOLEAN /\ MisjudgedOnly')
    /\ inq' \in Nat /\ room' \in Nat /\ written' \in Nat /\ interrupts' \in 0..MaxInterrupts
    /\ inq' <= inq /\ room' <= room /\ peer' \in {peer, "open"}
    /\ pc[d] \in {"syscall", "fionread"}
    /\ pc' = [pc EXCEPT ![d] = to]
    /\ \/ to \in {"take", "fionread", "mark", "park", "retry", "last"} /\ UNCHANGED <<len, answer>>
       \/ /\ to \in {"idle", "done"}
          /\ len' = [len EXCEPT ![d] = 0] /\ answer' = [answer EXCEPT ![d] = "ready"]
    /\ to = "fionread" => kind # "udp"

\* A system call changes the kernel's side and the place of the poll.
LEMMA SystemCallInv ==
    ASSUME StreamInv, NEW d \in Directions, NEW to, SystemCall(d, to),
           to \in {"idle", "take", "park"} => Covered(d)'
    PROVE  StreamInv'
<1> USE DEF StreamInv, SystemCall
<1>1. PICK e \in Directions : e # d
  OBVIOUS
<1>2. TypeOK'
  <2>1. SlotTypeOK' /\ room' \in 0..Capacity /\ peer' \in {"open", "closed", "reset"}
    BY DEF TypeOK, SlotTypeOK, slotVars
  <2>2. pc' \in [Directions -> {"idle", "take", "syscall", "fionread", "mark", "park", "done",
                                "retry", "cancel", "last"}]
    BY DEF TypeOK
  <2>3. len' \in [Directions -> Nat] /\ answer' \in [Directions -> {"ready", "pending"}]
    BY DEF TypeOK
  <2> QED
    BY <2>1, <2>2, <2>3 DEF TypeOK
<1>3. pc'[d] = to /\ pc'[e] = pc[e]
  BY <1>1 DEF TypeOK
<1>4. Beside(e)
  BY <1>1, <1>3 DEF TypeOK, Beside, slotVars
<1>5. PollIsWhole(d)'
  BY <1>3 DEF PollsAreWhole, PollIsWhole, TypeOK
<1>6. KnownAt(d)'
  BY <1>3 DEF KnownAt
<1>7. UnreadyAt(d)'
  BY <1>3 DEF UnreadyAt, Asleep, TypeOK
<1> QED
  BY <1>1, <1>2, <1>4, <1>5, <1>6, <1>7, OneDirection

\* A hang-up that lasts keeps a reader that goes back to sleep covered.
LEMMA EndIsKnown ==
    ASSUME StreamInv, kind # "udp", UNCHANGED <<slotVars, peer>>, inq' = 0
    PROVE  Covered("read")'
BY DEF StreamInv, HangupIsKept, Covered, Ready, Worth, Stranded, Edge, slotVars

\* TcpSocket::recv and FIONREAD, Pipe::poll_read, recvfrom.
LEMMA ReadInv ==
    ASSUME StreamInv, Recv \/ Fionread \/ ReadPipe \/ RecvDatagram
    PROVE  StreamInv'
<1> USE DEF StreamInv
<1>1. /\ len["read"] \in Nat /\ inq \in Nat /\ room \in Nat /\ written \in Nat
      /\ interrupts \in 0..MaxInterrupts
      /\ pc["read"] \in {"syscall", "fionread"} => len["read"] >= 1
      /\ pc["read"] = "fionread" => kind # "udp"
  BY DEF TypeOK, PollsAreWhole
<1>2. CASE Recv
  <2>1. PICK to \in {"done", "fionread", "idle", "park"} :
           /\ SystemCall("read", to) /\ UNCHANGED peer
           /\ to \in {"idle", "park"} => inq' = 0
    BY <1>1, <1>2 DEF Recv, SystemCall, Return, Goto, Least
  <2>2. to \in {"idle", "take", "park"} => Covered("read")'
    BY <1>2, <2>1, EndIsKnown DEF Recv
  <2> QED
    BY <2>1, <2>2, SystemCallInv
<1>3. CASE Fionread
  <2>1. PICK to \in {"mark", "idle"} :
           /\ SystemCall("read", to) /\ UNCHANGED peer
           /\ to \in {"idle"} => inq' = 0
    BY <1>1, <1>3 DEF Fionread, SystemCall, Return, Goto, kernelVars
  <2>2. to \in {"idle", "take", "park"} => Covered("read")'
    BY <1>1, <1>3, <2>1, EndIsKnown DEF Fionread
  <2> QED
    BY <2>1, <2>2, SystemCallInv
<1>4. CASE ReadPipe
  <2>1. PICK to \in {"take", "last", "mark", "idle"} :
           /\ SystemCall("read", to) /\ UNCHANGED peer
           /\ to \in {"idle", "take"} => inq' = 0
    <3> DEFINE n == Least(len["read"], inq)
    <3>1. /\ n \in Nat /\ n <= inq /\ n <= len["read"]
          /\ (n = 0 => inq = 0) /\ (n < len["read"] => n = inq)
      BY <1>1, <1>4 DEF ReadPipe, Least
    <3>2. /\ pc["read"] = "syscall" /\ inq' = inq - n
          /\ CASE n = 0 /\ peer = "open" -> Goto("read", "take")
               [] n = 0 /\ peer # "open" -> Goto("read", "last")
               [] n > 0 /\ n = len["read"] -> Goto("read", "mark")
               [] n > 0 /\ n < len["read"] -> Return("read", "ready", FALSE)
          /\ UNCHANGED <<slotVars, fixed, room, peer, arrived, interrupts, writeVars, waker, notified>>
      BY <1>4 DEF ReadPipe
    <3> HIDE DEF n
    <3>3. \/ n = 0 /\ (Goto("read", "take") \/ Goto("read", "last"))
          \/ Goto("read", "mark")
          \/ n = inq /\ Return("read", "ready", FALSE)
      <4>1. CASE n = 0 /\ peer = "open"
        BY <1>1, <3>1, <3>2, <4>1
      <4>2. CASE n = 0 /\ peer # "open"
        BY <1>1, <3>1, <3>2, <4>2
      <4>3. CASE n > 0 /\ n = len["read"]
        BY <1>1, <3>1, <3>2, <4>3
      <4>4. CASE n > 0 /\ n < len["read"]
        BY <1>1, <3>1, <3>2, <4>4
      <4>5. n = 0 \/ (n > 0 /\ n = len["read"]) \/ (n > 0 /\ n < len["read"])
        BY <1>1, <3>1
      <4> QED
        BY <4>1, <4>2, <4>3, <4>4, <4>5
    <3> QED
      BY <1>1, <3>1, <3>2, <3>3 DEF SystemCall, Return, Goto
  <2>2. to \in {"idle", "take", "park"} => Covered("read")'
    BY <1>4, <2>1, EndIsKnown DEF ReadPipe
  <2> QED
    BY <2>1, <2>2, SystemCallInv
<1>5. CASE RecvDatagram
  <2>1. PICK to \in {"mark", "park"} :
           /\ SystemCall("read", to)
           /\ to = "park" => inq' = 0 /\ peer' = "open"
    <3>1. CASE peer = "reset"
      BY <1>1, <1>5, <3>1 DEF RecvDatagram, SystemCall, Goto
    <3>2. CASE peer # "reset"
      <4>1. peer = "open"
        BY <1>5, <3>2 DEF RecvDatagram, HangupIsKept, TypeOK
      <4> QED
        BY <1>1, <1>5, <4>1 DEF RecvDatagram, SystemCall, Goto
    <3> QED
      BY <3>1, <3>2
  <2>2. to \in {"idle", "take", "park"} => Covered("read")'
    BY <2>1 DEF Covered, Worth
  <2> QED
    BY <2>1, <2>2, SystemCallInv
<1> QED
  BY <1>2, <1>3, <1>4, <1>5

\* send_vectored, Pipe::poll_write, sendto; and a signal that interrupts.
LEMMA WriteInv ==
    ASSUME StreamInv, Send \/ WritePipe \/ SendDatagram
    PROVE  StreamInv'
<1> USE DEF StreamInv
<1>1. /\ len["write"] \in Nat /\ inq \in Nat /\ room \in 0..Capacity /\ written \in Nat
      /\ interrupts \in 0..MaxInterrupts
      /\ pc["write"] = "syscall" => len["write"] >= 1
  BY DEF TypeOK, PollsAreWhole
<1>2. CASE Send
  <2> DEFINE n == Least(len["write"], room)
             whole == n = len["write"]
             small == send_capacity = 0 \/ len["write"] < send_capacity
  <2>1. /\ n \in Nat /\ n <= room /\ n <= len["write"]
        /\ (pc["write"] = "syscall" /\ n = 0 => room = 0) /\ (~whole => n = room)
    BY <1>1 DEF Least
  <2>2. /\ kind = "tcp" /\ pc["write"] = "syscall"
        /\ IF peer = "reset" THEN Return("write", "ready", TRUE) /\ UNCHANGED <<room, writeVars>>
           ELSE /\ room' = room - n /\ written' = written + n
                /\ misjudged' = (whole /\ ~small /\ n < room)
                /\ IF n = 0 THEN Goto("write", "park")
                   ELSE IF whole /\ small THEN Goto("write", "mark")
                   ELSE Return("write", "ready", FALSE)
        /\ UNCHANGED <<slotVars, fixed, inq, peer, arrived, interrupts, waker, notified>>
    BY <1>2 DEF Send
  <2>3. send_capacity \in Nat /\ Capacity \in Nat
    BY DEF TypeOK
  <2>4. peer # "reset" => MisjudgedOnly' /\ misjudged' \in BOOLEAN
    <3> SUFFICES ASSUME peer # "reset" PROVE MisjudgedOnly' /\ misjudged' \in BOOLEAN
      OBVIOUS
    <3>1. misjudged' \in BOOLEAN /\ (misjudged' => whole /\ ~small /\ n < room)
      BY <2>2, Zenon
    <3>2. whole /\ ~small /\ n < room => send_capacity \in 1..(Capacity - 1)
      BY <1>1, <2>1, <2>3
    <3>3. kind' = "tcp" /\ send_capacity' = send_capacity
      BY <2>2
    <3> QED
      BY <3>1, <3>2, <3>3 DEF MisjudgedOnly
  <2> HIDE DEF n
  <2>5. PICK to \in {"done", "park", "mark", "idle"} :
           /\ SystemCall("write", to)
           /\ to \in {"park", "idle"} => peer' # "reset" /\ (room' = 0 \/ misjudged')
    <3>1. CASE peer = "reset"
      BY <1>1, <2>2, <3>1 DEF SystemCall, Return
    <3>2. CASE peer # "reset"
      <4>1. misjudged' \in BOOLEAN /\ ((whole /\ ~small /\ n < room) => misjudged')
        BY <2>2, <2>4, <3>2, Zenon
      <4>2. CASE n = 0
        BY <1>1, <2>1, <2>2, <2>4, <3>2, <4>2 DEF SystemCall, Goto
      <4>3. CASE n # 0 /\ whole /\ small
        <5>1. /\ Goto("write", "mark") /\ room' = room - n /\ written' = written + n
              /\ pc["write"] = "syscall"
              /\ UNCHANGED <<slotVars, fixed, inq, peer, arrived, interrupts, waker, notified>>
          BY <2>2, <3>2, <4>3, Zenon
        <5>2. SystemCall("write", "mark")
          BY <1>1, <2>1, <2>4, <3>2, <5>1 DEF SystemCall, Goto
        <5> QED
          BY <5>2
      <4>4. CASE n # 0 /\ ~(whole /\ small)
        <5>1. room' = 0 \/ misjudged'
          BY <1>1, <2>1, <2>2, <3>2, <4>1, <4>4
        <5>2. SystemCall("write", "idle") /\ peer' # "reset"
          BY <1>1, <2>1, <2>2, <2>4, <3>2, <4>4 DEF SystemCall, Return
        <5> QED
          BY <5>1, <5>2
      <4> QED
        BY <4>2, <4>3, <4>4
    <3> QED
      BY <3>1, <3>2
  <2>6. to \in {"idle", "take", "park"} => Covered("write")'
    BY <2>5 DEF Covered, Worth, Stranded
  <2> QED
    BY <2>5, <2>6, SystemCallInv
<1>3. CASE WritePipe
  <2>1. PICK to \in {"last", "take", "mark"} :
           /\ SystemCall("write", to)
           /\ to = "take" => room' = 0 /\ peer' # "reset"
    <3> DEFINE n == IF peer = "reset" THEN 0 ELSE Least(len["write"], room)
    <3>1. /\ n \in Nat /\ n <= room
          /\ (pc["write"] = "syscall" /\ n = 0 => peer = "reset" \/ room = 0)
      BY <1>1 DEF Least
    <3>2. /\ pc["write"] = "syscall" /\ room' = room - n /\ written' = written + n
          /\ Goto("write", IF peer = "reset" THEN "last" ELSE IF n = 0 THEN "take" ELSE "mark")
          /\ UNCHANGED <<slotVars, fixed, inq, peer, arrived, interrupts, misjudged, waker, notified>>
      BY <1>3 DEF WritePipe
    <3> HIDE DEF n
    <3>3. CASE peer = "reset"
      BY <1>1, <3>1, <3>2, <3>3 DEF SystemCall, Goto
    <3>4. CASE peer # "reset" /\ n = 0
      BY <1>1, <3>1, <3>2, <3>4 DEF SystemCall, Goto
    <3>5. CASE peer # "reset" /\ n # 0
      BY <1>1, <3>1, <3>2, <3>5 DEF SystemCall, Goto
    <3> QED
      BY <3>3, <3>4, <3>5
  <2>2. to \in {"idle", "take", "park"} => Covered("write")'
    BY <2>1 DEF Covered, Worth
  <2> QED
    BY <2>1, <2>2, SystemCallInv
<1>4. CASE SendDatagram
  <2>1. PICK to \in {"mark", "park"} :
           /\ SystemCall("write", to)
           /\ to = "park" => room' = 0 /\ peer' # "reset"
    BY <1>1, <1>4 DEF SendDatagram, SystemCall, Goto, Least
  <2>2. to \in {"idle", "take", "park"} => Covered("write")'
    BY <2>1 DEF Covered, Worth
  <2> QED
    BY <2>1, <2>2, SystemCallInv
<1> QED
  BY <1>2, <1>3, <1>4

\* A signal interrupts a call of a pipe.
LEMMA InterruptInv ==
    ASSUME StreamInv, NEW d \in Directions, Interrupt(d)
    PROVE  StreamInv'
<1>1. SystemCall(d, "retry")
  BY DEF StreamInv, TypeOK, Interrupt, Goto, SystemCall
<1> QED
  BY <1>1, SystemCallInv

-----------------------------------------------------------------------------
(* The slot's operations.                                                  *)

\* What a slot operation of direction d leaves alone.
SlotStep(d) ==
    /\ UNCHANGED <<edges, events, pending, kernelVars, writeVars>>
    /\ slot' \in [ready : [Directions -> BOOLEAN], hangup : {slot.hangup},
                   parked : [Directions -> Wakers \cup {NoWaker}]]
    /\ \A e \in Directions \ {d} :
          slot'.ready[e] = slot.ready[e] /\ slot'.parked[e] = slot.parked[e]

\* The poll's own variables, of which only d's change.
CallStep(d) ==
    /\ pc' \in [Directions -> {"idle", "take", "syscall", "fionread", "mark", "park", "done",
                               "retry", "cancel", "last"}]
    /\ len' \in [Directions -> Nat] /\ waker' \in [Directions -> Wakers \cup {NoWaker}]
    /\ answer' \in [Directions -> {"ready", "pending"}]
    /\ notified' \in [Directions -> BOOLEAN]
    /\ \A e \in Directions \ {d} :
          /\ pc'[e] = pc[e] /\ len'[e] = len[e] /\ waker'[e] = waker[e]
          /\ answer'[e] = answer[e] /\ notified'[e] = notified[e]

\* An operation on the slot changes the readiness and waker of its direction.
LEMMA SlotStepInv ==
    ASSUME StreamInv, NEW d \in Directions, SlotStep(d), CallStep(d),
           PollIsWhole(d)', KnownAt(d)', UnreadyAt(d)'
    PROVE  StreamInv'
<1>1. PICK e \in Directions : e # d
  OBVIOUS
<1>2. TypeOK'
  BY DEF StreamInv, TypeOK, SlotTypeOK, SlotStep, CallStep, kernelVars
<1>3. Beside(e)
  BY <1>1 DEF StreamInv, TypeOK, Beside, SlotStep, CallStep, kernelVars
<1> QED
  BY <1>1, <1>2, <1>3, OneDirection

\* Readiness, its mark and the waker after each operation.
LEMMA SlotOperations ==
    ASSUME TypeOK, NEW d \in Directions, NEW w \in Wakers \cup {NoWaker}
    PROVE  LET marks(b) == [slot EXCEPT !.ready[d] = b]
               parks == [slot EXCEPT !.parked[d] = w]
           IN  /\ \A b \in BOOLEAN :
                     /\ marks(b).ready = [slot.ready EXCEPT ![d] = b]
                     /\ marks(b).parked = slot.parked /\ marks(b).hangup = slot.hangup
                     /\ marks(b) \in [ready : [Directions -> BOOLEAN], hangup : {slot.hangup},
                                      parked : [Directions -> Wakers \cup {NoWaker}]]
               /\ parks.ready = slot.ready /\ parks.hangup = slot.hangup
               /\ parks.parked = [slot.parked EXCEPT ![d] = w]
               /\ parks \in [ready : [Directions -> BOOLEAN], hangup : {slot.hangup},
                             parked : [Directions -> Wakers \cup {NoWaker}]]
BY DEF TypeOK, SlotTypeOK

\* take_readable_or_park, take_writable_or_park.
LEMMA TakeInv ==
    ASSUME StreamInv, NEW d \in Directions, Take(d)
    PROVE  StreamInv'
<1> USE DEF StreamInv
<1>1. pc[d] = "take" /\ UNCHANGED <<edges, events, pending, kernelVars, writeVars, waker, notified>>
  BY DEF Take
<1>2. waker[d] \in Wakers /\ len[d] >= 1 /\ Covered(d)
  BY <1>1 DEF PollsAreWhole, NothingForgotten
<1>3. CASE Ready(d)
  <2>1. slot' = [slot EXCEPT !.ready[d] = FALSE]
    BY <1>3 DEF Take, take_or_park
  <2>2. SlotStep(d)
    BY <1>1, <2>1, SlotOperations DEF SlotStep
  <2>3. pc' = [pc EXCEPT ![d] = "syscall"] /\ UNCHANGED <<len, answer>>
    BY <1>3 DEF Take, Goto
  <2>4. CallStep(d)
    BY <1>1, <2>3 DEF CallStep, TypeOK
  <2>5. PollIsWhole(d)' /\ KnownAt(d)' /\ UnreadyAt(d)'
    BY <1>1, <1>2, <2>3 DEF PollIsWhole, KnownAt, UnreadyAt, Asleep, TypeOK
  <2> QED
    BY <2>2, <2>4, <2>5, SlotStepInv
<1>4. CASE ~Ready(d)
  <2>1. slot' = [slot EXCEPT !.parked[d] = waker[d]]
    BY <1>4 DEF Take, take_or_park
  <2>2. SlotStep(d)
    BY <1>1, <1>2, <2>1, SlotOperations DEF SlotStep
  <2>3. slot'.parked[d] = waker[d] /\ ~Ready(d)'
    BY <1>2, <1>4, <2>1, SlotOperations DEF TypeOK, SlotTypeOK, Ready
  <2>4. /\ pc' = [pc EXCEPT ![d] = "idle"] /\ len' = [len EXCEPT ![d] = 0]
        /\ answer' = [answer EXCEPT ![d] = "pending"]
    BY <1>4 DEF Take, Return
  <2>5. CallStep(d)
    BY <1>1, <2>4 DEF CallStep, TypeOK
  <2>6. KnownAt(d)'
    BY <1>1, <1>2, <1>4, <2>3 DEF KnownAt, Covered, Worth, Stranded, Edge, kernelVars
  <2>7. PollIsWhole(d)' /\ UnreadyAt(d)'
    BY <1>1, <1>2, <2>3, <2>4 DEF PollIsWhole, UnreadyAt, TypeOK
  <2> QED
    BY <2>2, <2>5, <2>6, <2>7, SlotStepInv
<1> QED
  BY <1>3, <1>4

\* mark_readable, mark_writable: after a call that proved nothing, the end of
\* the stream or an interrupt.
LEMMA MarkInv ==
    ASSUME StreamInv, NEW d \in Directions, Mark(d) \/ MarkLast(d) \/ MarkRetry(d)
    PROVE  StreamInv'
<1> USE DEF StreamInv
<1>1. /\ pc[d] \in {"mark", "last", "retry"} /\ slot' = [slot EXCEPT !.ready[d] = TRUE]
      /\ UNCHANGED <<edges, events, pending, kernelVars, writeVars, waker, notified>>
  BY DEF Mark, MarkLast, MarkRetry, mark_ready
<1>2. waker[d] \in Wakers /\ len[d] >= 1
  BY <1>1 DEF PollsAreWhole
<1>3. SlotStep(d) /\ Ready(d)'
  BY <1>1, <1>2, SlotOperations DEF SlotStep, Ready, TypeOK, SlotTypeOK
<1>4. PICK to \in {"cancel", "take", "idle", "done"} :
         /\ pc' = [pc EXCEPT ![d] = to]
         /\ \/ to \in {"cancel", "take"} /\ UNCHANGED <<len, answer>>
            \/ /\ to \in {"idle", "done"}
               /\ len' = [len EXCEPT ![d] = 0] /\ answer' = [answer EXCEPT ![d] = "ready"]
  BY DEF Mark, MarkLast, MarkRetry, Return, Goto
<1>5. CallStep(d)
  BY <1>1, <1>4 DEF CallStep, TypeOK
<1>6. KnownAt(d)'
  BY <1>3 DEF KnownAt, Covered
<1>7. PollIsWhole(d)' /\ UnreadyAt(d)'
  BY <1>1, <1>2, <1>4 DEF PollIsWhole, UnreadyAt, Asleep, TypeOK
<1> QED
  BY <1>3, <1>5, <1>6, <1>7, SlotStepInv

\* poll_readable, poll_writable: the edge that came meanwhile is seen.
LEMMA ParkInv ==
    ASSUME StreamInv, NEW d \in Directions, Park(d)
    PROVE  StreamInv'
<1> USE DEF StreamInv
<1>1. /\ pc[d] = "park" /\ UNCHANGED <<edges, events, pending, kernelVars, writeVars, waker>>
      /\ pc' = [pc EXCEPT ![d] = "idle"] /\ len' = [len EXCEPT ![d] = 0]
      /\ answer' = [answer EXCEPT ![d] = "pending"]
      /\ notified' = [notified EXCEPT ![d] = @ \/ Ready(d)]
      /\ slot' = IF Ready(d) THEN slot ELSE [slot EXCEPT !.parked[d] = waker[d]]
  BY DEF Park, poll_ready, Return
<1>2. waker[d] \in Wakers /\ Covered(d) /\ Ready(d) \in BOOLEAN
  BY <1>1 DEF PollsAreWhole, NothingForgotten, Ready, TypeOK, SlotTypeOK
<1>3. /\ SlotStep(d) /\ (Ready(d)' <=> Ready(d))
      /\ ~Ready(d) => slot'.parked[d] = waker[d]
  <2>1. CASE Ready(d)
    BY <1>1, <2>1 DEF SlotStep, Ready, TypeOK, SlotTypeOK
  <2>2. CASE ~Ready(d)
    <3>1. slot' = [slot EXCEPT !.parked[d] = waker[d]]
      BY <1>1, <2>2
    <3> QED
      BY <1>1, <1>2, <3>1, SlotOperations DEF SlotStep, Ready, TypeOK, SlotTypeOK
  <2> QED
    BY <2>1, <2>2
<1>4. notified' \in [Directions -> BOOLEAN] /\ notified'[d] = (notified[d] \/ Ready(d))
  BY <1>1, <1>2 DEF TypeOK
<1>5. CallStep(d)
  BY <1>1, <1>4 DEF CallStep, TypeOK
<1>6. KnownAt(d)'
  BY <1>1, <1>2, <1>3 DEF KnownAt, Covered, Worth, Stranded, Edge, kernelVars
<1>7. PollIsWhole(d)' /\ UnreadyAt(d)'
  BY <1>1, <1>2, <1>3, <1>4 DEF PollIsWhole, UnreadyAt, Asleep, TypeOK
<1> QED
  BY <1>3, <1>5, <1>6, <1>7, SlotStepInv

\* cancel_read_wait, cancel_write_wait, after a datagram or by a drop.
LEMMA CancelInv ==
    ASSUME StreamInv, NEW d \in Directions, CancelWait(d) \/ DropFuture(d)
    PROVE  StreamInv'
<1> USE DEF StreamInv
<1>1. /\ pc[d] \in {"cancel", "idle"} /\ slot' = [slot EXCEPT !.parked[d] = NoWaker]
      /\ pc' = [pc EXCEPT ![d] = "idle"] /\ answer' = [answer EXCEPT ![d] = "ready"]
      /\ (UNCHANGED len \/ len' = [len EXCEPT ![d] = 0])
      /\ UNCHANGED <<edges, events, pending, kernelVars, writeVars, waker, notified>>
  BY DEF CancelWait, DropFuture, cancel_wait, Return, TypeOK
<1>2. SlotStep(d) /\ (Ready(d)' <=> Ready(d))
  BY <1>1, SlotOperations DEF SlotStep, Ready, TypeOK, SlotTypeOK
<1>3. CallStep(d)
  BY <1>1 DEF CallStep, TypeOK
<1>4. KnownAt(d)'
  BY <1>1, <1>2 DEF NothingForgotten, KnownAt, Covered, Worth, Stranded, Edge, kernelVars
<1>5. PollIsWhole(d)' /\ UnreadyAt(d)'
  BY <1>1 DEF PollIsWhole, UnreadyAt, Asleep, TypeOK
<1> QED
  BY <1>2, <1>3, <1>4, <1>5, SlotStepInv

\* A task polls: a new buffer and waker, and the first step to take.
LEMMA PollInv ==
    ASSUME StreamInv, NEW d \in Directions, NEW w \in Wakers, NEW n \in 1..MaxLen, Poll(d, w, n)
    PROVE  StreamInv'
<1> USE DEF StreamInv
<1>1. /\ pc[d] = "idle" /\ pc' = [pc EXCEPT ![d] = "take"] /\ len' = [len EXCEPT ![d] = n]
      /\ waker' = [waker EXCEPT ![d] = w] /\ notified' = [notified EXCEPT ![d] = FALSE]
      /\ UNCHANGED <<slotVars, kernelVars, writeVars, answer>>
  BY DEF Poll
<1>2. SlotStep(d)
  BY <1>1 DEF SlotStep, slotVars, TypeOK, SlotTypeOK
<1>3. CallStep(d)
  BY <1>1 DEF CallStep, TypeOK
<1>4. KnownAt(d)'
  BY <1>1 DEF NothingForgotten, KnownAt, Covered, Worth, Stranded, Edge, kernelVars, slotVars, Ready
<1>5. PollIsWhole(d)' /\ UnreadyAt(d)'
  BY <1>1 DEF PollIsWhole, UnreadyAt, Asleep, TypeOK
<1> QED
  BY <1>2, <1>3, <1>4, <1>5, SlotStepInv

-----------------------------------------------------------------------------
\* Every step keeps the invariant, one case for each action.
LEMMA StreamStep == StreamInv /\ [Next]_vars => StreamInv'
<1> SUFFICES ASSUME StreamInv, [Next]_vars PROVE StreamInv'
  OBVIOUS
<1>1. CASE UNCHANGED vars
  BY <1>1 DEF vars, slotVars, kernelVars, callVars, StreamInv, TypeOK, SlotTypeOK, PollsAreWhole,
     OneEventAtATime, HangupIsKept, NothingForgotten, Covered, Worth, Stranded, Ready, Edge,
     SleeperIsUnready, Asleep, MisjudgedOnly
<1>2. CASE Next
  <2>1. CASE PeerSends \/ PeerReads \/ PeerCloses \/ PeerResets
    BY <2>1, PeerInv
  <2>2. CASE Reactor
    BY <2>2, WaitInv, DispatchInv, WakeInv DEF Reactor
  <2>3. ASSUME NEW d \in Directions, Step(d) \/ Interrupt(d) \/ DropFuture(d)
        PROVE  StreamInv'
    BY <2>3, TakeInv, MarkInv, ParkInv, CancelInv, ReadInv, WriteInv, InterruptInv DEF Step
  <2>4. ASSUME NEW d \in Directions, \E w \in Wakers, n \in 1..MaxLen : Poll(d, w, n)
        PROVE  StreamInv'
    BY <2>4, PollInv
  <2> QED
    BY <1>2, <2>1, <2>2, <2>3, <2>4 DEF Next
<1> QED
  BY <1>1, <1>2

\* No edge is missed, by a socket, a datagram socket or a pipe, whatever the
\* peer, the kernel and the reactor thread do between the steps of a poll and
\* whatever SO_SNDBUF says, but by a write as large as a send_capacity below the
\* buffer's own, which poll_write_vectored takes to have filled it.
THEOREM NoEdgeIsMissed == Spec => []NoMissedEdge
<1>1. StreamInv => NoMissedEdge
  BY DEF StreamInv, NoMissedEdge, SleeperParked, SleeperIsUnready, NothingForgotten, Covered,
     Asleep, MisjudgedOnly
<1> QED
  BY <1>1, StreamStart, StreamStep, PTL DEF Spec

=============================================================================
