------------------------------ MODULE WaitQueue ------------------------------
(***************************************************************************)
(* struct WaitQueue of sync.rs: an arena of reusable slots, the live ones   *)
(* chained from head to tail through previous/next while they are queued,  *)
(* the released ones chained through a free list.  Slot indices count from *)
(* 1 and Nil (0) stands for Option::None; a slot of kind "Free" is         *)
(* WaiterSlot::Free, the others are Live.  The whole queue is behind one   *)
(* spin lock, so every operation is one action.                            *)
(***************************************************************************)
EXTENDS Naturals, Sequences, FiniteSets

CONSTANTS Waiters, Wakers, NoWaker

ASSUME WaitQueueAssumption == IsFiniteSet(Waiters) /\ NoWaker \notin Wakers

VARIABLES queue,         \* [slots, free, head, tail]
          registration,  \* the token each future holds: a slot index or Nil
          wakes          \* wakers taken under the lock, not yet invoked

vars == <<queue, registration, wakes>>

Nil == 0

Ids(q) == 1..Len(q.slots)

Init ==
    /\ queue = [slots |-> <<>>, free |-> Nil, head |-> Nil, tail |-> Nil]
    /\ registration = [f \in Waiters |-> Nil]
    /\ wakes = {}

-----------------------------------------------------------------------------
(* Slips the mutation runs put in place of the operations below.           *)
\* A granted waiter that registers again keeps its old kind.
enqueueKeepsKind(q, id) ==
    LET linked == [q.slots EXCEPT ![id].previous = q.tail, ![id].next = Nil]
    IN  IF q.tail # Nil
        THEN [q EXCEPT !.slots = [linked EXCEPT ![q.tail].next = id], !.tail = id]
        ELSE [q EXCEPT !.slots = linked, !.head = id, !.tail = id]

-----------------------------------------------------------------------------
enqueue(q, id) ==
    LET linked == [q.slots EXCEPT ![id].previous = q.tail,
                                  ![id].next = Nil,
                                  ![id].kind = "Queued"]
    IN  IF q.tail # Nil
        THEN [q EXCEPT !.slots = [linked EXCEPT ![q.tail].next = id], !.tail = id]
        ELSE [q EXCEPT !.slots = linked, !.head = id, !.tail = id]

unlink(q, id) ==
    LET previous == q.slots[id].previous
        next     == q.slots[id].next
        left     == IF previous # Nil
                    THEN [q EXCEPT !.slots[previous].next = next]
                    ELSE [q EXCEPT !.head = next]
        right    == IF next # Nil
                    THEN [left EXCEPT !.slots[next].previous = previous]
                    ELSE [left EXCEPT !.tail = previous]
    IN  [right EXCEPT !.slots[id].previous = Nil, !.slots[id].next = Nil]

\* register's None arm: the slot a new registration takes.
Fresh == [previous |-> Nil, next |-> Nil, kind |-> "Queued", waker |-> NoWaker]

\* The slot a removed registration leaves, in front of the free list.
Freed(q) == [previous |-> Nil, next |-> q.free, kind |-> "Free", waker |-> NoWaker]

\* Slip: the free list is not advanced past the slot it hands out.
allocateKeepsFree(q) ==
    IF q.free # Nil THEN [q EXCEPT !.slots[q.free] = Fresh]
    ELSE [q EXCEPT !.slots = Append(@, Fresh)]

allocate(q) ==
    IF q.free # Nil
    THEN [q EXCEPT !.free = q.slots[q.free].next, !.slots[q.free] = Fresh]
    ELSE [q EXCEPT !.slots = Append(@, Fresh)]

register(f, w) ==
    LET known  == registration[f] # Nil
        id     == IF known THEN registration[f]
                  ELSE IF queue.free # Nil THEN queue.free
                  ELSE Len(queue.slots) + 1
        placed == IF ~known THEN enqueue(allocate(queue), id)
                  ELSE IF queue.slots[id].kind # "Queued" THEN enqueue(queue, id)
                  ELSE queue
    IN  /\ registration' = [registration EXCEPT ![f] = id]
        /\ queue' = IF w = NoWaker THEN placed
                    ELSE [placed EXCEPT !.slots[id].waker = w]
        /\ UNCHANGED wakes

remove(f) ==
    LET id       == registration[f]
        detached == IF queue.slots[id].kind = "Queued" THEN unlink(queue, id) ELSE queue
    IN  /\ id # Nil
        /\ queue' = [detached EXCEPT !.slots[id] = Freed(queue), !.free = id]
        /\ registration' = [registration EXCEPT ![f] = Nil]
        /\ UNCHANGED wakes

\* The slots the links lead through from one of them, in order.
Paths(q) == UNION {[1..n -> Ids(q)] : n \in 0..Len(q.slots)}

Follows(q, s, first) ==
    /\ first = IF s = <<>> THEN Nil ELSE s[1]
    /\ \A i \in 1..Len(s) : q.slots[s[i]].next = IF i = Len(s) THEN Nil ELSE s[i + 1]

Order(q) == CHOOSE s \in Paths(q) : Follows(q, s, q.head)

\* A granted slot: its kind says by whom, its waker is taken.
Granted(slot, k) == [slot EXCEPT !.kind = k, !.waker = NoWaker]

grant_one ==
    LET id == queue.head
    IN  /\ id # Nil
        /\ queue' = [unlink(queue, id) EXCEPT !.slots[id] = Granted(@, "One")]
        /\ wakes' = wakes \cup ({queue.slots[id].waker} \ {NoWaker})
        /\ UNCHANGED registration

\* The loop takes the head until there is none: every slot of the chain.
grant_all ==
    LET chain == {Order(queue)[i] : i \in DOMAIN Order(queue)}
    IN  /\ queue' = [queue EXCEPT
             !.slots = [id \in Ids(queue) |->
                 IF id \in chain
                 THEN [Granted(@[id], "All") EXCEPT !.previous = Nil, !.next = Nil]
                 ELSE @[id]],
             !.head = Nil, !.tail = Nil]
        /\ wakes' = wakes \cup ({queue.slots[id].waker : id \in chain} \ {NoWaker})
        /\ UNCHANGED registration

\* The caller of a grant invokes a waker it took, outside the lock.
invoke(w) ==
    /\ w \in wakes
    /\ wakes' = wakes \ {w}
    /\ UNCHANGED <<queue, registration>>

Next ==
    \/ \E f \in Waiters, w \in Wakers \cup {NoWaker} : register(f, w)
    \/ \E f \in Waiters : remove(f)
    \/ grant_one
    \/ grant_all
    \/ \E w \in Wakers : invoke(w)

Spec == Init /\ [][Next]_vars

-----------------------------------------------------------------------------
(* Properties                                                              *)

Queued == Order(queue)

OwnerOf(id) == CHOOSE f \in Waiters : registration[f] = id

\* Slot reuse is exact: every slot is either on the free list or the
\* registration of exactly one future, so an index a future still holds is
\* never handed to another (the unreachable! arms of get, register, remove),
\* and the arena grows only while every slot is taken.
SlotsAccounted ==
    /\ \E freed \in Paths(queue) :
          /\ Follows(queue, freed, queue.free)
          /\ \A id \in Ids(queue) :
                /\ (\E i \in 1..Len(freed) : freed[i] = id) <=> queue.slots[id].kind = "Free"
                /\ (\E f \in Waiters : registration[f] = id) <=> queue.slots[id].kind # "Free"
    /\ \A f \in Waiters : registration[f] \in Ids(queue) \cup {Nil}
    /\ \A f, g \in Waiters : registration[f] = registration[g] => f = g \/ registration[f] = Nil
    /\ Len(queue.slots) <= Cardinality(Waiters)

\* The two directions of the chain agree and hold exactly the queued slots:
\* unlinking from the middle (a cancelled waiter) leaves no dangling link.
LinksAgree ==
    \E order \in Paths(queue) :
        /\ Follows(queue, order, queue.head)
        /\ queue.tail = IF order = <<>> THEN Nil ELSE order[Len(order)]
        /\ \A i \in 1..Len(order) :
              queue.slots[order[i]].previous = IF i = 1 THEN Nil ELSE order[i - 1]
        /\ \A id \in Ids(queue) :
              (\E i \in 1..Len(order) : order[i] = id) <=> queue.slots[id].kind = "Queued"

\* The arena is sound: its free list and its queue share out the slots, each
\* linked both ways, after any sequence of registrations and cancellations.
ArenaIsSound == SlotsAccounted /\ LinksAgree

\* The arena implements the first-come-first-served queue of WaitFifo: the
\* chain from head is the order of grants, and a slot's kind and waker are
\* those of the future holding its index.
Abstract ==
    INSTANCE WaitFifo WITH
        kind  <- [f \in Waiters |-> IF registration[f] = Nil THEN "None"
                                    ELSE queue.slots[registration[f]].kind],
        fifo  <- [i \in 1..Len(Queued) |-> OwnerOf(Queued[i])],
        waker <- [f \in Waiters |-> IF registration[f] = Nil THEN NoWaker
                                    ELSE queue.slots[registration[f]].waker]

ImplementsFifo == Abstract!FifoSpec

=============================================================================
