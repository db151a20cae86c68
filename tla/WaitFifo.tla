------------------------------ MODULE WaitFifo ------------------------------
(***************************************************************************)
(* What the waiter queue of sync.rs promises its users (Notify, Semaphore, *)
(* RwLock): waiters are queued first come first served, a granted waiter   *)
(* keeps its registration until its future acknowledges or cancels it, and *)
(* the waker taken from a granted waiter is invoked only after the queue's *)
(* lock is released.  Every action but Wake is one critical section.       *)
(*                                                                         *)
(* Module WaitQueue is the slot arena with its links and its free list; it *)
(* is shown to implement FifoSpec.  The primitives are built on this       *)
(* module.                                                                 *)
(***************************************************************************)
EXTENDS Naturals, Sequences

CONSTANTS Waiters,   \* the futures that may register
          Wakers,    \* the wakers they are polled with
          NoWaker    \* registered by Notified::enable, which has no waker

VARIABLES kind,      \* WakeKind of a registration, "None" where there is none
          fifo,      \* the queued waiters, the next to be granted first
          waker,     \* the waker stored with a registration
          wakes      \* wakers taken under the lock and not yet invoked

fifoVars == <<kind, fifo, waker, wakes>>

Kinds == {"None", "Queued", "One", "All"}

FifoTypeOK ==
    /\ kind \in [Waiters -> Kinds]
    /\ fifo \in Seq(Waiters)
    /\ waker \in [Waiters -> Wakers \cup {NoWaker}]
    /\ wakes \in SUBSET Wakers

\* The queue without f, the order of the others kept.
Without(q, f) ==
    IF \E i \in 1..Len(q) : q[i] = f
    THEN LET i == CHOOSE i \in 1..Len(q) : q[i] = f
         IN  [j \in 1..(Len(q) - 1) |-> IF j < i THEN q[j] ELSE q[j + 1]]
    ELSE q

FifoInit ==
    /\ kind = [f \in Waiters |-> "None"]
    /\ fifo = <<>>
    /\ waker = [f \in Waiters |-> NoWaker]
    /\ wakes = {}

\* A waiter already queued keeps its place; a granted one goes to the tail.
\* Registering without a waker leaves the stored one.
Register(f, w) ==
    /\ kind' = [kind EXCEPT ![f] = "Queued"]
    /\ fifo' = IF kind[f] = "Queued" THEN fifo ELSE Append(fifo, f)
    /\ waker' = IF w = NoWaker THEN waker ELSE [waker EXCEPT ![f] = w]
    /\ UNCHANGED wakes

Remove(f) ==
    /\ kind' = [kind EXCEPT ![f] = "None"]
    /\ fifo' = Without(fifo, f)
    /\ waker' = [waker EXCEPT ![f] = NoWaker]
    /\ UNCHANGED wakes

\* Granting one waiter of the queue k, q, w after the removals of the same
\* critical section (Notified::drop removes and grants under one lock).
GrantHead(k, q, w) ==
    LET f == Head(q)
    IN  /\ kind' = [k EXCEPT ![f] = "One"]
        /\ fifo' = Tail(q)
        /\ waker' = [w EXCEPT ![f] = NoWaker]
        /\ wakes' = wakes \cup ({w[f]} \ {NoWaker})

GrantOne ==
    IF fifo = <<>> THEN UNCHANGED fifoVars ELSE GrantHead(kind, fifo, waker)

\* Slip: a broadcast stops after the first waiter.
GrantAllFirst == GrantOne

GrantAll ==
    /\ kind' = [f \in Waiters |-> IF kind[f] = "Queued" THEN "All" ELSE kind[f]]
    /\ fifo' = <<>>
    /\ waker' = [f \in Waiters |-> IF kind[f] = "Queued" THEN NoWaker ELSE waker[f]]
    /\ wakes' = wakes \cup ({waker[f] : f \in {g \in Waiters : kind[g] = "Queued"}}
                              \ {NoWaker})

\* The caller of a grant invokes a waker it took, outside the lock.
Wake(w) ==
    /\ w \in wakes
    /\ wakes' = wakes \ {w}
    /\ UNCHANGED <<kind, fifo, waker>>

FifoNext ==
    \/ \E f \in Waiters, w \in Wakers \cup {NoWaker} : Register(f, w)
    \/ \E f \in Waiters : kind[f] # "None" /\ Remove(f)
    \/ GrantOne
    \/ GrantAll
    \/ \E w \in Wakers : Wake(w)

FifoSpec == FifoInit /\ [][FifoNext]_fifoVars
=============================================================================
