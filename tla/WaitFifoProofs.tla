--------------------------- MODULE WaitFifoProofs ---------------------------
(***************************************************************************)
(* The queue of waiters holds exactly the waiters whose kind is Queued,    *)
(* each once.  The lemmas about the single operations are what the proofs  *)
(* of the primitives built on the queue use.                               *)
(***************************************************************************)
EXTENDS WaitFifo, TLAPS

\* The queue holds no waiter twice, and the waiters of kind Queued only.
QueueExact ==
    /\ \A i, j \in 1..Len(fifo) : fifo[i] = fifo[j] => i = j
    /\ \A f \in Waiters : kind[f] = "Queued" <=> \E i \in 1..Len(fifo) : fifo[i] = f

FifoInv == FifoTypeOK /\ QueueExact

-----------------------------------------------------------------------------
\* Removing a waiter from a queue (WaitQueue::unlink) leaves a queue of the
\* same waiters.
LEMMA WithoutType ==
    ASSUME NEW S, NEW q \in Seq(S), NEW f
    PROVE  Without(q, f) \in Seq(S)
<1>1. CASE \E i \in 1..Len(q) : q[i] = f
  <2> DEFINE k == CHOOSE i \in 1..Len(q) : q[i] = f
  <2>1. k \in 1..Len(q) /\ q[k] = f
    BY <1>1
  <2>2. Without(q, f) = [j \in 1..(Len(q) - 1) |-> IF j < k THEN q[j] ELSE q[j + 1]]
    BY <1>1 DEF Without
  <2>3. Len(q) - 1 \in Nat
    BY <2>1
  <2>4. \A j \in 1..(Len(q) - 1) : (IF j < k THEN q[j] ELSE q[j + 1]) \in S
    BY <2>1
  <2> QED
    BY <2>2, <2>3, <2>4
<1>2. CASE ~ \E i \in 1..Len(q) : q[i] = f
  BY <1>2 DEF Without
<1> QED
  BY <1>1, <1>2

Once(q) == \A i, j \in 1..Len(q) : q[i] = q[j] => i = j
Occurs(q, g) == \E i \in 1..Len(q) : q[i] = g

\* Where no waiter is queued twice, removing one leaves every other in the
\* queue, once, and the removed one nowhere.
LEMMA WithoutElements ==
    ASSUME NEW S, NEW q \in Seq(S), NEW f \in S, Once(q)
    PROVE  /\ Once(Without(q, f))
           /\ \A g \in S : Occurs(Without(q, f), g) <=> g # f /\ Occurs(q, g)
<1> USE DEF Once, Occurs
<1>1. CASE \E i \in 1..Len(q) : q[i] = f
  <2> DEFINE k == CHOOSE i \in 1..Len(q) : q[i] = f
             r == [j \in 1..(Len(q) - 1) |-> IF j < k THEN q[j] ELSE q[j + 1]]
  <2>1. k \in 1..Len(q) /\ q[k] = f
    BY <1>1
  <2>2. Without(q, f) = r
    BY <1>1 DEF Without
  <2>3. Len(q) - 1 \in Nat /\ r \in Seq(S)
    BY <2>1, <2>2, WithoutType
  <2>4. Len(r) = Len(q) - 1
    BY <2>3
  <2>5. \A j \in 1..Len(r) : r[j] = IF j < k THEN q[j] ELSE q[j + 1]
    BY <2>4
  <2> HIDE DEF k, r
  <2>6. \A i, j \in 1..Len(r) : r[i] = r[j] => i = j
    BY <2>1, <2>3, <2>4, <2>5
  <2>7. ASSUME NEW i \in 1..Len(r)
        PROVE  r[i] # f /\ \E j \in 1..Len(q) : q[j] = r[i]
    BY <2>1, <2>3, <2>4, <2>5
  <2>8. ASSUME NEW g \in S, g # f, NEW j \in 1..Len(q), q[j] = g
        PROVE  \E i \in 1..Len(r) : r[i] = g
    <3>1. CASE j < k
      BY <3>1, <2>1, <2>3, <2>4, <2>5, <2>8
    <3>2. CASE j > k
      <4>1. j - 1 \in 1..Len(r) /\ r[j - 1] = q[j]
        BY <3>2, <2>1, <2>3, <2>4, <2>5
      <4> QED
        BY <4>1, <2>8
    <3> QED
      BY <3>1, <3>2, <2>1, <2>8
  <2>9. \A g \in S : (\E i \in 1..Len(r) : r[i] = g)
                       <=> (g # f /\ \E i \in 1..Len(q) : q[i] = g)
    BY <2>7, <2>8
  <2> QED
    BY <2>2, <2>6, <2>9
<1>2. CASE ~ \E i \in 1..Len(q) : q[i] = f
  BY <1>2 DEF Without
<1> QED
  BY <1>1, <1>2

-----------------------------------------------------------------------------
\* WaitQueue::register keeps the queue exact.
LEMMA RegisterInv ==
    ASSUME FifoInv, NEW f \in Waiters, NEW w \in Wakers \cup {NoWaker}, Register(f, w)
    PROVE  FifoInv'
<1> USE DEF FifoInv, FifoTypeOK, QueueExact, Kinds
<1>1. FifoTypeOK'
  BY DEF Register
<1>2. CASE kind[f] = "Queued"
  <2>1. fifo' = fifo /\ kind' = kind
    BY <1>2 DEF Register
  <2> QED
    BY <1>1, <2>1
<1>3. CASE kind[f] # "Queued"
  <2>1. fifo' = Append(fifo, f) /\ kind' = [kind EXCEPT ![f] = "Queued"]
    BY <1>3 DEF Register
  <2>2. /\ Len(fifo') = Len(fifo) + 1
        /\ \A i \in 1..Len(fifo) : fifo'[i] = fifo[i]
        /\ fifo'[Len(fifo) + 1] = f
    BY <2>1
  <2>3. \A i \in 1..Len(fifo) : fifo[i] # f
    BY <1>3
  <2>4. \A i, j \in 1..Len(fifo') : fifo'[i] = fifo'[j] => i = j
    BY <2>2, <2>3
  <2>5. ASSUME NEW g \in Waiters
        PROVE  kind'[g] = "Queued" <=> \E i \in 1..Len(fifo') : fifo'[i] = g
    BY <2>1, <2>2, <2>3
  <2> QED
    BY <1>1, <2>4, <2>5
<1> QED
  BY <1>2, <1>3

\* WaitQueue::remove keeps the queue exact.
LEMMA RemoveInv ==
    ASSUME FifoInv, NEW f \in Waiters, Remove(f)
    PROVE  FifoInv'
<1> USE DEF FifoInv, FifoTypeOK, QueueExact, Kinds
<1>1. fifo' = Without(fifo, f) /\ kind' = [kind EXCEPT ![f] = "None"]
  BY DEF Remove
<1>2. FifoTypeOK'
  BY WithoutType DEF Remove
<1>3. /\ \A i, j \in 1..Len(fifo') : fifo'[i] = fifo'[j] => i = j
      /\ \A g \in Waiters : (\E i \in 1..Len(fifo') : fifo'[i] = g)
                               <=> (g # f /\ \E i \in 1..Len(fifo) : fifo[i] = g)
  <2>1. fifo \in Seq(Waiters) /\ Once(fifo)
    BY DEF Once
  <2>2. /\ Once(Without(fifo, f))
        /\ \A g \in Waiters : Occurs(Without(fifo, f), g) <=> g # f /\ Occurs(fifo, g)
    BY ONLY <2>1, f \in Waiters, WithoutElements
  <2> QED
    BY ONLY <1>1, <2>2, Zenon DEF Once, Occurs
<1> QED
  BY <1>1, <1>2, <1>3

\* Granting the head of a queue q that agrees with the kinds k.
LEMMA GrantHeadInv ==
    ASSUME NEW k \in [Waiters -> Kinds], NEW q \in Seq(Waiters), q # <<>>,
           NEW w \in [Waiters -> Wakers \cup {NoWaker}], wakes \in SUBSET Wakers,
           \A i, j \in 1..Len(q) : q[i] = q[j] => i = j,
           \A f \in Waiters : k[f] = "Queued" <=> \E i \in 1..Len(q) : q[i] = f,
           GrantHead(k, q, w)
    PROVE  FifoInv' /\ Head(q) \in Waiters /\ k[Head(q)] = "Queued"
<1> DEFINE h == Head(q)
<1>1. /\ h \in Waiters /\ Len(q) \in Nat /\ Len(q) > 0 /\ h = q[1]
      /\ Tail(q) \in Seq(Waiters) /\ Len(Tail(q)) = Len(q) - 1
      /\ \A i \in 1..(Len(q) - 1) : Tail(q)[i] = q[i + 1]
  OBVIOUS
<1>2. /\ kind' = [k EXCEPT ![h] = "One"] /\ fifo' = Tail(q)
      /\ waker' = [w EXCEPT ![h] = NoWaker]
      /\ wakes' = wakes \cup ({w[h]} \ {NoWaker})
  BY DEF GrantHead
<1>3. k[h] = "Queued"
  BY <1>1
<1> HIDE DEF h
<1>4. FifoTypeOK'
  BY <1>1, <1>2 DEF FifoTypeOK, Kinds
<1>5. \A i, j \in 1..Len(fifo') : fifo'[i] = fifo'[j] => i = j
  BY <1>1, <1>2
<1>6. ASSUME NEW g \in Waiters
      PROVE  kind'[g] = "Queued" <=> \E i \in 1..Len(fifo') : fifo'[i] = g
  <2>1. CASE g = h
    <3>1. \A i \in 1..Len(fifo') : fifo'[i] # h
      BY <1>1, <1>2
    <3> QED
      BY <2>1, <3>1, <1>1, <1>2
  <2>2. CASE g # h
    <3>1. ASSUME NEW i \in 1..Len(q), q[i] = g
          PROVE  i - 1 \in 1..Len(fifo') /\ fifo'[i - 1] = g
      BY <3>1, <2>2, <1>1, <1>2
    <3>2. ASSUME NEW i \in 1..Len(fifo'), fifo'[i] = g
          PROVE  i + 1 \in 1..Len(q) /\ q[i + 1] = g
      BY <3>2, <1>1, <1>2
    <3>3. kind'[g] = k[g]
      BY <2>2, <1>2
    <3> QED
      BY <3>1, <3>2, <3>3
  <2> QED
    BY <2>1, <2>2
<1> QED
  BY <1>1, <1>3, <1>4, <1>5, <1>6 DEF FifoInv, QueueExact, h

\* WaitQueue::grant_one keeps the queue exact.
LEMMA GrantOneInv ==
    ASSUME FifoInv, GrantOne
    PROVE  FifoInv'
<1>1. CASE fifo = <<>>
  BY <1>1 DEF GrantOne, fifoVars, FifoInv, FifoTypeOK, QueueExact
<1>2. CASE fifo # <<>>
  BY <1>2, GrantHeadInv DEF GrantOne, FifoInv, FifoTypeOK, QueueExact
<1> QED
  BY <1>1, <1>2

\* WaitQueue::grant_all keeps the queue exact.
LEMMA GrantAllInv ==
    ASSUME FifoInv, GrantAll
    PROVE  FifoInv'
<1> USE DEF FifoInv, FifoTypeOK, QueueExact, Kinds
<1>1. kind' \in [Waiters -> Kinds] /\ \A f \in Waiters : kind'[f] # "Queued"
  BY DEF GrantAll
<1>2. fifo' = <<>> /\ waker' \in [Waiters -> Wakers \cup {NoWaker}]
  BY DEF GrantAll
<1>3. wakes' \in SUBSET Wakers
  BY DEF GrantAll
<1> QED
  BY <1>1, <1>2, <1>3

\* Invoking a taken waker leaves the queue alone.
LEMMA WakeInv ==
    ASSUME FifoInv, NEW w, Wake(w)
    PROVE  FifoInv'
BY DEF Wake, FifoInv, FifoTypeOK, QueueExact

\* Whatever the users of the queue do, it holds exactly the waiters that are
\* registered and not granted, each once: a grant always finds the waiter
\* that is due, and a cancelled one can be cut out of the middle.
THEOREM QueueIsExact == FifoSpec => []FifoInv
<1>1. FifoInit => FifoInv
  BY DEF FifoInit, FifoInv, FifoTypeOK, QueueExact, Kinds
<1>2. FifoInv /\ [FifoNext]_fifoVars => FifoInv'
  <2> SUFFICES ASSUME FifoInv, [FifoNext]_fifoVars
               PROVE  FifoInv'
    OBVIOUS
  <2>1. CASE \E f \in Waiters, w \in Wakers \cup {NoWaker} : Register(f, w)
    BY <2>1, RegisterInv
  <2>2. CASE \E f \in Waiters : kind[f] # "None" /\ Remove(f)
    BY <2>2, RemoveInv
  <2>3. CASE GrantOne
    BY <2>3, GrantOneInv
  <2>4. CASE GrantAll
    BY <2>4, GrantAllInv
  <2>5. CASE \E w \in Wakers : Wake(w)
    BY <2>5, WakeInv
  <2>6. CASE UNCHANGED fifoVars
    BY <2>6 DEF fifoVars, FifoInv, FifoTypeOK, QueueExact
  <2> QED
    BY <2>1, <2>2, <2>3, <2>4, <2>5, <2>6 DEF FifoNext
<1> QED
  BY <1>1, <1>2, PTL DEF FifoSpec
=============================================================================
