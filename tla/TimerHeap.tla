----------------------------- MODULE TimerHeap ------------------------------
(***************************************************************************)
(* struct TimerHeap of time.rs: a binary heap in a vector, in which every  *)
(* move of an entry is also recorded in the entry's slot, so that the drop *)
(* of a Sleep finds its entry without a search.  Positions count from 1,   *)
(* and 0 is NOT_QUEUED.  The heap is behind the registry's lock: an        *)
(* operation starts when no entry is being sifted, and each turn of        *)
(* sift_up and sift_down is a step.  Armed Sleeps are known by number.     *)
(***************************************************************************)
EXTENDS Naturals, Sequences

CONSTANTS Times, MaxArmed

ASSUME TimerHeapAssumption == Times \subseteq Nat /\ MaxArmed \in Nat

VARIABLES heap,    \* [entries, index]: the vector, and Slot.index of each timer
          sift,    \* the loop that is running: "none", "up" or "down"
          at,      \* its index
          seq,     \* SEQ
          told     \* what the last operation answered

heapVars == <<heap, sift, at, seq, told>>

NOT_QUEUED == 0

HeapInit ==
    /\ heap = [entries |-> <<>>, index |-> [n \in 1..MaxArmed |-> NOT_QUEUED]]
    /\ sift = "none" /\ at = 0
    /\ seq = 0
    /\ told = <<"none">>

\* Entry::cmp is reversed: the earlier of two entries is the greater.
Greater(a, b) == a[1] < b[1] \/ (a[1] = b[1] /\ a[2] < b[2])

\* Put an entry at a position, and tell its slot.
Store(h, i, e) == [h EXCEPT !.entries[i] = e, !.index[e[2]] = i]

swap(h, a, b) == Store(Store(h, a, h.entries[b]), b, h.entries[a])

\* An operation is over, or goes on with a loop at i.
Rest == sift' = "none" /\ at' = 0

Sift(direction, i) == sift' = direction /\ at' = i

\* One turn of sift_up.
sift_up ==
    /\ sift = "up"
    /\ IF at > 1 /\ Greater(heap.entries[at], heap.entries[at \div 2])
       THEN heap' = swap(heap, at, at \div 2) /\ Sift("up", at \div 2)
       ELSE Rest /\ UNCHANGED heap
    /\ UNCHANGED <<seq, told>>

GreaterChild(h, i) ==
    IF 2 * i + 1 <= Len(h.entries) /\ Greater(h.entries[2 * i + 1], h.entries[2 * i])
    THEN 2 * i + 1 ELSE 2 * i

\* One turn of sift_down.
sift_down ==
    LET child == GreaterChild(heap, at)
    IN  /\ sift = "down"
        /\ IF at <= Len(heap.entries) \div 2 /\ Greater(heap.entries[child], heap.entries[at])
           THEN heap' = swap(heap, at, child) /\ Sift("down", child)
           ELSE Rest /\ UNCHANGED heap
        /\ UNCHANGED <<seq, told>>

push(h, e) ==
    [entries |-> Append(h.entries, e),
     index   |-> [h.index EXCEPT ![e[2]] = Len(h.entries) + 1]]

\* Slip: the entry moved into the gap is only ever sifted down.
settleDown(h, i) == "down"

\* The entry moved into the gap may belong above or below it.
settle(h, i) ==
    IF i > 1 /\ Greater(h.entries[i], h.entries[i \div 2]) THEN "up" ELSE "down"

\* swap_remove: the last entry takes the place of the one removed.
removed(h, i) ==
    LET last == Len(h.entries)
        left == [entries |-> SubSeq(h.entries, 1, last - 1),
                 index   |-> [h.index EXCEPT ![h.entries[i][2]] = NOT_QUEUED]]
    IN  IF i < last THEN Store(left, i, h.entries[last]) ELSE left

removeEntry(i) ==
    /\ heap' = removed(heap, i)
    /\ IF i < Len(heap.entries) THEN Sift(settle(heap', i), i) ELSE Rest

-----------------------------------------------------------------------------
\* arm: is the new timer the earliest, asked of the entry at the top?
armTimer(d) ==
    /\ sift = "none" /\ seq < MaxArmed
    /\ seq' = seq + 1
    /\ heap' = push(heap, <<d, seq + 1>>)
    /\ Sift("up", Len(heap.entries) + 1)
    /\ told' = <<"armed", heap.entries = <<>> \/ d < heap.entries[1][1]>>

\* fire_due: peek, then pop.
popTimer ==
    /\ sift = "none" /\ heap.entries # <<>>
    /\ removeEntry(1)
    /\ told' = <<"fired", heap.entries[1]>>
    /\ UNCHANGED seq

\* Sleep::drop of the n-th timer, armed for d and not fired: its slot
\* says where the entry is.
dropTimer(d, n) ==
    /\ sift = "none"
    /\ \E i \in 1..Len(heap.entries) : heap.entries[i] = <<d, n>>
    /\ IF heap.index[n] = NOT_QUEUED THEN UNCHANGED <<heap, sift, at>>
       ELSE removeEntry(heap.index[n])
    /\ told' = <<"cancelled", <<d, n>>>>
    /\ UNCHANGED seq

HeapNext ==
    \/ \E d \in Times : armTimer(d)
    \/ popTimer
    \/ \E d \in Times, n \in 1..MaxArmed : dropTimer(d, n)
    \/ sift_up \/ sift_down

HeapSpec == HeapInit /\ [][HeapNext]_heapVars

-----------------------------------------------------------------------------
\* The set a heap stands for: the entries of its vector.
Contents ==
    INSTANCE TimerSet WITH armed <- {heap.entries[i] : i \in 1..Len(heap.entries)}

\* The heap is the set of armed timers: whatever was pushed, popped and removed
\* before, the top is the earliest, equal deadlines leave in the order they were
\* armed ("keeps a paced loop from starving itself"), and the position a slot
\* remembers is its own entry's, so that a dropped Sleep cancels no other.
HeapImplementsSet == Contents!SetSpec
=============================================================================
