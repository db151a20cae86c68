---------------------------- MODULE ArenasProofs ----------------------------
(***************************************************************************)
(* The three structures that keep an index away from what it names, for    *)
(* any constants.                                                          *)
(*                                                                         *)
(* The arena of the waiter queue: its chain and its free list share out    *)
(* the slots, and it implements the first-come-first-served queue of       *)
(* WaitFifo.                                                               *)
(*                                                                         *)
(* The slot map of the reactor: it holds the registrations and nothing     *)
(* else, an event never reaches another socket than its own, and a watch   *)
(* is lost only to the late removal of a socket that closed first.         *)
(*                                                                         *)
(* The heap of timers: it implements a set of timers of which the earliest *)
(* is fired, whatever is cancelled from its middle.                        *)
(*                                                                         *)
(* What a chain of links or a heap does at every place is an induction     *)
(* over data; here it is an argument about the least place where it would  *)
(* fail (LeastNumber).                                                     *)
(***************************************************************************)
EXTENDS WaitQueue, Registry, TimerHeap, FiniteSetTheorems, WellFoundedInduction, TLAPS

\* A set of numbers that is not empty has a least one: the place where a
\* chain or a heap would go wrong first.
LEMMA LeastNumber ==
    ASSUME NEW S \in SUBSET Nat, S # {}
    PROVE  \E m \in S : \A n \in S : m <= n
<1>1. PICK m \in S : \A n \in S : ~(<<n, m>> \in OpToRel(<, Nat))
  BY WFMin, NatLessThanWellFounded
<1>2. \A n \in S : ~(n < m)
  BY <1>1 DEF OpToRel
<1> QED
  BY <1>2

-----------------------------------------------------------------------------
(* The arena of waiters.                                                   *)

\* The types of a slot and of the arena.
ArenaSlot == [previous : Nat, next : Nat, kind : {"Free", "Queued", "One", "All"},
              waker : Wakers \cup {NoWaker}]

\* The vector of slots, with the ends of its two lists.
Arena == [slots : Seq(ArenaSlot), free : Nat, head : Nat, tail : Nat]

\* The slot id is one of the sequence s.
On(s, id) == \E i \in 1..Len(s) : s[i] = id

\* A sequence of slots of the arena, none twice.
SlotsOnce(q, s) == s \in Seq(Ids(q)) /\ \A i, j \in 1..Len(s) : s[i] = s[j] => i = j

\* s is the chain from head to tail, linked both ways.
Linked(q, s) ==
    /\ SlotsOnce(q, s) /\ Follows(q, s, q.head)
    /\ q.tail = IF s = <<>> THEN Nil ELSE s[Len(s)]
    /\ \A i \in 1..Len(s) : q.slots[s[i]].previous = IF i = 1 THEN Nil ELSE s[i - 1]

\* s is the free list.
FreeList(q, s) == SlotsOnce(q, s) /\ Follows(q, s, q.free)

\* s has the slots of kind k.
Holds(q, s, k) == \A id \in Ids(q) : On(s, id) <=> q.slots[id].kind = k

USE DEF Nil

-----------------------------------------------------------------------------
\* What the links say is the same for two that follow them: one has no first
\* place where the other differs.
LEMMA FollowsAgree ==
    ASSUME NEW q, NEW s \in Seq(Ids(q)), NEW t \in Seq(Ids(q)), NEW first,
           q.slots \in Seq(ArenaSlot), Follows(q, s, first), Follows(q, t, first)
    PROVE  \A i \in 1..Len(s) : i \in 1..Len(t) /\ s[i] = t[i]
<1> DEFINE D == {i \in 1..Len(s) : ~(i \in 1..Len(t) /\ s[i] = t[i])}
<1>1. SUFFICES ASSUME D # {} PROVE FALSE
  OBVIOUS
<1>2. PICK m \in D : \A n \in D : m <= n
  <2>1. D \in SUBSET Nat
    OBVIOUS
  <2> HIDE DEF D
  <2> QED
    BY <1>1, <2>1, LeastNumber
<1>3. m \in 1..Len(s) /\ ~(m \in 1..Len(t) /\ s[m] = t[m]) /\ Len(s) \in Nat /\ Len(t) \in Nat
  BY <1>2
<1>4. /\ \A i \in 1..Len(s) : s[i] # 0
      /\ \A i \in 1..Len(t) : t[i] # 0
  <2>1. 0 \notin Ids(q)
    BY DEF Ids
  <2>2. \A i \in 1..Len(s) : s[i] \in Ids(q)
    BY ONLY s \in Seq(Ids(q))
  <2>3. \A i \in 1..Len(t) : t[i] \in Ids(q)
    BY ONLY t \in Seq(Ids(q))
  <2> QED
    BY ONLY <2>1, <2>2, <2>3
<1>5. CASE m = 1
  <2>1. s # <<>> /\ first = s[1] /\ first # 0
    BY <1>3, <1>4, <1>5 DEF Follows
  <2>2. t # <<>> /\ first = t[1]
    BY <2>1 DEF Follows
  <2> QED
    BY <1>3, <1>5, <2>1, <2>2
<1>6. CASE m > 1
  <2>1. m - 1 \in 1..Len(s) /\ m - 1 \notin D /\ m - 1 # Len(s)
    BY <1>2, <1>3, <1>6
  <2>2. m - 1 \in 1..Len(t) /\ s[m - 1] = t[m - 1]
    BY <2>1
  <2>3. q.slots[s[m - 1]].next = s[m]
    BY <2>1, <1>3 DEF Follows
  <2>4. q.slots[t[m - 1]].next = IF m - 1 = Len(t) THEN 0 ELSE t[m]
    BY <2>2, <1>3 DEF Follows
  <2>5. m - 1 # Len(t) /\ t[m] = s[m]
    BY <2>2, <2>3, <2>4, <1>3, <1>4
  <2> QED
    BY <1>3, <2>2, <2>5
<1> QED
  BY <1>3, <1>5, <1>6

\* So there is one chain.
LEMMA FollowsOnce ==
    ASSUME NEW q, NEW s \in Seq(Ids(q)), NEW t \in Seq(Ids(q)), NEW first,
           q.slots \in Seq(ArenaSlot), Follows(q, s, first), Follows(q, t, first)
    PROVE  s = t
<1>1. \A i \in 1..Len(s) : i \in 1..Len(t) /\ s[i] = t[i]
  BY FollowsAgree
<1>2. \A i \in 1..Len(t) : i \in 1..Len(s) /\ s[i] = t[i]
  BY FollowsAgree
<1>3. Len(s) = Len(t)
  <2>1. Len(s) \in Nat /\ Len(t) \in Nat
    OBVIOUS
  <2> QED
    BY <1>1, <1>2, <2>1
<1> QED
  BY <1>1, <1>3

\* The numbers up to n are n.
LEMMA UpTo ==
    ASSUME NEW n \in Nat
    PROVE  IsFiniteSet(1..n) /\ Cardinality(1..n) = n
<1>1. IsFiniteSet(1..n) /\ Cardinality(1..n) = IF 1 > n THEN 0 ELSE n - 1 + 1
  BY FS_Interval
<1> QED
  BY <1>1

\* A sequence of different slots is not longer than the arena.
LEMMA OnceIsPath ==
    ASSUME NEW q \in Arena, NEW s, SlotsOnce(q, s)
    PROVE  s \in Paths(q)
<1>1. /\ s \in Seq(Ids(q)) /\ Len(s) \in Nat /\ Len(q.slots) \in Nat
      /\ s \in [1..Len(s) -> Ids(q)]
  BY DEF SlotsOnce, Arena
<1>2. Len(s) <= Len(q.slots)
  <2>1. /\ IsFiniteSet(1..Len(s)) /\ Cardinality(1..Len(s)) = Len(s)
        /\ IsFiniteSet(Ids(q)) /\ Cardinality(Ids(q)) = Len(q.slots)
    BY <1>1, UpTo DEF Ids
  <2>2. CASE Cardinality(Ids(q)) < Cardinality(1..Len(s))
    <3>1. \E x, y \in 1..Len(s) : x # y /\ s[x] = s[y]
      BY <1>1, <2>1, <2>2, FS_PigeonHole
    <3> QED
      BY <3>1 DEF SlotsOnce
  <2> QED
    BY <1>1, <2>1, <2>2
<1> QED
  BY <1>1, <1>2 DEF Paths

\* The chain of a linked queue is what Order follows.
LEMMA OrderIs ==
    ASSUME NEW q \in Arena, NEW s, Linked(q, s)
    PROVE  Order(q) = s
<1>1. s \in Paths(q) /\ Follows(q, s, q.head) /\ s \in Seq(Ids(q))
  BY OnceIsPath DEF Linked, SlotsOnce
<1>2. Order(q) \in Paths(q) /\ Follows(q, Order(q), q.head)
  BY <1>1 DEF Order
<1>3. Order(q) \in Seq(Ids(q))
  <2>1. Len(q.slots) \in Nat
    BY DEF Arena
  <2>2. PICK n \in 0..Len(q.slots) : Order(q) \in [1..n -> Ids(q)]
    BY <1>2 DEF Paths
  <2> QED
    BY <2>1, <2>2
<1>4. q.slots \in Seq(ArenaSlot)
  BY DEF Arena
<1> QED
  BY <1>1, <1>2, <1>3, <1>4, FollowsOnce

-----------------------------------------------------------------------------
\* id joins the chain at its tail.
Joined(q, r, id) ==
    /\ Ids(r) = Ids(q) \cup {id} /\ r.tail = id
    /\ r.head = IF q.tail = Nil THEN id ELSE q.head
    /\ r.slots[id].next = Nil /\ r.slots[id].previous = q.tail
    /\ r.slots[id].kind = "Queued"
    /\ \A j \in Ids(q) \ {id} :
          /\ r.slots[j].next = IF j = q.tail THEN id ELSE q.slots[j].next
          /\ r.slots[j].previous = q.slots[j].previous
          /\ r.slots[j].kind = q.slots[j].kind

\* The chain is longer by one.
LEMMA JoinedIsLinked ==
    ASSUME NEW q \in Arena, NEW r \in Arena, NEW s, NEW id \in Nat \ {0},
           Linked(q, s), ~On(s, id), Joined(q, r, id),
           \A j \in Ids(q) \ {id} : On(s, j) <=> q.slots[j].kind = "Queued"
    PROVE  Linked(r, Append(s, id)) /\ Holds(r, Append(s, id), "Queued")
<1> DEFINE t == Append(s, id)
           n == Len(s)
<1>1. /\ s \in Seq(Ids(q)) /\ n \in Nat
      /\ \A i \in 1..n : s[i] \in Ids(q) /\ s[i] # id /\ s[i] # 0
      /\ \A i, j \in 1..n : s[i] = s[j] => i = j
      /\ s = <<>> <=> n = 0
  BY DEF Linked, SlotsOnce, On, Ids
<1>2. /\ id \in Ids(r) /\ \A i \in 1..n : s[i] \in Ids(r)
  BY <1>1 DEF Joined
<1>3. /\ t \in Seq(Ids(r)) /\ Len(t) = n + 1 /\ t[n + 1] = id /\ t # <<>>
      /\ \A i \in 1..n : t[i] = s[i]
  BY <1>1, <1>2
<1>4. \A i \in 1..n + 1 : i = n + 1 \/ i \in 1..n
  BY <1>1
<1>5. /\ q.head = IF n = 0 THEN 0 ELSE s[1]
      /\ q.tail = IF n = 0 THEN 0 ELSE s[n]
  BY <1>1 DEF Linked, Follows
<1>5a. \A i \in 1..n : q.slots[s[i]].next = IF i = n THEN 0 ELSE s[i + 1]
  BY DEF Linked, Follows
<1>5b. \A i \in 1..n : q.slots[s[i]].previous = IF i = 1 THEN 0 ELSE s[i - 1]
  BY DEF Linked
<1> HIDE DEF t, n
<1>6. SlotsOnce(r, t)
  BY <1>1, <1>3, <1>4 DEF SlotsOnce
<1>7. ASSUME NEW i \in 1..n
      PROVE  /\ r.slots[s[i]].next = IF i = n THEN id ELSE s[i + 1]
             /\ r.slots[s[i]].previous = IF i = 1 THEN 0 ELSE s[i - 1]
  <2>1. s[i] \in Ids(q) \ {id}
    BY <1>1
  <2>2. s[i] = q.tail <=> i = n
    <3>1. n > 0 /\ n \in 1..n /\ q.tail = s[n]
      BY <1>1, <1>5
    <3> QED
      BY <1>1, <3>1
  <2>3. /\ r.slots[s[i]].next = IF s[i] = q.tail THEN id ELSE q.slots[s[i]].next
        /\ r.slots[s[i]].previous = q.slots[s[i]].previous
    BY <2>1 DEF Joined
  <2>4. q.slots[s[i]].next = IF i = n THEN 0 ELSE s[i + 1]
    BY <1>5a
  <2>5. q.slots[s[i]].previous = IF i = 1 THEN 0 ELSE s[i - 1]
    BY <1>5b
  <2>6. r.slots[s[i]].next = IF i = n THEN id ELSE s[i + 1]
    BY <2>2, <2>3, <2>4
  <2> QED
    BY <2>3, <2>5, <2>6
<1>8. Follows(r, t, r.head)
  <2>1. r.head = t[1]
    <3>1. CASE n = 0
      BY <3>1, <1>3, <1>5 DEF Joined
    <3>2. CASE n # 0
      <4>1. 1 \in 1..n /\ n \in 1..n
        BY <1>1, <3>2
      <4> QED
        BY <4>1, <3>2, <1>1, <1>3, <1>5 DEF Joined
    <3> QED
      BY <3>1, <3>2
  <2>2. ASSUME NEW i \in 1..n + 1
        PROVE  r.slots[t[i]].next = IF i = n + 1 THEN 0 ELSE t[i + 1]
    <3>1. CASE i = n + 1
      BY <3>1, <1>3 DEF Joined
    <3>2. CASE i \in 1..n
      <4>1. i # n + 1 /\ t[i] = s[i] /\ t[i + 1] = IF i = n THEN id ELSE s[i + 1]
        BY <3>2, <1>1, <1>3
      <4> QED
        BY <3>2, <4>1, <1>7
    <3> QED
      BY <3>1, <3>2, <1>4
  <2> QED
    BY <2>1, <2>2, <1>3 DEF Follows
<1>9. ASSUME NEW i \in 1..n + 1
      PROVE  r.slots[t[i]].previous = IF i = 1 THEN 0 ELSE t[i - 1]
  <2>1. CASE i = n + 1
    <3>1. r.slots[t[i]].previous = q.tail
      BY <2>1, <1>3 DEF Joined
    <3>2. n # 0 => n \in 1..n /\ t[i - 1] = s[n]
      BY <2>1, <1>1, <1>3
    <3>3. i = 1 <=> n = 0
      BY <2>1, <1>1
    <3> QED
      BY <3>1, <3>2, <3>3, <1>5
  <2>2. CASE i \in 1..n
    <3>1. t[i] = s[i] /\ (i # 1 => t[i - 1] = s[i - 1])
      BY <2>2, <1>1, <1>3
    <3> QED
      BY <2>2, <3>1, <1>7
  <2> QED
    BY <2>1, <2>2, <1>4
<1>10. ASSUME NEW j \in Ids(r)
       PROVE  On(t, j) <=> r.slots[j].kind = "Queued"
  <2>1. CASE j = id
    <3>1. n + 1 \in 1..Len(t)
      BY <1>1, <1>3
    <3> QED
      BY <2>1, <3>1, <1>3 DEF On, Joined
  <2>2. CASE j # id
    <3>1. j \in Ids(q) \ {id}
      BY <2>2 DEF Joined
    <3>2. On(t, j) <=> On(s, j)
      <4>1. \A i \in 1..n : i \in 1..n + 1
        BY <1>1
      <4> QED
        BY <2>2, <4>1, <1>3, <1>4 DEF On, n
    <3> QED
      BY <3>1, <3>2 DEF Joined
  <2> QED
    BY <2>1, <2>2
<1>11. r.tail = t[Len(t)]
  BY <1>3 DEF Joined
<1> QED
  BY <1>3, <1>6, <1>8, <1>9, <1>10, <1>11 DEF Linked, Holds, t

\* id leaves the chain: its neighbours are linked to each other.
Parted(q, r, id) ==
    LET p == q.slots[id].previous
        n == q.slots[id].next
    IN  /\ Ids(r) = Ids(q)
        /\ r.head = IF p = Nil THEN n ELSE q.head
        /\ r.tail = IF n = Nil THEN p ELSE q.tail
        /\ r.slots[id].kind # "Queued"
        /\ \A j \in Ids(q) \ {id} :
              /\ r.slots[j].next = IF j = p THEN n ELSE q.slots[j].next
              /\ r.slots[j].previous = IF j = n THEN p ELSE q.slots[j].previous
              /\ r.slots[j].kind = q.slots[j].kind

\* The sequence s without its k-th.
Skip(s, k) == [i \in 1..Len(s) - 1 |-> IF i < k THEN s[i] ELSE s[i + 1]]

\* The places of what is left.
LEMMA SkipPlaces ==
    ASSUME NEW S, NEW s \in Seq(S), NEW k \in 1..Len(s)
    PROVE  /\ Skip(s, k) \in Seq(S) /\ Len(Skip(s, k)) = Len(s) - 1
           /\ \A i \in 1..Len(s) - 1 : Skip(s, k)[i] = IF i < k THEN s[i] ELSE s[i + 1]
<1>1. PICK m \in Nat : m = Len(s) - 1
  OBVIOUS
<1>2. Skip(s, k) = [i \in 1..m |-> IF i < k THEN s[i] ELSE s[i + 1]]
  BY <1>1 DEF Skip
<1>3. \A i \in 1..m : (IF i < k THEN s[i] ELSE s[i + 1]) \in S
  BY <1>1
<1> QED
  BY <1>1, <1>2, <1>3

\* The chain is shorter by one.
LEMMA PartedIsLinked ==
    ASSUME NEW q \in Arena, NEW r \in Arena, NEW s, NEW k \in 1..Len(s),
           Linked(q, s), Holds(q, s, "Queued"), Parted(q, r, s[k])
    PROVE  Linked(r, Skip(s, k)) /\ Holds(r, Skip(s, k), "Queued")
<1> DEFINE t == Skip(s, k)
           m == Len(s)
           id == s[k]
<1>1. /\ s \in Seq(Ids(q)) /\ m \in Nat /\ m >= 1 /\ k \in 1..m
      /\ \A i \in 1..m : s[i] \in Ids(q) /\ s[i] # 0
      /\ \A i, j \in 1..m : s[i] = s[j] => i = j
      /\ s # <<>>
  BY DEF Linked, SlotsOnce, Ids
<1>2. Ids(r) = Ids(q)
  BY DEF Parted
<1>3. /\ t \in Seq(Ids(r)) /\ Len(t) = m - 1 /\ m - 1 \in Nat
      /\ \A i \in 1..m - 1 : t[i] = IF i < k THEN s[i] ELSE s[i + 1]
  BY <1>1, <1>2, SkipPlaces
<1>4. q.head = s[1] /\ q.tail = s[m]
  BY <1>1 DEF Linked, Follows
<1>4a. \A i \in 1..m : q.slots[s[i]].next = IF i = m THEN 0 ELSE s[i + 1]
  BY DEF Linked, Follows
<1>4b. \A i \in 1..m : q.slots[s[i]].previous = IF i = 1 THEN 0 ELSE s[i - 1]
  BY DEF Linked
<1> HIDE DEF t, m
<1>5. ASSUME NEW i \in 1..m - 1
      PROVE  /\ t[i] = IF i < k THEN s[i] ELSE s[i + 1]
             /\ i \in 1..m /\ i + 1 \in 1..m /\ t[i] \in Ids(q) \ {id}
  BY <1>1, <1>3
<1>6. SlotsOnce(r, t)
  <2>1. \A i, j \in 1..m - 1 : t[i] = t[j] => i = j
    BY <1>1, <1>3, <1>5
  <2> QED
    BY <2>1, <1>3 DEF SlotsOnce
<1>7. /\ q.slots[id].previous = IF k = 1 THEN 0 ELSE s[k - 1]
      /\ q.slots[id].next = IF k = m THEN 0 ELSE s[k + 1]
  <2>1. q.slots[id].previous = IF k = 1 THEN 0 ELSE s[k - 1]
    BY <1>1, <1>4b
  <2>2. q.slots[id].next = IF k = m THEN 0 ELSE s[k + 1]
    BY <1>1, <1>4a
  <2> QED
    BY <2>1, <2>2
<1>8. ASSUME NEW i \in 1..m, i # k
      PROVE  /\ r.slots[s[i]].next = IF i = k - 1 THEN q.slots[id].next
                                     ELSE IF i = m THEN 0 ELSE s[i + 1]
             /\ r.slots[s[i]].previous = IF i = k + 1 THEN q.slots[id].previous
                                         ELSE IF i = 1 THEN 0 ELSE s[i - 1]
             /\ r.slots[s[i]].kind = q.slots[s[i]].kind
  <2>1. s[i] \in Ids(q) \ {id}
    BY <1>1, <1>8
  <2>2. s[i] = q.slots[id].previous <=> i = k - 1
    <3>1. CASE k = 1
      BY <3>1, <1>1, <1>7, <1>8
    <3>2. CASE k # 1
      <4>1. k - 1 \in 1..m /\ q.slots[id].previous = s[k - 1]
        BY <3>2, <1>1, <1>7
      <4> QED
        BY <4>1, <1>1
    <3> QED
      BY <3>1, <3>2
  <2>3. s[i] = q.slots[id].next <=> i = k + 1
    <3>1. CASE k = m
      BY <3>1, <1>1, <1>7, <1>8
    <3>2. CASE k # m
      <4>1. k + 1 \in 1..m /\ q.slots[id].next = s[k + 1]
        BY <3>2, <1>1, <1>7
      <4> QED
        BY <4>1, <1>1
    <3> QED
      BY <3>1, <3>2
  <2>4. /\ r.slots[s[i]].next = IF s[i] = q.slots[id].previous THEN q.slots[id].next
                                ELSE q.slots[s[i]].next
        /\ r.slots[s[i]].previous = IF s[i] = q.slots[id].next THEN q.slots[id].previous
                                    ELSE q.slots[s[i]].previous
        /\ r.slots[s[i]].kind = q.slots[s[i]].kind
    BY <2>1 DEF Parted
  <2>5. q.slots[s[i]].next = IF i = m THEN 0 ELSE s[i + 1]
    BY <1>4a
  <2>6. q.slots[s[i]].previous = IF i = 1 THEN 0 ELSE s[i - 1]
    BY <1>4b
  <2>7. r.slots[s[i]].next = IF i = k - 1 THEN q.slots[id].next
                             ELSE IF i = m THEN 0 ELSE s[i + 1]
    BY <2>2, <2>4, <2>5
  <2>8. r.slots[s[i]].previous = IF i = k + 1 THEN q.slots[id].previous
                                 ELSE IF i = 1 THEN 0 ELSE s[i - 1]
    BY <2>3, <2>4, <2>6
  <2> QED
    BY <2>4, <2>7, <2>8
<1>9. Follows(r, t, r.head)
  <2>1. r.head = IF t = <<>> THEN 0 ELSE t[1]
    <3>1. t = <<>> <=> m = 1
      BY <1>1, <1>3
    <3>2. CASE k = 1
      <4>1. r.head = IF m = 1 THEN 0 ELSE s[2]
        BY <3>2, <1>1, <1>7 DEF Parted
      <4>2. m # 1 => t[1] = s[2]
        BY <3>2, <1>1, <1>3
      <4> QED
        BY <3>1, <4>1, <4>2
    <3>3. CASE k # 1
      <4>1. q.slots[id].previous # 0 /\ m # 1
        BY <3>3, <1>1, <1>7
      <4>2. t[1] = s[1] /\ r.head = s[1]
        BY <3>3, <4>1, <1>1, <1>3, <1>4 DEF Parted
      <4> QED
        BY <3>1, <4>1, <4>2
    <3> QED
      BY <3>2, <3>3
  <2>2. ASSUME NEW i \in 1..m - 1
        PROVE  r.slots[t[i]].next = IF i = m - 1 THEN 0 ELSE t[i + 1]
    <3>1. CASE i < k - 1
      <4>1. i # m - 1 /\ t[i] = s[i] /\ t[i + 1] = s[i + 1] /\ i # k /\ i # m /\ i # k - 1
        BY <3>1, <1>1, <1>3
      <4> QED
        BY <4>1, <1>5, <1>8
    <3>2. CASE i = k - 1
      <4>1. /\ t[i] = s[i] /\ i # k /\ (i = m - 1 <=> k = m)
            /\ i # m - 1 => t[i + 1] = s[k + 1]
        BY <3>2, <1>1, <1>3
      <4>2. r.slots[s[i]].next = q.slots[id].next
        BY <3>2, <4>1, <1>5, <1>8
      <4> QED
        BY <4>1, <4>2, <1>7
    <3>3. CASE i >= k
      <4>1. /\ t[i] = s[i + 1] /\ i + 1 # k /\ i + 1 # k - 1 /\ (i + 1 = m <=> i = m - 1)
            /\ i # m - 1 => t[i + 1] = s[i + 2]
        BY <3>3, <1>1, <1>3
      <4>2. r.slots[s[i + 1]].next = IF i + 1 = m THEN 0 ELSE s[i + 1 + 1]
        BY <4>1, <1>5, <1>8
      <4>3. i + 1 + 1 = i + 2
        OBVIOUS
      <4> QED
        BY <4>1, <4>2, <4>3
    <3> QED
      BY <3>1, <3>2, <3>3, <1>1
  <2> QED
    BY <2>1, <2>2, <1>3 DEF Follows
<1>10. ASSUME NEW i \in 1..m - 1
       PROVE  r.slots[t[i]].previous = IF i = 1 THEN 0 ELSE t[i - 1]
  <2>1. CASE i < k
    <3>1. t[i] = s[i] /\ i # k /\ i # k + 1 /\ (i # 1 => t[i - 1] = s[i - 1])
      BY <2>1, <1>1, <1>3
    <3> QED
      BY <3>1, <1>5, <1>8
  <2>2. CASE i = k
    <3>1. /\ t[i] = s[i + 1] /\ i + 1 # k /\ i + 1 = k + 1
          /\ i # 1 => t[i - 1] = s[k - 1]
      BY <2>2, <1>1, <1>3
    <3>2. r.slots[s[i + 1]].previous = q.slots[id].previous
      BY <3>1, <1>5, <1>8
    <3> QED
      BY <2>2, <3>1, <3>2, <1>7
  <2>3. CASE i > k
    <3>1. /\ t[i] = s[i + 1] /\ i + 1 # k /\ i + 1 # k + 1 /\ i # 1 /\ i + 1 # 1
          /\ t[i - 1] = s[i] /\ i + 1 - 1 = i
      BY <2>3, <1>1, <1>3
    <3> QED
      BY <3>1, <1>5, <1>8
  <2> QED
    BY <2>1, <2>2, <2>3, <1>1
<1>11. r.tail = IF t = <<>> THEN 0 ELSE t[Len(t)]
  <2>1. t = <<>> <=> m = 1
    BY <1>1, <1>3
  <2>2. CASE k = m
    <3>1. r.tail = IF m = 1 THEN 0 ELSE s[m - 1]
      BY <2>2, <1>1, <1>7 DEF Parted
    <3>2. m # 1 => t[m - 1] = s[m - 1]
      BY <2>2, <1>1, <1>3
    <3> QED
      BY <2>1, <3>1, <3>2, <1>3
  <2>3. CASE k # m
    <3>1. q.slots[id].next # 0 /\ m # 1
      BY <2>3, <1>1, <1>7
    <3>2. t[m - 1] = s[m] /\ r.tail = s[m]
      BY <2>3, <3>1, <1>1, <1>3, <1>4 DEF Parted
    <3> QED
      BY <2>1, <3>1, <3>2, <1>3
  <2> QED
    BY <2>2, <2>3
<1>12. ASSUME NEW j \in Ids(r)
       PROVE  On(t, j) <=> r.slots[j].kind = "Queued"
  <2>1. CASE j = id
    <3>1. ~On(t, j)
      BY <2>1, <1>3, <1>5 DEF On
    <3> QED
      BY <2>1, <3>1 DEF Parted
  <2>2. CASE j # id
    <3>1. On(t, j) => On(s, j)
      BY <1>3, <1>5 DEF On, m
    <3>2. ASSUME NEW i \in 1..m, s[i] = j
          PROVE  On(t, j)
      <4>1. CASE i < k
        <5>1. i \in 1..m - 1 /\ t[i] = s[i]
          BY <4>1, <1>1, <1>3
        <5> QED
          BY <5>1, <3>2, <1>3 DEF On
      <4>2. CASE i > k
        <5>1. i - 1 \in 1..m - 1 /\ t[i - 1] = s[i]
          BY <4>2, <1>1, <1>3
        <5> QED
          BY <5>1, <3>2, <1>3 DEF On
      <4> QED
        BY <4>1, <4>2, <3>2, <2>2, <1>1
    <3>3. On(s, j) <=> q.slots[j].kind = "Queued"
      BY <1>2 DEF Holds
    <3>4. r.slots[j].kind = q.slots[j].kind
      BY <2>2, <1>2 DEF Parted
    <3> QED
      BY <3>1, <3>2, <3>3, <3>4 DEF On, m
  <2> QED
    BY <2>1, <2>2
<1> QED
  BY <1>3, <1>6, <1>9, <1>10, <1>11, <1>12 DEF Linked, Holds, t

-----------------------------------------------------------------------------
\* One place of a sequence is overwritten.
LEMMA Overwritten ==
    ASSUME NEW S, NEW s \in Seq(S), NEW i \in 1..Len(s), NEW x \in S
    PROVE  /\ [s EXCEPT ![i] = x] \in Seq(S)
           /\ Len([s EXCEPT ![i] = x]) = Len(s)
           /\ \A j \in 1..Len(s) : [s EXCEPT ![i] = x][j] = IF j = i THEN x ELSE s[j]
<1>1. PICK n \in Nat : n = Len(s)
  OBVIOUS
<1>2. s \in [1..n -> S] /\ i \in 1..n
  BY <1>1
<1>3. [s EXCEPT ![i] = x] \in [1..n -> S]
  BY <1>2
<1>4. [s EXCEPT ![i] = x] \in Seq(S) /\ Len([s EXCEPT ![i] = x]) = n
  BY <1>3
<1> QED
  BY <1>1, <1>2, <1>4

\* r has the slots of q, but for x in the slot id.
Put(q, r, id, x) ==
    /\ r \in Arena /\ Len(r.slots) = Len(q.slots)
    /\ \A j \in Ids(q) : r.slots[j] = IF j = id THEN x ELSE q.slots[j]

\* One slot is written.
LEMMA PutSlot ==
    ASSUME NEW q \in Arena, NEW id \in Ids(q), NEW x \in ArenaSlot
    PROVE  /\ Put(q, [q EXCEPT !.slots[id] = x], id, x)
           /\ [q EXCEPT !.slots[id] = x].free = q.free
           /\ [q EXCEPT !.slots[id] = x].head = q.head
           /\ [q EXCEPT !.slots[id] = x].tail = q.tail
<1>1. q.slots \in Seq(ArenaSlot) /\ id \in 1..Len(q.slots)
  BY DEF Arena, Ids
<1> DEFINE t == [q.slots EXCEPT ![id] = x]
<1>2. /\ t \in Seq(ArenaSlot) /\ Len(t) = Len(q.slots)
      /\ \A j \in Ids(q) : t[j] = IF j = id THEN x ELSE q.slots[j]
  BY <1>1, Overwritten DEF Ids
<1> HIDE DEF t
<1>3. [q EXCEPT !.slots[id] = x] = [q EXCEPT !.slots = t]
  BY DEF t
<1>4. [q EXCEPT !.slots = t] \in Arena /\ [q EXCEPT !.slots = t].slots = t
  BY <1>2 DEF Arena
<1>5. /\ [q EXCEPT !.slots = t].free = q.free
      /\ [q EXCEPT !.slots = t].head = q.head
      /\ [q EXCEPT !.slots = t].tail = q.tail
  BY DEF Arena
<1>6. Put(q, [q EXCEPT !.slots = t], id, x)
  BY <1>2, <1>4 DEF Put
<1> QED
  BY <1>3, <1>5, <1>6

\* The fields of a slot.
LEMMA SlotFields ==
    ASSUME NEW q \in Arena, NEW id \in Ids(q)
    PROVE  /\ q.slots[id] \in ArenaSlot
           /\ q.slots[id].previous \in Nat /\ q.slots[id].next \in Nat
           /\ q.slots[id].kind \in {"Free", "Queued", "One", "All"}
           /\ q.slots[id].waker \in Wakers \cup {NoWaker}
<1>1. q.slots[id] \in ArenaSlot
  BY DEF Arena, Ids
<1> QED
  BY <1>1 DEF ArenaSlot

\* What enqueue writes.
LEMMA EnqueueWrites ==
    ASSUME NEW q \in Arena, NEW id \in Ids(q), q.tail \in Ids(q) \cup {Nil}, q.tail # id
    PROVE  LET r == enqueue(q, id)
           IN  /\ r \in Arena /\ Len(r.slots) = Len(q.slots) /\ r.free = q.free
               /\ r.tail = id /\ r.head = IF q.tail = Nil THEN id ELSE q.head
               /\ r.slots[id] = [q.slots[id] EXCEPT !.previous = q.tail, !.next = Nil,
                                                    !.kind = "Queued"]
               /\ \A j \in Ids(q) \ {id} :
                     r.slots[j] = IF j = q.tail THEN [q.slots[j] EXCEPT !.next = id]
                                  ELSE q.slots[j]
<1> DEFINE x == [q.slots[id] EXCEPT !.previous = q.tail, !.next = Nil, !.kind = "Queued"]
           t == [q.slots EXCEPT ![id] = x]
<1>1. q.slots \in Seq(ArenaSlot) /\ id \in 1..Len(q.slots) /\ q.tail \in Nat /\ id \in Nat
  BY DEF Arena, Ids
<1>2. x \in ArenaSlot
  BY <1>1, SlotFields DEF ArenaSlot
<1>3. [q.slots EXCEPT ![id].previous = q.tail, ![id].next = Nil, ![id].kind = "Queued"] = t
  <2>1. id \in DOMAIN q.slots
    BY <1>1
  <2> QED
    BY <1>1, <2>1
<1> HIDE DEF x
<1>4. /\ t \in Seq(ArenaSlot) /\ Len(t) = Len(q.slots)
      /\ \A j \in Ids(q) : t[j] = IF j = id THEN x ELSE q.slots[j]
  BY <1>1, <1>2, Overwritten DEF Ids
<1> HIDE DEF t
<1>5. CASE q.tail # Nil
  <2> DEFINE y == [t[q.tail] EXCEPT !.next = id]
             u == [t EXCEPT ![q.tail] = y]
  <2>1. t[q.tail] = q.slots[q.tail] /\ q.tail \in Ids(q) /\ q.tail \in 1..Len(t)
    BY <1>4, <1>5 DEF Ids
  <2>2. y \in ArenaSlot
    <3>1. q.slots[q.tail] \in ArenaSlot
      BY <2>1, SlotFields
    <3> QED
      BY <1>1, <2>1, <3>1 DEF ArenaSlot
  <2>2a. y = [q.slots[q.tail] EXCEPT !.next = id]
    BY <2>1
  <2>3. enqueue(q, id) = [q EXCEPT !.slots = u, !.tail = id]
    BY <1>3, <1>5 DEF enqueue
  <2> HIDE DEF y
  <2>4. /\ u \in Seq(ArenaSlot) /\ Len(u) = Len(q.slots)
        /\ \A j \in Ids(q) : u[j] = IF j = q.tail THEN y ELSE t[j]
    BY <1>4, <2>1, <2>2, Overwritten DEF Ids
  <2> HIDE DEF u
  <2>5. LET r == enqueue(q, id)
        IN  r \in Arena /\ r.slots = u /\ r.free = q.free /\ r.tail = id /\ r.head = q.head
    BY <1>1, <2>3, <2>4 DEF Arena
  <2>6. /\ u[id] = x
        /\ \A j \in Ids(q) \ {id} : u[j] = IF j = q.tail THEN [q.slots[j] EXCEPT !.next = id]
                                           ELSE q.slots[j]
    BY <1>4, <2>1, <2>2a, <2>4
  <2> QED
    BY <1>5, <2>4, <2>5, <2>6 DEF x
<1>6. CASE q.tail = Nil
  <2>1. enqueue(q, id) = [q EXCEPT !.slots = t, !.head = id, !.tail = id]
    BY <1>3, <1>6 DEF enqueue
  <2>2. LET r == enqueue(q, id)
        IN  r \in Arena /\ r.slots = t /\ r.free = q.free /\ r.tail = id /\ r.head = id
    BY <1>1, <2>1, <1>4 DEF Arena
  <2>3. \A j \in Ids(q) : j # q.tail
    BY <1>6 DEF Ids
  <2> QED
    BY <1>4, <1>6, <2>2, <2>3 DEF x
<1> QED
  BY <1>5, <1>6

\* What allocate writes.
LEMMA AllocateWrites ==
    ASSUME NEW q \in Arena, q.free \in Ids(q) \cup {Nil},
           NEW id, id = IF q.free # Nil THEN q.free ELSE Len(q.slots) + 1
    PROVE  LET r == allocate(q)
           IN  /\ r \in Arena /\ Ids(r) = Ids(q) \cup {id} /\ r.head = q.head /\ r.tail = q.tail
               /\ r.free = IF q.free # Nil THEN q.slots[q.free].next ELSE Nil
               /\ Len(r.slots) = IF q.free # Nil THEN Len(q.slots) ELSE Len(q.slots) + 1
               /\ r.slots[id] = Fresh
               /\ \A j \in Ids(q) \ {id} : r.slots[j] = q.slots[j]
<1>1. q.slots \in Seq(ArenaSlot) /\ Len(q.slots) \in Nat
  BY DEF Arena
<1>2. Fresh \in ArenaSlot
  BY DEF Fresh, ArenaSlot
<1>3. CASE q.free # Nil
  <2> DEFINE t == [q.slots EXCEPT ![q.free] = Fresh]
             n == q.slots[q.free].next
  <2>1. q.free \in 1..Len(q.slots) /\ id = q.free /\ n \in Nat
    BY <1>3, SlotFields DEF Ids
  <2>2. /\ t \in Seq(ArenaSlot) /\ Len(t) = Len(q.slots)
        /\ \A j \in 1..Len(q.slots) : t[j] = IF j = q.free THEN Fresh ELSE q.slots[j]
    BY <1>1, <1>2, <2>1, Overwritten
  <2>3. allocate(q) = [q EXCEPT !.free = n, !.slots = t]
    BY <1>3 DEF allocate, Arena
  <2> HIDE DEF t, n
  <2>4. LET r == allocate(q)
        IN  r \in Arena /\ r.slots = t /\ r.free = n /\ r.head = q.head /\ r.tail = q.tail
    BY <2>1, <2>2, <2>3 DEF Arena
  <2>5. Ids(allocate(q)) = Ids(q) \cup {id}
    BY <2>1, <2>2, <2>4 DEF Ids
  <2> QED
    BY <1>3, <2>1, <2>2, <2>4, <2>5 DEF Ids, n
<1>4. CASE q.free = Nil
  <2> DEFINE t == Append(q.slots, Fresh)
  <2>1. /\ t \in Seq(ArenaSlot) /\ Len(t) = Len(q.slots) + 1 /\ id = Len(q.slots) + 1
        /\ t[id] = Fresh /\ \A j \in 1..Len(q.slots) : t[j] = q.slots[j]
    BY <1>1, <1>2, <1>4
  <2>2. allocate(q) = [q EXCEPT !.slots = t]
    BY <1>4 DEF allocate
  <2> HIDE DEF t
  <2>3. LET r == allocate(q)
        IN  r \in Arena /\ r.slots = t /\ r.free = q.free /\ r.head = q.head /\ r.tail = q.tail
    BY <2>1, <2>2 DEF Arena
  <2>4. 1..Len(q.slots) + 1 = 1..Len(q.slots) \cup {Len(q.slots) + 1}
    BY <1>1
  <2>5. Ids(allocate(q)) = Ids(q) \cup {id}
    BY <2>1, <2>3, <2>4 DEF Ids
  <2> QED
    BY <1>4, <2>1, <2>3, <2>5 DEF Ids
<1> QED
  BY <1>3, <1>4

\* r is q with the slot id unlinked from its neighbours p and n.
Unlinked(q, r, id, p, n) ==
    /\ r \in Arena /\ Len(r.slots) = Len(q.slots) /\ r.free = q.free
    /\ r.head = IF p = Nil THEN n ELSE q.head
    /\ r.tail = IF n = Nil THEN p ELSE q.tail
    /\ r.slots[id] = [q.slots[id] EXCEPT !.previous = Nil, !.next = Nil]
    /\ \A j \in Ids(q) \ {id} :
          /\ r.slots[j].next = IF j = p THEN n ELSE q.slots[j].next
          /\ r.slots[j].previous = IF j = n THEN p ELSE q.slots[j].previous
          /\ r.slots[j].kind = q.slots[j].kind
          /\ r.slots[j].waker = q.slots[j].waker

\* What unlink writes.
LEMMA UnlinkWrites ==
    ASSUME NEW q \in Arena, NEW id \in Ids(q), NEW p, NEW n,
           p = q.slots[id].previous, n = q.slots[id].next,
           p \in Ids(q) \cup {Nil}, n \in Ids(q) \cup {Nil}, p # id, n # id
    PROVE  Unlinked(q, unlink(q, id), id, p, n)
<1> DEFINE left  == IF p # Nil THEN [q EXCEPT !.slots[p].next = n] ELSE [q EXCEPT !.head = n]
           right == IF n # Nil THEN [left EXCEPT !.slots[n].previous = p]
                    ELSE [left EXCEPT !.tail = p]
           last  == [right EXCEPT !.slots[id].previous = Nil, !.slots[id].next = Nil]
<1>1. unlink(q, id) = last
  BY DEF unlink
<1>2. p \in Nat /\ n \in Nat /\ \A j \in Ids(q) : q.slots[j] \in ArenaSlot
  BY SlotFields DEF Ids
<1>3. /\ left \in Arena /\ Len(left.slots) = Len(q.slots) /\ left.free = q.free
      /\ left.head = (IF p = Nil THEN n ELSE q.head) /\ left.tail = q.tail
      /\ \A j \in Ids(q) : left.slots[j] = IF j = p THEN [q.slots[j] EXCEPT !.next = n]
                                           ELSE q.slots[j]
  <2>1. CASE p # Nil
    <3> DEFINE x == [q.slots[p] EXCEPT !.next = n]
    <3>1. x \in ArenaSlot
      BY <1>2, <2>1 DEF ArenaSlot
    <3>2. left = [q EXCEPT !.slots[p] = x]
      BY <2>1
    <3>3. p \in Ids(q)
      BY <2>1
    <3> HIDE DEF x, left
    <3>4. /\ Put(q, left, p, x) /\ left.free = q.free /\ left.head = q.head
          /\ left.tail = q.tail
      BY <3>1, <3>2, <3>3, PutSlot
    <3> QED
      BY <2>1, <3>4 DEF Put, x
  <2>2. CASE p = Nil
    <3>1. left = [q EXCEPT !.head = n]
      BY <2>2
    <3> HIDE DEF left
    <3>2. /\ left \in Arena /\ left.slots = q.slots /\ left.free = q.free
          /\ left.head = n /\ left.tail = q.tail
      BY <3>1, <1>2 DEF Arena
    <3>3. \A j \in Ids(q) : j # p
      BY <2>2 DEF Ids
    <3> QED
      BY <2>2, <3>2, <3>3
  <2> QED
    BY <2>1, <2>2
<1> HIDE DEF left
<1>4. Ids(left) = Ids(q)
  BY <1>3 DEF Ids
<1>5. \A j \in Ids(q) : left.slots[j] \in ArenaSlot
  BY <1>3, <1>4, SlotFields
<1>6. /\ right \in Arena /\ Len(right.slots) = Len(q.slots) /\ right.free = q.free
      /\ right.head = left.head /\ right.tail = (IF n = Nil THEN p ELSE q.tail)
      /\ \A j \in Ids(q) : right.slots[j] = IF j = n THEN [left.slots[j] EXCEPT !.previous = p]
                                            ELSE left.slots[j]
  <2>1. CASE n # Nil
    <3> DEFINE x == [left.slots[n] EXCEPT !.previous = p]
    <3>1. x \in ArenaSlot
      BY <1>2, <1>5, <2>1 DEF ArenaSlot
    <3>2. right = [left EXCEPT !.slots[n] = x]
      BY <2>1
    <3>3. n \in Ids(left)
      BY <1>4, <2>1
    <3> HIDE DEF x, right
    <3>4. /\ Put(left, right, n, x) /\ right.free = left.free /\ right.head = left.head
          /\ right.tail = left.tail
      BY <1>3, <3>1, <3>2, <3>3, PutSlot
    <3> QED
      BY <2>1, <3>4, <1>3, <1>4 DEF Put, x
  <2>2. CASE n = Nil
    <3>1. right = [left EXCEPT !.tail = p]
      BY <2>2
    <3> HIDE DEF right
    <3>2. /\ right \in Arena /\ right.slots = left.slots /\ right.free = left.free
          /\ right.head = left.head /\ right.tail = p
      BY <3>1, <1>2, <1>3 DEF Arena
    <3>3. \A j \in Ids(q) : j # n
      BY <2>2 DEF Ids
    <3> QED
      BY <2>2, <3>2, <3>3, <1>3
  <2> QED
    BY <2>1, <2>2
<1> HIDE DEF right
<1>7. Ids(right) = Ids(q)
  BY <1>6 DEF Ids
<1> DEFINE x == [right.slots[id] EXCEPT !.previous = Nil, !.next = Nil]
<1>8. right.slots[id] = q.slots[id] /\ right.slots[id] \in ArenaSlot
  BY <1>2, <1>3, <1>6
<1>9. x \in ArenaSlot
  BY <1>8 DEF ArenaSlot
<1>10. last = [right EXCEPT !.slots[id] = x]
  <2>1. right.slots \in Seq(ArenaSlot) /\ id \in DOMAIN right.slots
    BY <1>6, <1>7 DEF Arena, Ids
  <2> QED
    BY <1>6, <2>1 DEF Arena
<1> HIDE DEF last, x
<1>11. /\ Put(right, last, id, x) /\ last.free = right.free /\ last.head = right.head
       /\ last.tail = right.tail
  BY <1>6, <1>7, <1>9, <1>10, PutSlot
<1>12. ASSUME NEW j \in Ids(q) \ {id}
       PROVE  /\ last.slots[j].next = IF j = p THEN n ELSE q.slots[j].next
              /\ last.slots[j].previous = IF j = n THEN p ELSE q.slots[j].previous
              /\ last.slots[j].kind = q.slots[j].kind
              /\ last.slots[j].waker = q.slots[j].waker
  <2>1. last.slots[j] = right.slots[j]
    BY <1>7, <1>11 DEF Put
  <2>2. /\ right.slots[j] = IF j = n THEN [left.slots[j] EXCEPT !.previous = p] ELSE left.slots[j]
        /\ left.slots[j] = IF j = p THEN [q.slots[j] EXCEPT !.next = n] ELSE q.slots[j]
        /\ left.slots[j] \in ArenaSlot /\ q.slots[j] \in ArenaSlot
    BY <1>2, <1>3, <1>5, <1>6
  <2>3. /\ left.slots[j].next = IF j = p THEN n ELSE q.slots[j].next
        /\ left.slots[j].previous = q.slots[j].previous
        /\ left.slots[j].kind = q.slots[j].kind
        /\ left.slots[j].waker = q.slots[j].waker
    BY <2>2 DEF ArenaSlot
  <2>4. /\ right.slots[j].next = left.slots[j].next
        /\ right.slots[j].previous = IF j = n THEN p ELSE left.slots[j].previous
        /\ right.slots[j].kind = left.slots[j].kind
        /\ right.slots[j].waker = left.slots[j].waker
    BY <2>2 DEF ArenaSlot
  <2> QED
    BY <2>1, <2>3, <2>4
<1>13. last.slots[id] = [q.slots[id] EXCEPT !.previous = Nil, !.next = Nil]
  BY <1>7, <1>8, <1>11 DEF Put, x
<1> QED
  BY <1>1, <1>3, <1>6, <1>11, <1>12, <1>13 DEF Put, Unlinked

-----------------------------------------------------------------------------
\* A live slot is the registration of exactly one future.
OwnedOnce(q, reg) ==
    /\ reg \in [Waiters -> Nat]
    /\ \A f \in Waiters : reg[f] \in Ids(q) \cup {Nil}
    /\ \A f, g \in Waiters : reg[f] = reg[g] => f = g \/ reg[f] = Nil
    /\ \A id \in Ids(q) : (\E f \in Waiters : reg[f] = id) <=> q.slots[id].kind # "Free"

\* The chain s and the free list fr share out the slots the futures do not hold.
Shared(q, reg, s, fr) ==
    /\ q \in Arena /\ OwnedOnce(q, reg)
    /\ Linked(q, s) /\ Holds(q, s, "Queued")
    /\ FreeList(q, fr) /\ Holds(q, fr, "Free")
    /\ Len(q.slots) <= Cardinality(Waiters)

\* Where the chain and the free list begin and end.
LEMMA Ends ==
    ASSUME NEW q, NEW reg, NEW s, NEW fr, Shared(q, reg, s, fr)
    PROVE  /\ q.head \in Ids(q) \cup {Nil} /\ q.tail \in Ids(q) \cup {Nil}
           /\ q.free \in Ids(q) \cup {Nil}
           /\ q.tail # Nil => q.slots[q.tail].kind = "Queued"
           /\ q.free # Nil => q.slots[q.free].kind = "Free" /\ fr # <<>> /\ q.free = fr[1]
           /\ q.free = Nil => fr = <<>>
           /\ q.head = IF s = <<>> THEN Nil ELSE s[1]
<1>1. /\ s \in Seq(Ids(q)) /\ Len(s) \in Nat /\ \A i \in 1..Len(s) : s[i] \in Ids(q)
      /\ fr \in Seq(Ids(q)) /\ Len(fr) \in Nat /\ \A i \in 1..Len(fr) : fr[i] \in Ids(q)
  BY DEF Shared, Linked, FreeList, SlotsOnce
<1>2. /\ s # <<>> => 1 \in 1..Len(s) /\ Len(s) \in 1..Len(s)
      /\ fr # <<>> => 1 \in 1..Len(fr)
  BY <1>1
<1>3. /\ q.head = IF s = <<>> THEN Nil ELSE s[1]
      /\ q.tail = IF s = <<>> THEN Nil ELSE s[Len(s)]
      /\ q.free = IF fr = <<>> THEN Nil ELSE fr[1]
  BY DEF Shared, Linked, FreeList, Follows
<1>4. \A id \in Ids(q) : id # 0
  BY DEF Ids
<1>5. /\ s # <<>> => On(s, s[Len(s)])
      /\ fr # <<>> => On(fr, fr[1])
  BY <1>2 DEF On
<1>6. /\ \A id \in Ids(q) : On(s, id) <=> q.slots[id].kind = "Queued"
      /\ \A id \in Ids(q) : On(fr, id) <=> q.slots[id].kind = "Free"
  BY DEF Shared, Holds
<1>7. fr # <<>> => fr[1] \in Ids(q) /\ fr[1] # 0 /\ q.slots[fr[1]].kind = "Free"
  BY <1>1, <1>2, <1>4, <1>5, <1>6
<1>8. s # <<>> => /\ s[1] \in Ids(q) /\ s[Len(s)] \in Ids(q)
                  /\ q.slots[s[Len(s)]].kind = "Queued"
  BY <1>1, <1>2, <1>5, <1>6
<1>9. /\ q.free \in Ids(q) \cup {Nil}
      /\ q.free # Nil => q.slots[q.free].kind = "Free" /\ fr # <<>> /\ q.free = fr[1]
      /\ q.free = Nil => fr = <<>>
  BY <1>3, <1>7
<1>10. /\ q.head \in Ids(q) \cup {Nil} /\ q.tail \in Ids(q) \cup {Nil}
       /\ q.tail # Nil => q.slots[q.tail].kind = "Queued"
  BY <1>3, <1>8
<1> QED
  BY <1>3, <1>9, <1>10

\* The free list is as it was.
LEMMA FreeKept ==
    ASSUME NEW q, NEW r, NEW s, FreeList(q, s), Ids(q) \subseteq Ids(r), r.free = q.free,
           \A j \in Ids(q) : On(s, j) => r.slots[j].next = q.slots[j].next
    PROVE  FreeList(r, s)
<1>1. s \in Seq(Ids(q)) /\ \A i \in 1..Len(s) : s[i] \in Ids(q) /\ On(s, s[i])
  BY DEF FreeList, SlotsOnce, On
<1>2. s \in Seq(Ids(r))
  BY <1>1
<1>3. SlotsOnce(r, s)
  BY <1>2 DEF FreeList, SlotsOnce
<1>4. \A i \in 1..Len(s) : r.slots[s[i]].next = IF i = Len(s) THEN Nil ELSE s[i + 1]
  BY <1>1 DEF FreeList, Follows
<1> QED
  BY <1>3, <1>4 DEF FreeList, Follows

\* Its first slot is taken.
LEMMA FreeTaken ==
    ASSUME NEW q, NEW r, NEW s, FreeList(q, s), s # <<>>, Ids(q) = Ids(r),
           r.free = q.slots[q.free].next,
           \A j \in Ids(q) \ {q.free} : On(s, j) => r.slots[j].next = q.slots[j].next
    PROVE  /\ FreeList(r, Skip(s, 1))
           /\ \A j \in Ids(q) : On(Skip(s, 1), j) <=> On(s, j) /\ j # q.free
<1> DEFINE t == Skip(s, 1)
           n == Len(s)
<1>1. /\ s \in Seq(Ids(q)) /\ n \in Nat /\ n >= 1 /\ 1 \in 1..n
      /\ \A i \in 1..n : s[i] \in Ids(q) /\ On(s, s[i])
      /\ \A i, j \in 1..n : s[i] = s[j] => i = j
  BY DEF FreeList, SlotsOnce, On
<1>2. q.free = s[1] /\ \A i \in 1..n : q.slots[s[i]].next = IF i = n THEN 0 ELSE s[i + 1]
  BY DEF FreeList, Follows
<1>3. /\ t \in Seq(Ids(r)) /\ Len(t) = n - 1
      /\ \A i \in 1..n - 1 : t[i] = IF i < 1 THEN s[i] ELSE s[i + 1]
  BY <1>1, SkipPlaces
<1>4. \A i \in 1..n - 1 : i \in 1..n /\ i + 1 \in 1..n /\ t[i] = s[i + 1]
  BY <1>1, <1>3
<1> HIDE DEF t, n
<1>5. SlotsOnce(r, t)
  BY <1>1, <1>3, <1>4 DEF SlotsOnce
<1>6. r.free = IF t = <<>> THEN 0 ELSE t[1]
  <2>1. t = <<>> <=> n = 1
    BY <1>1, <1>3
  <2>2. q.slots[q.free].next = IF 1 = n THEN 0 ELSE s[2]
    BY <1>1, <1>2
  <2>3. n # 1 => t[1] = s[2]
    BY <1>1, <1>4
  <2> QED
    BY <2>1, <2>2, <2>3
<1>7. ASSUME NEW i \in 1..n - 1
      PROVE  r.slots[t[i]].next = IF i = n - 1 THEN 0 ELSE t[i + 1]
  <2>0. n \in Nat
    BY <1>1
  <2>1. t[i] = s[i + 1] /\ i + 1 \in 1..n /\ i + 1 # 1 /\ (i + 1 = n <=> i = n - 1)
    BY ONLY <2>0, <1>4, i \in 1..n - 1
  <2>2. s[i + 1] \in Ids(q) \ {q.free} /\ On(s, s[i + 1])
    BY <1>1, <1>2, <2>1
  <2>3. r.slots[s[i + 1]].next = q.slots[s[i + 1]].next
    BY <2>2
  <2>4. q.slots[s[i + 1]].next = IF i + 1 = n THEN 0 ELSE s[i + 1 + 1]
    BY <1>2, <2>1
  <2>5. i # n - 1 => t[i + 1] = s[i + 1 + 1]
    BY <1>1, <1>4
  <2> QED
    BY <2>1, <2>3, <2>4, <2>5
<1>8. ASSUME NEW j \in Ids(q)
      PROVE  On(t, j) <=> On(s, j) /\ j # q.free
  <2>1. ASSUME NEW i \in 1..n, s[i] = j, j # q.free
        PROVE  On(t, j)
    <3>1. i - 1 \in 1..n - 1 /\ t[i - 1] = s[i]
      BY <2>1, <1>1, <1>2, <1>4
    <3> QED
      BY <2>1, <3>1, <1>3 DEF On
  <2>2. ASSUME NEW i \in 1..n - 1, t[i] = j
        PROVE  On(s, j) /\ j # q.free
    <3>1. i + 1 \in 1..n /\ s[i + 1] = j /\ i + 1 # 1
      BY <2>2, <1>4
    <3> QED
      BY <3>1, <1>1, <1>2
  <2> QED
    BY <2>1, <2>2, <1>3 DEF On, n
<1>9. Follows(r, t, r.free)
  BY <1>3, <1>6, <1>7 DEF Follows
<1> QED
  BY <1>5, <1>8, <1>9 DEF FreeList, t

\* The sequence s behind id.
Before(id, s) == [i \in 1..Len(s) + 1 |-> IF i = 1 THEN id ELSE s[i - 1]]

\* r links the slots of s other than id as q does.
NextKept(q, r, s, id) ==
    \A j \in Ids(q) \ {id} : On(s, j) => r.slots[j].next = q.slots[j].next

\* A slot is put in front.
LEMMA FreeGiven ==
    ASSUME NEW q, NEW r, NEW s, NEW id \in Ids(q), FreeList(q, s), ~On(s, id), Ids(q) = Ids(r),
           r.free = id, r.slots[id].next = q.free, NextKept(q, r, s, id)
    PROVE  /\ FreeList(r, Before(id, s))
           /\ \A j \in Ids(q) : On(Before(id, s), j) <=> On(s, j) \/ j = id
<1> DEFINE t == Before(id, s)
           n == Len(s)
<1>1. /\ s \in Seq(Ids(q)) /\ n \in Nat
      /\ \A i \in 1..n : s[i] \in Ids(q) /\ On(s, s[i]) /\ s[i] # id
      /\ \A i, j \in 1..n : s[i] = s[j] => i = j
  BY DEF FreeList, SlotsOnce, On
<1>2. /\ q.free = IF s = <<>> THEN 0 ELSE s[1]
      /\ \A i \in 1..n : q.slots[s[i]].next = IF i = n THEN 0 ELSE s[i + 1]
  BY DEF FreeList, Follows
<1>3. /\ t \in Seq(Ids(r)) /\ Len(t) = n + 1
      /\ \A i \in 1..n + 1 : t[i] = IF i = 1 THEN id ELSE s[i - 1]
  <2>1. PICK m \in Nat : m = n + 1
    BY <1>1
  <2>2. t = [i \in 1..m |-> IF i = 1 THEN id ELSE s[i - 1]]
    BY <2>1 DEF Before
  <2>3. \A i \in 1..m : (IF i = 1 THEN id ELSE s[i - 1]) \in Ids(r)
    BY <1>1, <2>1
  <2> QED
    BY <2>1, <2>2, <2>3
<1>4. t[1] = id /\ t # <<>> /\ \A i \in 1..n : i + 1 \in 1..n + 1 /\ t[i + 1] = s[i]
  BY <1>1, <1>3
<1>5. \A i \in 1..n + 1 : i = 1 \/ (i - 1 \in 1..n /\ i - 1 + 1 = i)
  BY <1>1
<1> HIDE DEF t, n
<1>6. \A i, j \in 1..n + 1 : t[i] = t[j] => i = j
  <2>1. SUFFICES ASSUME NEW i \in 1..n + 1, NEW j \in 1..n + 1, t[i] = t[j] PROVE i = j
    OBVIOUS
  <2>2. CASE i = 1 /\ j # 1
    BY <2>1, <2>2, <1>1, <1>3, <1>5
  <2>3. CASE i # 1 /\ j = 1
    BY <2>1, <2>3, <1>1, <1>3, <1>5
  <2>4. CASE i # 1 /\ j # 1
    <3>1. i - 1 \in 1..n /\ j - 1 \in 1..n /\ s[i - 1] = s[j - 1]
      BY <2>1, <2>4, <1>3, <1>5
    <3>2. i - 1 = j - 1
      BY <3>1, <1>1
    <3> QED
      BY <3>2
  <2> QED
    BY <2>2, <2>3, <2>4
<1>7. SlotsOnce(r, t)
  BY <1>3, <1>6 DEF SlotsOnce
<1>8. ASSUME NEW i \in 1..n + 1
      PROVE  r.slots[t[i]].next = IF i = n + 1 THEN 0 ELSE t[i + 1]
  <2>1. CASE i = 1
    <3>1. r.slots[t[i]].next = IF s = <<>> THEN 0 ELSE s[1]
      BY <2>1, <1>2, <1>4
    <3>2. s = <<>> <=> n = 0
      BY <1>1 DEF n
    <3>3. n # 0 => 1 \in 1..n /\ t[2] = s[1]
      BY <1>1, <1>4
    <3>4. i + 1 = 2 /\ (i = n + 1 <=> n = 0)
      BY <2>1, <1>1
    <3> QED
      BY <3>1, <3>2, <3>3, <3>4
  <2>2. CASE i # 1
    <3> DEFINE k == i - 1
    <3>1. k \in 1..n /\ t[i] = s[k] /\ (k = n <=> i = n + 1)
      BY <2>2, <1>1, <1>3
    <3>2. i # n + 1 => t[i + 1] = s[k + 1]
      BY <2>2, <1>1, <1>4
    <3> HIDE DEF k
    <3>3. s[k] \in Ids(q) \ {id} /\ On(s, s[k])
      BY <3>1, <1>1
    <3>4. r.slots[s[k]].next = IF k = n THEN 0 ELSE s[k + 1]
      <4>1. r.slots[s[k]].next = q.slots[s[k]].next
        BY <3>3 DEF NextKept
      <4> QED
        BY ONLY <3>1, <4>1, <1>2
    <3> QED
      BY <3>1, <3>2, <3>4
  <2> QED
    BY <2>1, <2>2
<1>9. ASSUME NEW j \in Ids(q)
      PROVE  On(t, j) <=> On(s, j) \/ j = id
  <2>1. ASSUME NEW i \in 1..n, s[i] = j
        PROVE  On(t, j)
    BY <2>1, <1>3, <1>4 DEF On
  <2>2. 1 \in 1..n + 1
    BY <1>1
  <2>3. j = id => On(t, j)
    BY <2>2, <1>3, <1>4 DEF On
  <2>4. ASSUME NEW i \in 1..n + 1, t[i] = j, j # id
        PROVE  On(s, j)
    BY <2>4, <1>1, <1>3, <1>5
  <2> QED
    BY <2>1, <2>3, <2>4, <1>3 DEF On, n
<1>10. Follows(r, t, r.free)
  BY <1>3, <1>4, <1>8 DEF Follows
<1> QED
  BY <1>7, <1>9, <1>10 DEF FreeList, t

-----------------------------------------------------------------------------
\* The slots are linked as they were.
LEMMA SameLinks ==
    ASSUME NEW q, NEW r \in Arena, NEW reg, NEW s, NEW fr, Shared(q, reg, s, fr),
           Len(r.slots) = Len(q.slots), r.free = q.free, r.head = q.head, r.tail = q.tail,
           \A j \in Ids(q) : /\ r.slots[j].next = q.slots[j].next
                             /\ r.slots[j].previous = q.slots[j].previous
                             /\ r.slots[j].kind = q.slots[j].kind
    PROVE  Shared(r, reg, s, fr)
<1>1. Ids(r) = Ids(q)
  BY DEF Ids
<1>2. s \in Seq(Ids(q)) /\ \A i \in 1..Len(s) : s[i] \in Ids(q)
  BY DEF Shared, Linked, SlotsOnce
<1>3. FreeList(r, fr)
  BY <1>1, FreeKept DEF Shared
<1>4. Holds(r, s, "Queued") /\ Holds(r, fr, "Free")
  BY <1>1 DEF Shared, Holds
<1>5. OwnedOnce(r, reg)
  BY <1>1 DEF Shared, OwnedOnce
<1>6. Follows(r, s, r.head)
  BY <1>2 DEF Shared, Linked, Follows
<1>7. \A i \in 1..Len(s) : r.slots[s[i]].previous = IF i = 1 THEN Nil ELSE s[i - 1]
  BY <1>2 DEF Shared, Linked
<1>8. Linked(r, s)
  BY <1>1, <1>6, <1>7 DEF Shared, Linked, SlotsOnce
<1> QED
  BY <1>3, <1>4, <1>5, <1>8 DEF Shared

\* The arena grows only while every slot is taken.
LEMMA RoomToGrow ==
    ASSUME NEW q, NEW reg, NEW s, NEW fr, Shared(q, reg, s, fr), fr = <<>>,
           NEW f \in Waiters, reg[f] = Nil
    PROVE  Len(q.slots) + 1 <= Cardinality(Waiters)
<1>1. \A id \in Ids(q) : \E g \in Waiters : reg[g] = id
  <2>1. \A id \in Ids(q) : ~On(fr, id)
    BY DEF On
  <2> QED
    BY <2>1 DEF Shared, Holds, OwnedOnce
<1> DEFINE o == [id \in Ids(q) |-> CHOOSE g \in Waiters : reg[g] = id]
           W == Waiters \ {f}
<1>2. \A id \in Ids(q) : o[id] \in Waiters /\ reg[o[id]] = id /\ id # 0
  BY <1>1 DEF Ids
<1>3. o \in [Ids(q) -> W]
  BY <1>2
<1>4. IsFiniteSet(W) /\ Cardinality(W) = Cardinality(Waiters) - 1 /\ Cardinality(Waiters) \in Nat
  BY WaitQueueAssumption, FS_RemoveElement, FS_CardinalityType
<1>5. /\ Len(q.slots) \in Nat /\ IsFiniteSet(Ids(q)) /\ Cardinality(Ids(q)) = Len(q.slots)
  BY UpTo DEF Shared, Arena, Ids
<1> HIDE DEF o, W
<1>6. CASE Cardinality(W) < Cardinality(Ids(q))
  <2>1. \E x, y \in Ids(q) : x # y /\ o[x] = o[y]
    BY <1>3, <1>4, <1>5, <1>6, FS_PigeonHole
  <2> QED
    BY <2>1, <1>2
<1> QED
  BY <1>4, <1>5, <1>6

\* A registration that joins the queue: a granted one again, or a new one in
\* a slot of the free list, or in one more slot.
LEMMA JoinStep ==
    ASSUME NEW q, NEW r \in Arena, NEW reg, NEW s, NEW fr, Shared(q, reg, s, fr),
           NEW f \in Waiters, NEW id \in Nat \ {0}, Joined(q, r, id),
           \/ /\ reg[f] = id /\ q.slots[id].kind # "Queued"
              /\ r.free = q.free /\ Len(r.slots) = Len(q.slots)
           \/ /\ reg[f] = Nil /\ q.free = id
              /\ r.free = q.slots[id].next /\ Len(r.slots) = Len(q.slots)
           \/ /\ reg[f] = Nil /\ q.free = Nil /\ r.free = Nil /\ id = Len(q.slots) + 1
              /\ Len(r.slots) = Len(q.slots) + 1
    PROVE  \E t : Shared(r, [reg EXCEPT ![f] = id], Append(s, id), t)
<1> DEFINE reg2 == [reg EXCEPT ![f] = id]
<1>0. /\ q \in Arena /\ Linked(q, s) /\ Holds(q, s, "Queued")
      /\ FreeList(q, fr) /\ Holds(q, fr, "Free") /\ Len(q.slots) <= Cardinality(Waiters)
      /\ Len(q.slots) \in Nat
  BY DEF Shared, Arena
<1>1. /\ reg \in [Waiters -> Nat]
      /\ \A g \in Waiters : reg[g] \in Ids(q) \cup {Nil}
      /\ \A g, h \in Waiters : reg[g] = reg[h] => g = h \/ reg[g] = Nil
      /\ \A j \in Ids(q) : (\E g \in Waiters : reg[g] = j) <=> q.slots[j].kind # "Free"
  BY DEF Shared, OwnedOnce
<1>2. \A i \in 1..Len(s) : s[i] \in Ids(q)
  BY <1>0 DEF Linked, SlotsOnce
<1>3. Ids(r) = Ids(q) \cup {id} /\ \A j \in Ids(q) \ {id} : r.slots[j].kind = q.slots[j].kind
  BY DEF Joined
<1>4. id \in Ids(q) => q.slots[id].kind # "Queued"
  <2>1. id = Len(q.slots) + 1 => id \notin Ids(q)
    BY <1>0 DEF Ids
  <2> QED
    BY <2>1, Ends
<1>5. ~On(s, id)
  BY <1>0, <1>2, <1>4 DEF On, Holds
<1>6. Linked(r, Append(s, id)) /\ Holds(r, Append(s, id), "Queued")
  BY <1>0, <1>5, JoinedIsLinked DEF Holds
<1>7. \A g \in Waiters : g # f => reg[g] # id
  <2>1. CASE reg[f] = id
    BY <2>1, <1>1
  <2>2. CASE reg[f] = Nil /\ q.free = id
    <3>1. id \in Ids(q) /\ q.slots[id].kind = "Free"
      BY <2>2, Ends
    <3> QED
      BY <3>1, <1>1
  <2>3. CASE id = Len(q.slots) + 1
    <3>1. id \notin Ids(q)
      BY <2>3, <1>0 DEF Ids
    <3> QED
      BY <3>1, <1>1
  <2> QED
    BY <2>1, <2>2, <2>3
<1>8. OwnedOnce(r, reg2)
  <2>1. reg2 \in [Waiters -> Nat] /\ \A g \in Waiters : reg2[g] = IF g = f THEN id ELSE reg[g]
    BY <1>1
  <2>2. \A g \in Waiters : reg2[g] \in Ids(r) \cup {Nil}
    BY <2>1, <1>1, <1>3
  <2>3. \A g, h \in Waiters : reg2[g] = reg2[h] => g = h \/ reg2[g] = Nil
    BY <2>1, <1>1, <1>7
  <2>4. ASSUME NEW j \in Ids(r)
        PROVE  (\E g \in Waiters : reg2[g] = j) <=> r.slots[j].kind # "Free"
    <3>1. CASE j = id
      BY <3>1, <2>1 DEF Joined
    <3>2. CASE j # id
      <4>1. j \in Ids(q) \ {id} /\ r.slots[j].kind = q.slots[j].kind
        BY <3>2, <1>3
      <4>2. reg[f] # j
        <5>1. 0 \notin Ids(q)
          BY DEF Ids
        <5> QED
          BY <3>2, <4>1, <5>1
      <4>3. (\E g \in Waiters : reg2[g] = j) <=> (\E g \in Waiters : reg[g] = j)
        BY <3>2, <4>2, <2>1
      <4> QED
        BY <4>1, <4>3, <1>1
    <3> QED
      BY <3>1, <3>2
  <2> HIDE DEF reg2
  <2> QED
    BY <2>1, <2>2, <2>3, <2>4 DEF OwnedOnce
<1>9. \A j \in Ids(q) \ {id} : On(fr, j) => r.slots[j].next = q.slots[j].next
  <2>1. SUFFICES ASSUME NEW j \in Ids(q) \ {id}, On(fr, j)
                 PROVE  r.slots[j].next = q.slots[j].next
    OBVIOUS
  <2>2. q.slots[j].kind = "Free"
    BY <2>1, <1>0 DEF Holds
  <2>3. j # q.tail
    <3>1. j # 0
      BY DEF Ids
    <3> QED
      BY <2>2, <3>1, Ends
  <2> QED
    BY <2>3 DEF Joined
<1>10. r.slots[id].kind = "Queued"
  BY DEF Joined
<1> HIDE DEF reg2
<1>11. SUFFICES /\ \E t : FreeList(r, t) /\ Holds(r, t, "Free")
                /\ Len(r.slots) <= Cardinality(Waiters)
  BY <1>6, <1>8 DEF Shared, reg2
<1>12. CASE reg[f] = id /\ q.slots[id].kind # "Queued" /\ r.free = q.free
            /\ Len(r.slots) = Len(q.slots)
  <2>1. id \in Ids(q) /\ q.slots[id].kind # "Free" /\ ~On(fr, id)
    <3>1. id \in Ids(q)
      BY <1>12, <1>1
    <3> QED
      BY <3>1, <1>12, <1>0, <1>1 DEF Holds
  <2>2. FreeList(r, fr)
    BY <2>1, <1>0, <1>3, <1>9, <1>12, FreeKept
  <2>3. Holds(r, fr, "Free")
    BY <2>1, <1>0, <1>3, <1>10 DEF Holds
  <2> QED
    BY <2>2, <2>3, <1>0, <1>12
<1>13. CASE reg[f] = Nil /\ q.free = id /\ r.free = q.slots[id].next
            /\ Len(r.slots) = Len(q.slots)
  <2>1. fr # <<>> /\ id \in Ids(q)
    BY <1>13, Ends
  <2>2. Ids(r) = Ids(q)
    BY <2>1, <1>3
  <2>3. /\ FreeList(r, Skip(fr, 1))
        /\ \A j \in Ids(q) : On(Skip(fr, 1), j) <=> On(fr, j) /\ j # id
    BY <2>1, <2>2, <1>0, <1>9, <1>13, FreeTaken
  <2>4. Holds(r, Skip(fr, 1), "Free")
    BY <2>2, <2>3, <1>0, <1>3, <1>10 DEF Holds
  <2> QED
    BY <2>3, <2>4, <1>0, <1>13
<1>14. CASE reg[f] = Nil /\ q.free = Nil /\ r.free = Nil /\ id = Len(q.slots) + 1
            /\ Len(r.slots) = Len(q.slots) + 1
  <2>1. fr = <<>>
    BY <1>14, Ends
  <2>2. Len(r.slots) <= Cardinality(Waiters)
    BY <2>1, <1>14, RoomToGrow
  <2>3. id \notin Ids(q)
    BY <1>0, <1>14 DEF Ids
  <2>4. FreeList(r, fr)
    BY <2>3, <1>0, <1>3, <1>9, <1>14, FreeKept
  <2>5. ~On(fr, id)
    BY <2>1 DEF On
  <2>6. Holds(r, fr, "Free")
    BY <2>5, <1>0, <1>3, <1>10 DEF Holds
  <2> QED
    BY <2>2, <2>4, <2>6
<1> QED
  BY <1>12, <1>13, <1>14

\* The waker a registration stores, if it brings one.
Rewoken(q, id, w) == IF w = NoWaker THEN q ELSE [q EXCEPT !.slots[id].waker = w]

\* It disturbs nothing else.
LEMMA RewokenWrites ==
    ASSUME NEW q \in Arena, NEW id \in Ids(q), NEW w \in Wakers \cup {NoWaker}
    PROVE  LET r == Rewoken(q, id, w)
           IN  /\ r \in Arena /\ Len(r.slots) = Len(q.slots)
               /\ r.free = q.free /\ r.head = q.head /\ r.tail = q.tail
               /\ \A j \in Ids(q) :
                     /\ r.slots[j].next = q.slots[j].next
                     /\ r.slots[j].previous = q.slots[j].previous
                     /\ r.slots[j].kind = q.slots[j].kind
                     /\ r.slots[j].waker = IF j = id /\ w # NoWaker THEN w ELSE q.slots[j].waker
<1>1. CASE w = NoWaker
  BY <1>1 DEF Rewoken
<1>2. CASE w # NoWaker
  <2> DEFINE x == [q.slots[id] EXCEPT !.waker = w]
             r == Rewoken(q, id, w)
  <2>1. q.slots[id] \in ArenaSlot
    BY SlotFields
  <2>2. /\ x \in ArenaSlot /\ x.next = q.slots[id].next
        /\ x.previous = q.slots[id].previous /\ x.kind = q.slots[id].kind /\ x.waker = w
    BY <2>1 DEF ArenaSlot
  <2>3. r = [q EXCEPT !.slots[id] = x]
    BY <1>2 DEF Rewoken
  <2> HIDE DEF x, r
  <2>4. Put(q, r, id, x) /\ r.free = q.free /\ r.head = q.head /\ r.tail = q.tail
    BY <2>2, <2>3, PutSlot
  <2>5. /\ r \in Arena /\ Len(r.slots) = Len(q.slots)
        /\ \A j \in Ids(q) : r.slots[j] = IF j = id THEN x ELSE q.slots[j]
    BY <2>4 DEF Put
  <2> QED
    BY <1>2, <2>2, <2>4, <2>5 DEF r
<1> QED
  BY <1>1, <1>2

\* enqueue with the waker that is brought.
LEMMA EnqueueRewoken ==
    ASSUME NEW q \in Arena, NEW id \in Ids(q), q.tail \in Ids(q) \cup {Nil}, q.tail # id,
           NEW w \in Wakers \cup {NoWaker}
    PROVE  LET r == Rewoken(enqueue(q, id), id, w)
           IN  /\ r \in Arena /\ Len(r.slots) = Len(q.slots) /\ r.free = q.free
               /\ Joined(q, r, id)
               /\ \A j \in Ids(q) :
                     r.slots[j].waker = IF j = id /\ w # NoWaker THEN w ELSE q.slots[j].waker
<1> DEFINE b == enqueue(q, id)
           r == Rewoken(b, id, w)
           x == [q.slots[id] EXCEPT !.previous = q.tail, !.next = Nil, !.kind = "Queued"]
<1>1. /\ b \in Arena /\ Len(b.slots) = Len(q.slots) /\ b.free = q.free
      /\ b.tail = id /\ b.head = (IF q.tail = Nil THEN id ELSE q.head)
      /\ b.slots[id] = x
      /\ \A j \in Ids(q) \ {id} :
            b.slots[j] = IF j = q.tail THEN [q.slots[j] EXCEPT !.next = id] ELSE q.slots[j]
  BY EnqueueWrites
<1>2. \A j \in Ids(q) : q.slots[j] \in ArenaSlot
  BY SlotFields
<1>3. Ids(b) = Ids(q)
  BY <1>1 DEF Ids
<1> HIDE DEF b
<1>4. /\ r \in Arena /\ Len(r.slots) = Len(b.slots)
      /\ r.free = b.free /\ r.head = b.head /\ r.tail = b.tail
      /\ \A j \in Ids(q) :
            /\ r.slots[j].next = b.slots[j].next
            /\ r.slots[j].previous = b.slots[j].previous
            /\ r.slots[j].kind = b.slots[j].kind
            /\ r.slots[j].waker = IF j = id /\ w # NoWaker THEN w ELSE b.slots[j].waker
  BY <1>1, <1>3, RewokenWrites
<1> HIDE DEF r
<1>5. /\ b.slots[id].next = 0 /\ b.slots[id].previous = q.tail
      /\ b.slots[id].kind = "Queued" /\ b.slots[id].waker = q.slots[id].waker
  BY <1>1, <1>2 DEF ArenaSlot
<1> HIDE DEF x
<1>6. \A j \in Ids(q) \ {id} :
          /\ b.slots[j].next = IF j = q.tail THEN id ELSE q.slots[j].next
          /\ b.slots[j].previous = q.slots[j].previous
          /\ b.slots[j].kind = q.slots[j].kind
          /\ b.slots[j].waker = q.slots[j].waker
  <2> TAKE j \in Ids(q) \ {id}
  <2>1. /\ b.slots[j] = IF j = q.tail THEN [q.slots[j] EXCEPT !.next = id] ELSE q.slots[j]
        /\ q.slots[j] \in ArenaSlot
    BY <1>1, <1>2
  <2> QED
    BY <2>1 DEF ArenaSlot
<1>7. Ids(r) = Ids(q) /\ Ids(q) = Ids(q) \cup {id}
  BY <1>1, <1>4 DEF Ids
<1>8. Joined(q, r, id)
  BY <1>1, <1>4, <1>5, <1>6, <1>7 DEF Joined
<1>9. \A j \in Ids(q) :
          r.slots[j].waker = IF j = id /\ w # NoWaker THEN w ELSE q.slots[j].waker
  BY <1>4, <1>5, <1>6
<1> QED
  BY <1>1, <1>4, <1>8, <1>9 DEF r, b

\* The slot register gives f: its own, the first of the free list, or a new one.
SlotFor(q, reg, f) ==
    IF reg[f] # Nil THEN reg[f] ELSE IF q.free # Nil THEN q.free ELSE Len(q.slots) + 1

\* The queue once f stands in it, before its waker is stored.
PlacedFor(q, reg, f) ==
    LET id == SlotFor(q, reg, f)
    IN  IF reg[f] = Nil THEN enqueue(allocate(q), id)
        ELSE IF q.slots[id].kind # "Queued" THEN enqueue(q, id) ELSE q

\* Whether f is in the chain.
Waits(q, reg, f) == reg[f] # Nil /\ q.slots[reg[f]].kind = "Queued"

\* The chain after it.
ChainFor(q, reg, s, f, id) == IF Waits(q, reg, f) THEN s ELSE Append(s, id)

\* register: a waiter in the chain keeps its place, any other goes behind it.
LEMMA RegisterStep ==
    ASSUME NEW q, NEW reg, NEW s, NEW fr, Shared(q, reg, s, fr), NEW f \in Waiters,
           NEW w \in Wakers \cup {NoWaker}, NEW id, id = SlotFor(q, reg, f),
           NEW r, r = Rewoken(PlacedFor(q, reg, f), id, w),
           NEW reg2, reg2 = [reg EXCEPT ![f] = id]
    PROVE  /\ \E t : Shared(r, reg2, ChainFor(q, reg, s, f, id), t)
           /\ id \in Nat \ {0} /\ r.slots[id].kind = "Queued"
           /\ r.slots[id].waker = IF w # NoWaker THEN w
                                  ELSE IF reg[f] = Nil THEN NoWaker ELSE q.slots[id].waker
           /\ \A j \in Ids(q) \ {id} : /\ r.slots[j].kind = q.slots[j].kind
                                       /\ r.slots[j].waker = q.slots[j].waker
<1>1. /\ q \in Arena /\ Len(q.slots) \in Nat
      /\ reg \in [Waiters -> Nat] /\ reg[f] \in Ids(q) \cup {Nil}
  BY DEF Shared, Arena, OwnedOnce
<1>2. /\ q.tail \in Ids(q) \cup {Nil} /\ q.free \in Ids(q) \cup {Nil}
      /\ q.tail # Nil => q.slots[q.tail].kind = "Queued"
      /\ q.free # Nil => q.slots[q.free].kind = "Free"
  BY Ends
<1>3. \A j \in Ids(q) : j \in Nat \ {0} /\ j <= Len(q.slots)
  BY <1>1 DEF Ids
<1>4. CASE Waits(q, reg, f)
  <2>1. id = reg[f] /\ id \in Ids(q) /\ q.slots[id].kind = "Queued"
    BY <1>1, <1>4 DEF Waits, SlotFor
  <2>2. r = Rewoken(q, id, w)
    BY <1>4, <2>1 DEF Waits, PlacedFor
  <2>3. /\ r \in Arena /\ Len(r.slots) = Len(q.slots)
        /\ r.free = q.free /\ r.head = q.head /\ r.tail = q.tail
        /\ \A j \in Ids(q) :
              /\ r.slots[j].next = q.slots[j].next
              /\ r.slots[j].previous = q.slots[j].previous
              /\ r.slots[j].kind = q.slots[j].kind
              /\ r.slots[j].waker = IF j = id /\ w # NoWaker THEN w ELSE q.slots[j].waker
    BY <1>1, <2>1, <2>2, RewokenWrites
  <2>4. Shared(r, reg, s, fr)
    BY <2>3, SameLinks
  <2>5. [reg EXCEPT ![f] = id] = reg
    BY <2>1, <1>1
  <2>6. reg[f] # Nil /\ id \in Nat \ {0}
    BY <1>3, <2>1
  <2> QED
    BY <1>4, <2>1, <2>3, <2>4, <2>5, <2>6 DEF ChainFor
<1>5. CASE ~Waits(q, reg, f) /\ reg[f] # Nil
  <2>1. id = reg[f] /\ id \in Ids(q) /\ id \in Nat \ {0} /\ q.slots[id].kind # "Queued"
    BY <1>1, <1>3, <1>5 DEF Waits, SlotFor
  <2>2. r = Rewoken(enqueue(q, id), id, w)
    BY <1>5, <2>1 DEF PlacedFor
  <2>3. q.tail # id
    BY <1>2, <2>1
  <2>4. /\ r \in Arena /\ Len(r.slots) = Len(q.slots) /\ r.free = q.free
        /\ Joined(q, r, id)
        /\ \A j \in Ids(q) :
              r.slots[j].waker = IF j = id /\ w # NoWaker THEN w ELSE q.slots[j].waker
    BY <1>1, <1>2, <2>1, <2>2, <2>3, EnqueueRewoken
  <2>5. \E t : Shared(r, [reg EXCEPT ![f] = id], Append(s, id), t)
    BY <2>1, <2>4, JoinStep
  <2>6. /\ r.slots[id].kind = "Queued"
        /\ \A j \in Ids(q) \ {id} : r.slots[j].kind = q.slots[j].kind
    BY <2>4 DEF Joined
  <2> QED
    BY <1>5, <2>1, <2>4, <2>5, <2>6 DEF ChainFor
<1>6. CASE reg[f] = Nil
  <2> DEFINE b == allocate(q)
  <2>1. id = (IF q.free # Nil THEN q.free ELSE Len(q.slots) + 1) /\ ~Waits(q, reg, f)
    BY <1>6 DEF SlotFor, Waits
  <2>2. /\ b \in Arena /\ Ids(b) = Ids(q) \cup {id} /\ b.head = q.head /\ b.tail = q.tail
        /\ b.free = IF q.free # Nil THEN q.slots[q.free].next ELSE Nil
        /\ Len(b.slots) = IF q.free # Nil THEN Len(q.slots) ELSE Len(q.slots) + 1
        /\ b.slots[id] = Fresh
        /\ \A j \in Ids(q) \ {id} : b.slots[j] = q.slots[j]
    BY <1>1, <1>2, <2>1, AllocateWrites
  <2>3. r = Rewoken(enqueue(b, id), id, w)
    BY <1>6 DEF PlacedFor
  <2> HIDE DEF b
  <2>4. id \in Nat \ {0} /\ q.tail # id
    <3>1. CASE q.free # Nil
      BY <3>1, <1>2, <1>3, <2>1
    <3>2. CASE q.free = Nil
      BY <3>2, <1>1, <1>2, <1>3, <2>1
    <3> QED
      BY <3>1, <3>2
  <2>5. /\ r \in Arena /\ Len(r.slots) = Len(b.slots) /\ r.free = b.free
        /\ Joined(b, r, id)
        /\ \A j \in Ids(b) :
              r.slots[j].waker = IF j = id /\ w # NoWaker THEN w ELSE b.slots[j].waker
    <3>1. b.tail \in Ids(b) \cup {Nil} /\ id \in Ids(b) /\ b.tail # id
      BY <1>2, <2>2, <2>4
    <3> QED
      BY <2>2, <2>3, <3>1, EnqueueRewoken
  <2>6. Joined(q, r, id)
    <3>1. Ids(b) \cup {id} = Ids(q) \cup {id} /\ Ids(q) \ {id} \subseteq Ids(b) \ {id}
      BY <2>2
    <3> QED
      BY <2>2, <2>5, <3>1 DEF Joined
  <2>7. \E t : Shared(r, [reg EXCEPT ![f] = id], Append(s, id), t)
    BY <1>6, <2>1, <2>2, <2>4, <2>5, <2>6, JoinStep
  <2>8. /\ r.slots[id].kind = "Queued"
        /\ \A j \in Ids(q) \ {id} : r.slots[j].kind = q.slots[j].kind
    BY <2>6 DEF Joined
  <2>9. r.slots[id].waker = IF w # NoWaker THEN w ELSE NoWaker
    <3>1. b.slots[id].waker = NoWaker
      BY <2>2 DEF Fresh
    <3> QED
      BY <2>2, <2>5, <3>1
  <2>10. \A j \in Ids(q) \ {id} : r.slots[j].waker = q.slots[j].waker
    BY <2>2, <2>5
  <2> QED
    BY <1>6, <2>1, <2>4, <2>7, <2>8, <2>9, <2>10 DEF ChainFor
<1> QED
  BY <1>4, <1>5, <1>6

-----------------------------------------------------------------------------
\* The neighbours of a slot of the chain.
LEMMA Neighbours ==
    ASSUME NEW q \in Arena, NEW s, Linked(q, s), NEW k \in 1..Len(s), NEW id, id = s[k],
           NEW p, p = q.slots[id].previous, NEW n, n = q.slots[id].next
    PROVE  /\ id \in Ids(q) /\ n \in Ids(q) \cup {Nil} /\ n # id
           /\ p \in Ids(q) \cup {Nil} /\ p # id /\ (p # Nil => On(s, p))
<1>1. /\ s \in Seq(Ids(q)) /\ Len(s) \in Nat /\ id \in Ids(q)
      /\ \A i \in 1..Len(s) : s[i] \in Ids(q)
      /\ \A i, j \in 1..Len(s) : s[i] = s[j] => i = j
  BY DEF Linked, SlotsOnce
<1>2. p = IF k = 1 THEN Nil ELSE s[k - 1]
  BY DEF Linked
<1>3. n = IF k = Len(s) THEN Nil ELSE s[k + 1]
  BY DEF Linked, Follows
<1>4. 0 \notin Ids(q)
  BY DEF Ids
<1>5. p \in Ids(q) \cup {Nil} /\ p # id /\ (p # Nil => On(s, p))
  <2>1. CASE k = 1
    BY <2>1, <1>1, <1>2, <1>4
  <2>2. CASE k # 1
    <3>1. k - 1 \in 1..Len(s) /\ k - 1 # k /\ p = s[k - 1]
      BY <2>2, <1>1, <1>2
    <3> QED
      BY <3>1, <1>1 DEF On
  <2> QED
    BY <2>1, <2>2
<1>6. n \in Ids(q) \cup {Nil} /\ n # id
  <2>1. CASE k = Len(s)
    BY <2>1, <1>1, <1>3, <1>4
  <2>2. CASE k # Len(s)
    <3>1. k + 1 \in 1..Len(s) /\ k + 1 # k /\ n = s[k + 1]
      BY <2>2, <1>1, <1>3
    <3> QED
      BY <3>1, <1>1
  <2> QED
    BY <2>1, <2>2
<1> QED
  BY <1>1, <1>5, <1>6

\* What unlinking a slot of the chain leaves alone.
LEMMA UnlinkParts ==
    ASSUME NEW q \in Arena, NEW s, Linked(q, s), NEW k \in 1..Len(s), NEW id, id = s[k],
           NEW b, b = unlink(q, id)
    PROVE  /\ id \in Ids(q) /\ b \in Arena /\ Len(b.slots) = Len(q.slots)
           /\ b.free = q.free
           /\ \A j \in Ids(q) \ {id} :
                 /\ b.slots[j].kind = q.slots[j].kind
                 /\ b.slots[j].waker = q.slots[j].waker
                 /\ ~On(s, j) => b.slots[j].next = q.slots[j].next
<1>1. PICK p, n : p = q.slots[id].previous /\ n = q.slots[id].next
  OBVIOUS
<1>2. /\ id \in Ids(q) /\ n \in Ids(q) \cup {Nil} /\ n # id
      /\ p \in Ids(q) \cup {Nil} /\ p # id /\ (p # Nil => On(s, p))
  BY <1>1, Neighbours
<1>3. Unlinked(q, b, id, p, n)
  BY <1>1, <1>2, UnlinkWrites
<1>4. \A j \in Ids(q) : j # 0
  BY DEF Ids
<1> QED
  BY <1>2, <1>3, <1>4 DEF Unlinked

\* It parts the chain there.
LEMMA UnlinkParted ==
    ASSUME NEW q \in Arena, NEW s, Linked(q, s), NEW k \in 1..Len(s), NEW id, id = s[k],
           NEW b, b = unlink(q, id), NEW r, Ids(r) = Ids(q),
           r.head = b.head, r.tail = b.tail, r.slots[id].kind # "Queued",
           \A j \in Ids(q) \ {id} : r.slots[j] = b.slots[j]
    PROVE  Parted(q, r, id)
<1>1. PICK p, n : p = q.slots[id].previous /\ n = q.slots[id].next
  OBVIOUS
<1>2. /\ id \in Ids(q) /\ n \in Ids(q) \cup {Nil} /\ n # id
      /\ p \in Ids(q) \cup {Nil} /\ p # id
  BY <1>1, Neighbours
<1>3. Unlinked(q, b, id, p, n)
  BY <1>1, <1>2, UnlinkWrites
<1>4. /\ r.head = IF p = Nil THEN n ELSE q.head
      /\ r.tail = IF n = Nil THEN p ELSE q.tail
  BY <1>3 DEF Unlinked
<1>5. \A j \in Ids(q) \ {id} :
          /\ r.slots[j].next = IF j = p THEN n ELSE q.slots[j].next
          /\ r.slots[j].previous = IF j = n THEN p ELSE q.slots[j].previous
          /\ r.slots[j].kind = q.slots[j].kind
  BY <1>3 DEF Unlinked
<1> QED
  BY ONLY <1>1, <1>4, <1>5, Ids(r) = Ids(q), r.slots[id].kind # "Queued" DEF Parted

\* What grant_one does to the queue.
GrantedFirst(q) == [unlink(q, q.head) EXCEPT !.slots[q.head] = Granted(@, "One")]

\* grant_one: the head leaves the chain and keeps its slot.
LEMMA GrantOneStep ==
    ASSUME NEW q, NEW reg, NEW s, NEW fr, Shared(q, reg, s, fr), q.head # Nil,
           NEW r, r = GrantedFirst(q)
    PROVE  /\ Shared(r, reg, Skip(s, 1), fr) /\ s # <<>> /\ q.head = s[1] /\ q.head \in Ids(q)
           /\ r.slots[q.head].kind = "One" /\ r.slots[q.head].waker = NoWaker
           /\ \A j \in Ids(q) \ {q.head} : /\ r.slots[j].kind = q.slots[j].kind
                                           /\ r.slots[j].waker = q.slots[j].waker
<1> DEFINE id == q.head
           b == unlink(q, id)
           x == Granted(b.slots[id], "One")
<1>1. q \in Arena /\ Linked(q, s) /\ Holds(q, s, "Queued") /\ FreeList(q, fr) /\ Holds(q, fr, "Free")
  BY DEF Shared
<1>2. s # <<>> /\ id = s[1] /\ 1 \in 1..Len(s)
  BY <1>1, Ends DEF Linked, SlotsOnce
<1> HIDE DEF id
<1>3. /\ id \in Ids(q) /\ b \in Arena /\ Len(b.slots) = Len(q.slots) /\ b.free = q.free
      /\ \A j \in Ids(q) \ {id} :
            /\ b.slots[j].kind = q.slots[j].kind /\ b.slots[j].waker = q.slots[j].waker
            /\ ~On(s, j) => b.slots[j].next = q.slots[j].next
  BY <1>1, <1>2, UnlinkParts
<1> HIDE DEF b
<1>4. Ids(b) = Ids(q)
  BY <1>3 DEF Ids
<1>5. b.slots[id] \in ArenaSlot
  BY <1>3, <1>4, SlotFields
<1>6. x \in ArenaSlot /\ x.kind = "One" /\ x.waker = NoWaker
  BY <1>5 DEF ArenaSlot, Granted
<1>7. r = [b EXCEPT !.slots[id] = x]
  BY DEF b, id, GrantedFirst
<1> HIDE DEF x
<1>8. Put(b, r, id, x) /\ r.free = b.free /\ r.head = b.head /\ r.tail = b.tail
  <2>1. b \in Arena /\ id \in Ids(b)
    BY <1>3, <1>4
  <2> QED
    BY ONLY <2>1, <1>6, <1>7, PutSlot
<1>9. /\ r \in Arena /\ Len(r.slots) = Len(q.slots) /\ r.slots[id] = x
      /\ \A j \in Ids(q) \ {id} : r.slots[j] = b.slots[j]
  BY <1>3, <1>4, <1>8 DEF Put
<1>10. Ids(r) = Ids(q)
  BY <1>9 DEF Ids
<1>11. Parted(q, r, id)
  <2>1. r.slots[id].kind # "Queued"
    BY <1>6, <1>9
  <2> QED
    BY ONLY <2>1, <1>1, <1>2, <1>8, <1>9, <1>10, UnlinkParted DEF b
<1>12. Linked(r, Skip(s, 1)) /\ Holds(r, Skip(s, 1), "Queued")
  BY <1>1, <1>2, <1>9, <1>11, PartedIsLinked
<1>13. \A j \in Ids(q) \ {id} : r.slots[j].kind = q.slots[j].kind /\ r.slots[j].waker = q.slots[j].waker
  BY <1>3, <1>9
<1>14. q.slots[id].kind = "Queued"
  BY <1>1, <1>2, <1>3 DEF Holds, On
<1>15. FreeList(r, fr)
  <2>1. ASSUME NEW j \in Ids(q), On(fr, j)
        PROVE  r.slots[j].next = q.slots[j].next
    <3>1. q.slots[j].kind = "Free" /\ j # id /\ ~On(s, j)
      BY <2>1, <1>1, <1>14 DEF Holds
    <3> QED
      BY <3>1, <1>3, <1>9
  <2>2. r.free = q.free
    BY <1>3, <1>8
  <2> QED
    BY <2>1, <2>2, <1>1, <1>10, FreeKept
<1>16. Holds(r, fr, "Free")
  BY <1>1, <1>6, <1>9, <1>10, <1>13, <1>14 DEF Holds
<1>17. OwnedOnce(r, reg)
  <2>1. \A j \in Ids(q) : r.slots[j].kind # "Free" <=> q.slots[j].kind # "Free"
    BY <1>6, <1>9, <1>13, <1>14
  <2> QED
    BY <2>1, <1>10 DEF OwnedOnce, Shared
<1>18. Len(r.slots) <= Cardinality(Waiters)
  BY <1>9 DEF Shared
<1> QED
  BY <1>2, <1>3, <1>6, <1>9, <1>12, <1>13, <1>15, <1>16, <1>17, <1>18 DEF Shared, id

\* The chain is as it was.
LEMMA ChainKept ==
    ASSUME NEW q, NEW r, NEW s, Linked(q, s), Ids(q) = Ids(r), r.head = q.head, r.tail = q.tail,
           \A j \in Ids(q) : On(s, j) => /\ r.slots[j].next = q.slots[j].next
                                         /\ r.slots[j].previous = q.slots[j].previous
    PROVE  Linked(r, s)
<1>1. s \in Seq(Ids(q)) /\ \A i \in 1..Len(s) : s[i] \in Ids(q) /\ On(s, s[i])
  BY DEF Linked, SlotsOnce, On
<1>2. Follows(r, s, r.head)
  BY <1>1 DEF Linked, Follows
<1>3. \A i \in 1..Len(s) : r.slots[s[i]].previous = IF i = 1 THEN Nil ELSE s[i - 1]
  BY <1>1 DEF Linked
<1> QED
  BY <1>2, <1>3 DEF Linked, SlotsOnce

\* What remove does to the queue.
RemovedFrom(q, id) ==
    [IF q.slots[id].kind = "Queued" THEN unlink(q, id) ELSE q
        EXCEPT !.slots[id] = Freed(q), !.free = id]

\* What it leaves of the chain s.
Left(q, r, reg, reg2, s, f) ==
    \/ /\ Waits(q, reg, f)
       /\ \E k \in 1..Len(s) : s[k] = reg[f] /\ \E t : Shared(r, reg2, Skip(s, k), t)
    \/ ~Waits(q, reg, f) /\ ~On(s, reg[f]) /\ \E t : Shared(r, reg2, s, t)

\* The slots other than id are granted as they were, and keep their wakers.
OthersKept(q, r, id) ==
    \A j \in Ids(q) \ {id} : /\ r.slots[j].kind = q.slots[j].kind
                              /\ r.slots[j].waker = q.slots[j].waker

\* remove: the slot leaves the chain if it is in it, and goes in front of the
\* free list.
LEMMA RemoveStep ==
    ASSUME NEW q, NEW reg, NEW s, NEW fr, Shared(q, reg, s, fr), NEW f \in Waiters,
           NEW id, id = reg[f], id # Nil, NEW r, r = RemovedFrom(q, id),
           NEW reg2, reg2 = [reg EXCEPT ![f] = Nil]
    PROVE  id \in Ids(q) /\ Left(q, r, reg, reg2, s, f) /\ OthersKept(q, r, id)
<1>0. PICK b : b = IF q.slots[id].kind = "Queued" THEN unlink(q, id) ELSE q
  OBVIOUS
<1> DEFINE x == Freed(q)
<1>1. /\ q \in Arena /\ Linked(q, s) /\ Holds(q, s, "Queued") /\ FreeList(q, fr)
      /\ Holds(q, fr, "Free") /\ Len(q.slots) <= Cardinality(Waiters) /\ q.free \in Nat
  BY DEF Shared, Arena
<1>2. /\ reg \in [Waiters -> Nat]
      /\ \A g \in Waiters : reg[g] \in Ids(q) \cup {Nil}
      /\ \A g, h \in Waiters : reg[g] = reg[h] => g = h \/ reg[g] = Nil
      /\ \A j \in Ids(q) : (\E g \in Waiters : reg[g] = j) <=> q.slots[j].kind # "Free"
  BY DEF Shared, OwnedOnce
<1>3. id \in Ids(q) /\ q.slots[id].kind # "Free" /\ ~On(fr, id) /\ id \in Nat
  BY <1>1, <1>2 DEF Holds, Ids
<1>4. x \in ArenaSlot /\ x.kind = "Free" /\ x.next = q.free
  BY <1>1 DEF Freed, ArenaSlot
<1> HIDE DEF x
<1>5. /\ b \in Arena /\ Len(b.slots) = Len(q.slots)
      /\ \A j \in Ids(q) \ {id} :
            /\ b.slots[j].kind = q.slots[j].kind /\ b.slots[j].waker = q.slots[j].waker
            /\ q.slots[j].kind = "Free" => b.slots[j].next = q.slots[j].next
  <2>1. CASE q.slots[id].kind = "Queued"
    <3>1. PICK k \in 1..Len(s) : s[k] = id
      BY <2>1, <1>1, <1>3 DEF Holds, On
    <3>2. b = unlink(q, id)
      BY <1>0, <2>1
    <3>3. /\ b \in Arena /\ Len(b.slots) = Len(q.slots)
          /\ \A j \in Ids(q) \ {id} :
                /\ b.slots[j].kind = q.slots[j].kind /\ b.slots[j].waker = q.slots[j].waker
                /\ ~On(s, j) => b.slots[j].next = q.slots[j].next
      BY <1>1, <3>1, <3>2, UnlinkParts
    <3>4. \A j \in Ids(q) : q.slots[j].kind = "Free" => ~On(s, j)
      BY <1>1 DEF Holds
    <3> QED
      BY <3>3, <3>4
  <2>2. CASE q.slots[id].kind # "Queued"
    BY <2>2, <1>0, <1>1
  <2> QED
    BY <2>1, <2>2
<1>6. Ids(b) = Ids(q)
  BY <1>5 DEF Ids
<1> DEFINE c == [b EXCEPT !.slots[id] = x]
<1>7. Put(b, c, id, x) /\ c.head = b.head /\ c.tail = b.tail
  BY <1>3, <1>4, <1>5, <1>6, PutSlot
<1>8. r = [c EXCEPT !.free = id]
  BY <1>0, <1>5 DEF Arena, x, RemovedFrom
<1> HIDE DEF c
<1>9. /\ r \in Arena /\ r.slots = c.slots /\ r.free = id /\ r.head = b.head /\ r.tail = b.tail
  BY <1>3, <1>7, <1>8 DEF Put, Arena
<1>10. /\ Len(r.slots) = Len(q.slots) /\ r.slots[id] = x
       /\ \A j \in Ids(q) \ {id} : r.slots[j] = b.slots[j]
  BY <1>3, <1>5, <1>6, <1>7, <1>9 DEF Put
<1>11. Ids(r) = Ids(q)
  BY <1>10 DEF Ids
<1>12. \A j \in Ids(q) \ {id} : r.slots[j].kind = q.slots[j].kind /\ r.slots[j].waker = q.slots[j].waker
  BY <1>5, <1>10
<1>13. \E t : FreeList(r, t) /\ Holds(r, t, "Free")
  <2>1. NextKept(q, r, fr, id)
    BY <1>1, <1>5, <1>10 DEF Holds, NextKept
  <2>2. r.slots[id].next = q.free
    BY <1>4, <1>10
  <2>3. /\ FreeList(r, Before(id, fr))
        /\ \A j \in Ids(q) : On(Before(id, fr), j) <=> On(fr, j) \/ j = id
    BY ONLY <1>1, <1>3, <1>9, <1>11, <2>1, <2>2, FreeGiven
  <2>4. Holds(r, Before(id, fr), "Free")
    BY <2>3, <1>1, <1>4, <1>10, <1>11, <1>12 DEF Holds
  <2> QED
    BY <2>3, <2>4
<1>14. OwnedOnce(r, reg2)
  <2>1. reg2 \in [Waiters -> Nat] /\ \A g \in Waiters : reg2[g] = IF g = f THEN Nil ELSE reg[g]
    BY <1>2
  <2>2. /\ \A g \in Waiters : reg2[g] \in Ids(r) \cup {Nil}
        /\ \A g, h \in Waiters : reg2[g] = reg2[h] => g = h \/ reg2[g] = Nil
    BY <2>1, <1>2, <1>11
  <2>3. 0 \notin Ids(q)
    BY DEF Ids
  <2>4. ASSUME NEW j \in Ids(r)
        PROVE  (\E g \in Waiters : reg2[g] = j) <=> r.slots[j].kind # "Free"
    <3>1. CASE j = id
      BY <3>1, <2>1, <2>3, <1>2, <1>3, <1>4, <1>10
    <3>2. CASE j # id
      <4>1. j \in Ids(q) \ {id} /\ r.slots[j].kind = q.slots[j].kind
        BY <3>2, <1>11, <1>12
      <4>2. (\E g \in Waiters : reg2[g] = j) <=> (\E g \in Waiters : reg[g] = j)
        BY <3>2, <4>1, <2>1, <2>3
      <4> QED
        BY <4>1, <4>2, <1>2
    <3> QED
      BY <3>1, <3>2
  <2> QED
    BY <2>1, <2>2, <2>4 DEF OwnedOnce
<1>15. Len(r.slots) <= Cardinality(Waiters)
  BY <1>1, <1>10
<1>16. CASE q.slots[id].kind = "Queued"
  <2>1. PICK k \in 1..Len(s) : s[k] = id
    BY <1>16, <1>1, <1>3 DEF Holds, On
  <2>2. Parted(q, r, id)
    <3>1. b = unlink(q, id)
      BY <1>0, <1>16
    <3>2. r.slots[id].kind # "Queued"
      BY <1>4, <1>10
    <3> QED
      BY ONLY <1>1, <1>9, <1>10, <1>11, <2>1, <3>1, <3>2, UnlinkParted
  <2>3. Linked(r, Skip(s, k)) /\ Holds(r, Skip(s, k), "Queued")
    BY <1>1, <1>9, <2>1, <2>2, PartedIsLinked
  <2>4. Waits(q, reg, f)
    BY <1>16 DEF Waits
  <2>5. \E t : Shared(r, reg2, Skip(s, k), t)
    BY <1>9, <1>13, <1>14, <1>15, <2>3 DEF Shared
  <2> QED
    BY <1>3, <1>12, <2>1, <2>4, <2>5 DEF Left, OthersKept
<1>17. CASE q.slots[id].kind # "Queued"
  <2>1. ~On(s, id) /\ b = q
    BY <1>0, <1>17, <1>1, <1>3 DEF Holds
  <2>2. Linked(r, s)
    <3>1. \A j \in Ids(q) : On(s, j) => /\ r.slots[j].next = q.slots[j].next
                                         /\ r.slots[j].previous = q.slots[j].previous
      BY <2>1, <1>10
    <3>2. r.head = q.head /\ r.tail = q.tail
      BY <2>1, <1>9
    <3> QED
      BY ONLY <3>1, <3>2, <1>1, <1>11, ChainKept
  <2>3. Holds(r, s, "Queued")
    BY <2>1, <1>1, <1>4, <1>10, <1>11, <1>12 DEF Holds
  <2>4. ~Waits(q, reg, f)
    BY <1>17 DEF Waits
  <2>5. \E t : Shared(r, reg2, s, t)
    BY <1>9, <1>13, <1>14, <1>15, <2>2, <2>3 DEF Shared
  <2> QED
    BY <1>3, <1>12, <2>1, <2>4, <2>5 DEF Left, OthersKept
<1> QED
  BY <1>16, <1>17

\* What grant_all does to the slots: those of the chain are granted.
GrantedSlots(q, chain) ==
    [id \in Ids(q) |-> IF id \in chain
                       THEN [Granted(q.slots[id], "All") EXCEPT !.previous = Nil, !.next = Nil]
                       ELSE q.slots[id]]

\* The queue it leaves: no waiter is in the chain any more.
GrantedAll(q, chain) == [q EXCEPT !.slots = GrantedSlots(q, chain), !.head = Nil, !.tail = Nil]

\* grant_all: the chain is emptied, its slots kept.
LEMMA GrantAllStep ==
    ASSUME NEW q, NEW reg, NEW s, NEW fr, Shared(q, reg, s, fr), NEW chain,
           \A id \in Ids(q) : id \in chain <=> q.slots[id].kind = "Queued",
           NEW r, r = GrantedAll(q, chain)
    PROVE  /\ Shared(r, reg, <<>>, fr)
           /\ \A j \in Ids(q) :
                 IF q.slots[j].kind = "Queued"
                 THEN r.slots[j].kind = "All" /\ r.slots[j].waker = NoWaker
                 ELSE r.slots[j] = q.slots[j]
<1>1. q \in Arena /\ Holds(q, s, "Queued") /\ FreeList(q, fr) /\ Holds(q, fr, "Free") /\ Len(q.slots) \in Nat
  BY ONLY Shared(q, reg, s, fr) DEF Shared, Arena
<1> DEFINE given == GrantedSlots(q, chain)
<1>2. ASSUME NEW j \in Ids(q)
      PROVE  /\ given[j] \in ArenaSlot
             /\ IF q.slots[j].kind = "Queued"
                THEN given[j].kind = "All" /\ given[j].waker = NoWaker
                ELSE given[j] = q.slots[j]
  <2>1. q.slots[j] \in ArenaSlot
    BY <1>1, SlotFields
  <2> DEFINE x == [Granted(q.slots[j], "All") EXCEPT !.previous = Nil, !.next = Nil]
  <2>2. x \in ArenaSlot /\ x.kind = "All" /\ x.waker = NoWaker
    BY <2>1 DEF ArenaSlot, Granted
  <2>3. given[j] = IF j \in chain THEN x ELSE q.slots[j]
    BY DEF GrantedSlots
  <2> HIDE DEF x
  <2> QED
    BY <2>1, <2>2, <2>3
<1> HIDE DEF given
<1>3. given \in Seq(ArenaSlot) /\ Len(given) = Len(q.slots)
  <2>1. PICK n \in Nat : n = Len(q.slots) /\ Ids(q) = 1..n
    BY <1>1 DEF Ids
  <2>2. given \in [1..n -> ArenaSlot]
    <3>1. DOMAIN given = Ids(q) /\ given = [j \in Ids(q) |-> given[j]]
      BY DEF GrantedSlots, given
    <3> QED
      BY ONLY <1>2, <2>1, <3>1
  <2> QED
    BY ONLY <2>1, <2>2
<1>4. /\ r \in Arena /\ r.slots = given /\ r.free = q.free /\ r.head = Nil /\ r.tail = Nil
  BY ONLY <1>1, <1>3, r = GrantedAll(q, chain) DEF Arena, Nil, GrantedAll, given
<1>5. Ids(r) = Ids(q)
  BY ONLY <1>3, <1>4 DEF Ids
<1>6. \A j \in Ids(q) : IF q.slots[j].kind = "Queued"
                        THEN r.slots[j].kind = "All" /\ r.slots[j].waker = NoWaker
                        ELSE r.slots[j] = q.slots[j]
  BY ONLY <1>2, <1>4
<1>7. Linked(r, <<>>)
  <2>1. SlotsOnce(r, <<>>)
    BY ONLY TRUE DEF SlotsOnce
  <2> QED
    BY ONLY <2>1, <1>4 DEF Linked, Follows, Nil
<1>8. Holds(r, <<>>, "Queued")
  BY ONLY <1>5, <1>6 DEF Holds, On
<1>9. \A j \in Ids(q) : On(fr, j) => r.slots[j].next = q.slots[j].next
  BY ONLY <1>1, <1>6 DEF Holds
<1>10. FreeList(r, fr)
  BY ONLY <1>1, <1>4, <1>5, <1>9, FreeKept
<1>11. Holds(r, fr, "Free")
  BY ONLY <1>1, <1>5, <1>6 DEF Holds
<1>12. OwnedOnce(r, reg)
  <2>1. \A j \in Ids(q) : r.slots[j].kind # "Free" <=> q.slots[j].kind # "Free"
    BY ONLY <1>6
  <2>2. OwnedOnce(q, reg)
    BY DEF Shared
  <2> QED
    BY ONLY <2>1, <2>2, <1>5 DEF OwnedOnce
<1>13. Len(r.slots) <= Cardinality(Waiters)
  BY <1>3, <1>4 DEF Shared
<1> QED
  BY ONLY <1>4, <1>6, <1>7, <1>8, <1>10, <1>11, <1>12, <1>13 DEF Shared

-----------------------------------------------------------------------------
\* The inductive invariant of the arena.
ArenaInv == wakes \in SUBSET Wakers /\ \E s, fr : Shared(queue, registration, s, fr)

\* A shared arena is sound.
LEMMA SharedIsSound ==
    ASSUME NEW s, NEW fr, Shared(queue, registration, s, fr)
    PROVE  ArenaIsSound
<1>1. /\ queue \in Arena /\ Linked(queue, s) /\ Holds(queue, s, "Queued")
      /\ FreeList(queue, fr) /\ Holds(queue, fr, "Free") /\ OwnedOnce(queue, registration)
      /\ Len(queue.slots) <= Cardinality(Waiters)
  BY DEF Shared
<1>2. s \in Paths(queue) /\ fr \in Paths(queue)
  BY <1>1, OnceIsPath DEF Linked, FreeList
<1>3. LinksAgree
  BY <1>1, <1>2 DEF LinksAgree, Linked, Holds, On
<1>4. SlotsAccounted
  <2>1. Follows(queue, fr, queue.free)
    BY <1>1 DEF FreeList
  <2>2. \A id \in Ids(queue) :
           /\ (\E i \in 1..Len(fr) : fr[i] = id) <=> queue.slots[id].kind = "Free"
           /\ (\E f \in Waiters : registration[f] = id) <=> queue.slots[id].kind # "Free"
    BY <1>1 DEF Holds, On, OwnedOnce
  <2> QED
    BY <1>1, <1>2, <2>1, <2>2 DEF SlotsAccounted, OwnedOnce
<1> QED
  BY <1>3, <1>4 DEF ArenaIsSound

\* The empty arena.
LEMMA ArenaInvInit ==
    ASSUME Init
    PROVE  Shared(queue, registration, <<>>, <<>>) /\ wakes \in SUBSET Wakers
<1>1. /\ queue \in Arena /\ Len(queue.slots) = 0 /\ Ids(queue) = {}
      /\ queue.free = 0 /\ queue.head = 0 /\ queue.tail = 0
  BY DEF Init, Arena, Ids
<1>2. OwnedOnce(queue, registration)
  BY <1>1 DEF Init, OwnedOnce
<1>3. SlotsOnce(queue, <<>>)
  BY DEF SlotsOnce
<1>4. Linked(queue, <<>>) /\ FreeList(queue, <<>>)
  BY <1>1, <1>3 DEF Linked, FreeList, Follows
<1>5. Holds(queue, <<>>, "Queued") /\ Holds(queue, <<>>, "Free")
  BY <1>1 DEF Holds
<1>6. Len(queue.slots) <= Cardinality(Waiters)
  BY <1>1, WaitQueueAssumption, FS_CardinalityType
<1> QED
  BY <1>1, <1>2, <1>4, <1>5, <1>6 DEF Shared, Init

-----------------------------------------------------------------------------
(* The queue of WaitFifo that an arena holds.                              *)

\* How far each waiter is: waiting, granted, or not registered.
KindOf(q, reg) == [f \in Waiters |-> IF reg[f] = Nil THEN "None" ELSE q.slots[reg[f]].kind]

\* The waker each waiter left.
WakerOf(q, reg) == [f \in Waiters |-> IF reg[f] = Nil THEN NoWaker ELSE q.slots[reg[f]].waker]

\* The waiters in the order of the chain s.
FifoOf(s, reg) == [i \in 1..Len(s) |-> CHOOSE f \in Waiters : reg[f] = s[i]]

\* The owners of the chain's slots, each the only one.
LEMMA Owners ==
    ASSUME NEW q, NEW reg, NEW s, NEW fr, Shared(q, reg, s, fr)
    PROVE  /\ Len(s) \in Nat /\ FifoOf(s, reg) \in Seq(Waiters) /\ Len(FifoOf(s, reg)) = Len(s)
           /\ \A i \in 1..Len(s) : /\ FifoOf(s, reg)[i] \in Waiters
                                   /\ reg[FifoOf(s, reg)[i]] = s[i] /\ s[i] # Nil
           /\ \A i \in 1..Len(s), f \in Waiters : reg[f] = s[i] <=> FifoOf(s, reg)[i] = f
           /\ \A i, j \in 1..Len(s) : FifoOf(s, reg)[i] = FifoOf(s, reg)[j] => i = j
<1>1. /\ s \in Seq(Ids(q)) /\ \A i \in 1..Len(s) : s[i] \in Ids(q) /\ On(s, s[i])
      /\ \A i, j \in 1..Len(s) : s[i] = s[j] => i = j
  BY DEF Shared, Linked, SlotsOnce, On
<1>2. PICK n \in Nat : n = Len(s)
  BY <1>1
<1>3. \A i \in 1..n : s[i] # 0 /\ \E f \in Waiters : reg[f] = s[i]
  <2>1. \A i \in 1..n : q.slots[s[i]].kind = "Queued"
    BY <1>1, <1>2 DEF Shared, Holds
  <2>2. \A i \in 1..n : s[i] # 0
    BY <1>1, <1>2 DEF Ids
  <2> QED
    BY <1>1, <1>2, <2>1, <2>2 DEF Shared, OwnedOnce
<1> DEFINE t == FifoOf(s, reg)
<1>4. t = [i \in 1..n |-> CHOOSE f \in Waiters : reg[f] = s[i]]
  BY <1>2 DEF FifoOf
<1>5. \A i \in 1..n : t[i] \in Waiters /\ reg[t[i]] = s[i]
  BY <1>3, <1>4
<1>6. t \in [1..n -> Waiters]
  <2>1. \A i \in 1..n : (CHOOSE f \in Waiters : reg[f] = s[i]) \in Waiters
    BY <1>3
  <2> QED
    BY <1>4, <2>1
<1> HIDE DEF t
<1>7. t \in Seq(Waiters) /\ Len(t) = n
  BY ONLY <1>6, <1>2
<1>8. \A f, g \in Waiters : reg[f] = reg[g] => f = g \/ reg[f] = 0
  BY DEF Shared, OwnedOnce
<1>9. \A i \in 1..n, f \in Waiters : reg[f] = s[i] <=> t[i] = f
  BY <1>3, <1>5, <1>8
<1>10. \A i, j \in 1..n : t[i] = t[j] => i = j
  BY <1>1, <1>2, <1>5
<1> QED
  BY <1>2, <1>3, <1>5, <1>7, <1>9, <1>10 DEF t

\* The waiter f holds the slot id, as before or newly; the others hold theirs.
HoldsSlot(reg, reg2, f, id) ==
    /\ reg[f] \in {Nil, id} /\ reg2[f] = id
    /\ \A g \in Waiters : g # f => reg2[g] = reg[g]

\* u is s and behind it e.
Extended(u, s, e) == u = Append(s, e)

\* A waiter that joins the chain is last in the queue.
LEMMA FifoJoined ==
    ASSUME NEW q, NEW reg, NEW s, NEW fr, Shared(q, reg, s, fr), NEW f \in Waiters,
           NEW id, NEW r, NEW reg2, HoldsSlot(reg, reg2, f, id), NEW t, NEW u, Extended(u, s, id), Shared(r, reg2, u, t)
    PROVE  Extended(FifoOf(u, reg2), FifoOf(s, reg), f)
<1> DEFINE x == FifoOf(s, reg)
           y == FifoOf(u, reg2)
<1>1. /\ Len(s) \in Nat /\ x \in Seq(Waiters) /\ Len(x) = Len(s)
      /\ \A i \in 1..Len(s) : x[i] \in Waiters /\ reg[x[i]] = s[i] /\ s[i] # Nil
  BY Owners
<1>2. /\ y \in Seq(Waiters) /\ Len(y) = Len(u)
      /\ \A i \in 1..Len(u), g \in Waiters : reg2[g] = u[i] <=> y[i] = g
  BY ONLY Shared(r, reg2, u, t), Owners
<1>3. s \in Seq(Ids(q))
  BY DEF Shared, Linked, SlotsOnce
<1>4. /\ Len(u) = Len(s) + 1 /\ u[Len(s) + 1] = id /\ \A i \in 1..Len(s) : u[i] = s[i]
  BY <1>3 DEF Extended
<1>5. \A i, j \in 1..Len(u) : u[i] = u[j] => i = j
  BY DEF Shared, Linked, SlotsOnce
<1>6. /\ reg[f] \in {Nil, id} /\ reg2[f] = id
      /\ \A g \in Waiters : g # f => reg2[g] = reg[g]
  BY DEF HoldsSlot
<1> HIDE DEF x, y
<1>7. \A i \in 1..Len(s) : s[i] # id
  <2>1. \A i \in 1..Len(s) : i \in 1..Len(s) + 1 /\ i # Len(s) + 1 /\ Len(s) + 1 \in 1..Len(s) + 1
    BY <1>1
  <2> QED
    BY <2>1, <1>4, <1>5
<1>8. \A i \in 1..Len(s) : y[i] = x[i]
  <2> TAKE i \in 1..Len(s)
  <2>1. i \in 1..Len(u) /\ u[i] = s[i]
    BY <1>1, <1>4
  <2>2. x[i] # f
    BY <1>1, <1>6, <1>7
  <2>3. reg2[x[i]] = s[i]
    BY <2>2, <1>1, <1>6
  <2> QED
    BY <2>1, <2>3, <1>1, <1>2
<1>9. y[Len(s) + 1] = f
  <2>1. Len(s) + 1 \in 1..Len(u)
    BY <1>1, <1>4
  <2> QED
    BY <2>1, <1>2, <1>4, <1>6
<1>10. /\ Append(x, f) \in Seq(Waiters) /\ Len(Append(x, f)) = Len(s) + 1
       /\ Append(x, f)[Len(s) + 1] = f
       /\ \A i \in 1..Len(s) : Append(x, f)[i] = x[i]
  BY <1>1
<1>11. \A i \in 1..Len(s) + 1 : i \in 1..Len(s) \/ i = Len(s) + 1
  BY <1>1
<1>12. y = Append(x, f)
  BY ONLY <1>1, <1>2, <1>4, <1>8, <1>9, <1>10, <1>11
<1> QED
  BY <1>12 DEF x, y, Extended

\* A slot that leaves the chain takes its owner out of the queue.
LEMMA FifoParted ==
    ASSUME NEW q, NEW reg, NEW s, NEW fr, Shared(q, reg, s, fr), NEW k \in 1..Len(s),
           NEW r, NEW reg2, NEW t, Shared(r, reg2, Skip(s, k), t),
           \A g \in Waiters : g # FifoOf(s, reg)[k] => reg2[g] = reg[g]
    PROVE  FifoOf(Skip(s, k), reg2) = Skip(FifoOf(s, reg), k)
<1> DEFINE u == Skip(s, k)
           x == FifoOf(s, reg)
           y == FifoOf(u, reg2)
<1>1. /\ Len(s) \in Nat /\ x \in Seq(Waiters) /\ Len(x) = Len(s)
      /\ \A i \in 1..Len(s) : x[i] \in Waiters /\ reg[x[i]] = s[i] /\ s[i] # Nil
      /\ \A i, j \in 1..Len(s) : x[i] = x[j] => i = j
  BY Owners
<1>2. /\ y \in Seq(Waiters) /\ Len(y) = Len(u)
      /\ \A i \in 1..Len(u), g \in Waiters : reg2[g] = u[i] <=> y[i] = g
  BY Owners
<1>3. s \in Seq(Ids(q))
  BY DEF Shared, Linked, SlotsOnce
<1>4. /\ Len(u) = Len(s) - 1
      /\ \A i \in 1..Len(s) - 1 : u[i] = IF i < k THEN s[i] ELSE s[i + 1]
  BY <1>3, SkipPlaces
<1>5. /\ Skip(x, k) \in Seq(Waiters) /\ Len(Skip(x, k)) = Len(s) - 1
      /\ \A i \in 1..Len(s) - 1 : Skip(x, k)[i] = IF i < k THEN x[i] ELSE x[i + 1]
  BY <1>1, SkipPlaces
<1> HIDE DEF u, x, y
<1>6. \A i \in 1..Len(s) - 1 : y[i] = Skip(x, k)[i]
  <2> TAKE i \in 1..Len(s) - 1
  <2>1. PICK j \in 1..Len(s) : j # k /\ j = IF i < k THEN i ELSE i + 1
    BY <1>1
  <2>2. u[i] = s[j] /\ Skip(x, k)[i] = x[j]
    BY <2>1, <1>4, <1>5
  <2>3. x[j] # x[k]
    BY <2>1, <1>1
  <2>4. reg2[x[j]] = s[j]
    BY <2>3, <1>1 DEF x
  <2> QED
    BY <2>2, <2>4, <1>1, <1>2, <1>4
<1>7. y = Skip(x, k)
  BY ONLY <1>2, <1>4, <1>5, <1>6
<1> QED
  BY <1>7 DEF u, x, y

\* A queue without its first is its tail.
LEMMA SkipFirst ==
    ASSUME NEW S, NEW x \in Seq(S), x # <<>>
    PROVE  Skip(x, 1) = Tail(x)
<1>1. 1 \in 1..Len(x) /\ Len(x) \in Nat
  OBVIOUS
<1>2. /\ Skip(x, 1) \in Seq(S) /\ Len(Skip(x, 1)) = Len(x) - 1
      /\ \A i \in 1..Len(x) - 1 : Skip(x, 1)[i] = IF i < 1 THEN x[i] ELSE x[i + 1]
  BY <1>1, SkipPlaces
<1>3. /\ Tail(x) \in Seq(S) /\ Len(Tail(x)) = Len(x) - 1
      /\ \A i \in 1..Len(x) - 1 : Tail(x)[i] = x[i + 1]
  BY <1>1
<1>4. \A i \in 1..Len(x) - 1 : Skip(x, 1)[i] = Tail(x)[i]
  BY <1>1, <1>2, <1>3
<1> QED
  BY ONLY <1>2, <1>3, <1>4

\* WaitFifo's Without is Skip at the waiter's place.
LEMMA WithoutSkips ==
    ASSUME NEW S, NEW x \in Seq(S), NEW k \in 1..Len(x),
           \A i, j \in 1..Len(x) : x[i] = x[j] => i = j
    PROVE  Abstract!Without(x, x[k]) = Skip(x, k)
<1>1. (CHOOSE i \in 1..Len(x) : x[i] = x[k]) = k
  OBVIOUS
<1> QED
  BY <1>1 DEF Abstract!Without, Skip

\* r and reg2 hold the queue that Register leads to from that of q and reg.
AsRegister(q, r, reg, reg2, s, f, w) ==
    \E s2, t :
       /\ Shared(r, reg2, s2, t)
       /\ KindOf(r, reg2) = [KindOf(q, reg) EXCEPT ![f] = "Queued"]
       /\ FifoOf(s2, reg2) = IF KindOf(q, reg)[f] = "Queued" THEN FifoOf(s, reg)
                             ELSE Append(FifoOf(s, reg), f)
       /\ WakerOf(r, reg2) = IF w = NoWaker THEN WakerOf(q, reg)
                             ELSE [WakerOf(q, reg) EXCEPT ![f] = w]

\* The same of Remove.
AsRemove(q, r, reg, reg2, s, f) ==
    \E s2, t :
       /\ Shared(r, reg2, s2, t)
       /\ KindOf(q, reg)[f] # "None"
       /\ KindOf(r, reg2) = [KindOf(q, reg) EXCEPT ![f] = "None"]
       /\ FifoOf(s2, reg2) = Abstract!Without(FifoOf(s, reg), f)
       /\ WakerOf(r, reg2) = [WakerOf(q, reg) EXCEPT ![f] = NoWaker]

\* register is Register.
LEMMA RegisterAbstract ==
    ASSUME NEW q, NEW reg, NEW s, NEW fr, Shared(q, reg, s, fr), NEW f \in Waiters,
           NEW w \in Wakers \cup {NoWaker}, NEW id, id = SlotFor(q, reg, f),
           NEW r, r = Rewoken(PlacedFor(q, reg, f), id, w),
           NEW reg2, reg2 = [reg EXCEPT ![f] = id]
    PROVE  AsRegister(q, r, reg, reg2, s, f, w)
<1>0. PICK s2 : s2 = ChainFor(q, reg, s, f, id)
  OBVIOUS
<1>1. /\ \E t : Shared(r, reg2, s2, t)
      /\ id \in Nat \ {0} /\ r.slots[id].kind = "Queued"
      /\ r.slots[id].waker = IF w # NoWaker THEN w
                             ELSE IF reg[f] = Nil THEN NoWaker ELSE q.slots[id].waker
      /\ \A j \in Ids(q) \ {id} : /\ r.slots[j].kind = q.slots[j].kind
                                  /\ r.slots[j].waker = q.slots[j].waker
  <2>1. \E t : Shared(r, reg2, ChainFor(q, reg, s, f, id), t)
    BY RegisterStep
  <2>2. id \in Nat \ {0} /\ r.slots[id].kind = "Queued"
    BY RegisterStep
  <2>3. r.slots[id].waker = IF w # NoWaker THEN w
                            ELSE IF reg[f] = Nil THEN NoWaker ELSE q.slots[id].waker
    BY RegisterStep
  <2>4. \A j \in Ids(q) \ {id} : /\ r.slots[j].kind = q.slots[j].kind
                                  /\ r.slots[j].waker = q.slots[j].waker
    BY RegisterStep
  <2> QED
    BY ONLY <1>0, <2>1, <2>2, <2>3, <2>4
<1>2. PICK t : Shared(r, reg2, s2, t)
  BY <1>1
<1>3. /\ reg \in [Waiters -> Nat] /\ \A g \in Waiters : reg[g] \in Ids(q) \cup {Nil}
      /\ reg2 \in [Waiters -> Nat]
      /\ \A g, h \in Waiters : reg2[g] = reg2[h] => g = h \/ reg2[g] = Nil
  BY <1>2 DEF Shared, OwnedOnce
<1>4. reg2[f] = id /\ \A g \in Waiters : g # f => reg2[g] = reg[g]
  BY <1>3
<1>5. reg[f] \in {Nil, id}
  BY DEF SlotFor
<1>6. \A g \in Waiters : g # f => reg[g] = Nil \/ reg[g] \in Ids(q) \ {id}
  BY <1>1, <1>3, <1>4
<1>7. KindOf(q, reg)[f] = "Queued" <=> Waits(q, reg, f)
  BY DEF KindOf, Waits
<1>8. KindOf(r, reg2) = [KindOf(q, reg) EXCEPT ![f] = "Queued"]
  <2>1. \A g \in Waiters : KindOf(r, reg2)[g] = IF g = f THEN "Queued" ELSE KindOf(q, reg)[g]
    BY <1>1, <1>4, <1>6 DEF KindOf
  <2>2. /\ DOMAIN KindOf(r, reg2) = Waiters /\ DOMAIN KindOf(q, reg) = Waiters
        /\ KindOf(r, reg2) = [g \in Waiters |-> KindOf(r, reg2)[g]]
    BY DEF KindOf
  <2> QED
    BY ONLY <2>1, <2>2
<1>9. WakerOf(r, reg2) = IF w = NoWaker THEN WakerOf(q, reg)
                         ELSE [WakerOf(q, reg) EXCEPT ![f] = w]
  <2>1. /\ \A g \in Waiters : g # f => WakerOf(r, reg2)[g] = WakerOf(q, reg)[g]
        /\ WakerOf(r, reg2)[f] = IF w = NoWaker THEN WakerOf(q, reg)[f] ELSE w
    BY <1>1, <1>4, <1>5, <1>6 DEF WakerOf
  <2>2. /\ DOMAIN WakerOf(r, reg2) = Waiters /\ DOMAIN WakerOf(q, reg) = Waiters
        /\ WakerOf(r, reg2) = [g \in Waiters |-> WakerOf(r, reg2)[g]]
        /\ WakerOf(q, reg) = [g \in Waiters |-> WakerOf(q, reg)[g]]
    BY DEF WakerOf
  <2>3. CASE w = NoWaker
    <3>1. \A g \in Waiters : WakerOf(r, reg2)[g] = WakerOf(q, reg)[g]
      BY <2>1, <2>3
    <3>2. WakerOf(r, reg2) = WakerOf(q, reg)
      BY ONLY <2>2, <3>1
    <3> QED
      BY <2>3, <3>2
  <2>4. CASE w # NoWaker
    <3>1. \A g \in Waiters : WakerOf(r, reg2)[g] = IF g = f THEN w ELSE WakerOf(q, reg)[g]
      BY <2>1, <2>4
    <3>2. WakerOf(r, reg2) = [WakerOf(q, reg) EXCEPT ![f] = w]
      BY ONLY <2>2, <3>1
    <3> QED
      BY <2>4, <3>2
  <2> QED
    BY <2>3, <2>4
<1>10. FifoOf(s2, reg2) = IF KindOf(q, reg)[f] = "Queued" THEN FifoOf(s, reg)
                          ELSE Append(FifoOf(s, reg), f)
  <2>1. CASE Waits(q, reg, f)
    <3>1. reg2 = reg
      BY <2>1, <1>3 DEF Waits, SlotFor
    <3> QED
      BY <2>1, <3>1, <1>0, <1>7 DEF ChainFor
  <2>2. CASE ~Waits(q, reg, f)
    <3>1. Extended(s2, s, id)
      BY <2>2, <1>0 DEF Extended, ChainFor
    <3>2. Extended(FifoOf(s2, reg2), FifoOf(s, reg), f)
      <4>1. HoldsSlot(reg, reg2, f, id)
        BY ONLY <1>4, <1>5 DEF HoldsSlot
      <4> QED
        BY ONLY <3>1, <4>1, <1>2, Shared(q, reg, s, fr), f \in Waiters, FifoJoined
    <3> QED
      BY <2>2, <3>2, <1>7 DEF Extended
  <2> QED
    BY <2>1, <2>2
<1> QED
  BY ONLY <1>2, <1>8, <1>9, <1>10 DEF AsRegister

\* remove is Remove.
LEMMA RemoveAbstract ==
    ASSUME NEW q, NEW reg, NEW s, NEW fr, Shared(q, reg, s, fr), NEW f \in Waiters,
           NEW id, id = reg[f], id # Nil,
           NEW r, r = RemovedFrom(q, id),
           NEW reg2, reg2 = [reg EXCEPT ![f] = Nil]
    PROVE  AsRemove(q, r, reg, reg2, s, f)
<1>0. id \in Ids(q) /\ Left(q, r, reg, reg2, s, f) /\ OthersKept(q, r, id)
  BY RemoveStep
<1>1. /\ id \in Ids(q)
      /\ \/ \E k \in 1..Len(s) : s[k] = id /\ \E t : Shared(r, reg2, Skip(s, k), t)
         \/ ~On(s, id) /\ \E t : Shared(r, reg2, s, t)
      /\ \A j \in Ids(q) \ {id} : /\ r.slots[j].kind = q.slots[j].kind
                                  /\ r.slots[j].waker = q.slots[j].waker
  BY ONLY <1>0, id = reg[f] DEF Left, OthersKept
<1>2. /\ reg \in [Waiters -> Nat] /\ \A g \in Waiters : reg[g] \in Ids(q) \cup {Nil}
      /\ \A g, h \in Waiters : reg[g] = reg[h] => g = h \/ reg[g] = Nil
      /\ q \in Arena
  BY DEF Shared, OwnedOnce
<1>3. reg2[f] = Nil /\ \A g \in Waiters : g # f => reg2[g] = reg[g]
  BY ONLY <1>2, reg2 = [reg EXCEPT ![f] = Nil]
<1>4. \A g \in Waiters : g # f => reg[g] = Nil \/ reg[g] \in Ids(q) \ {id}
  BY ONLY <1>2, id = reg[f], id # Nil
<1>5. KindOf(q, reg)[f] # "None"
  <2>1. q.slots[id].kind # "None"
    BY <1>1, <1>2, SlotFields
  <2> QED
    BY <2>1 DEF KindOf
<1>6. KindOf(r, reg2) = [KindOf(q, reg) EXCEPT ![f] = "None"]
  <2>1. \A g \in Waiters : KindOf(r, reg2)[g] = IF g = f THEN "None" ELSE KindOf(q, reg)[g]
    BY ONLY <1>1, <1>3, <1>4 DEF KindOf
  <2>2. /\ DOMAIN KindOf(r, reg2) = Waiters /\ DOMAIN KindOf(q, reg) = Waiters
        /\ KindOf(r, reg2) = [g \in Waiters |-> KindOf(r, reg2)[g]]
    BY ONLY TRUE DEF KindOf
  <2> QED
    BY ONLY <2>1, <2>2
<1>7. WakerOf(r, reg2) = [WakerOf(q, reg) EXCEPT ![f] = NoWaker]
  <2>1. \A g \in Waiters : WakerOf(r, reg2)[g] = IF g = f THEN NoWaker ELSE WakerOf(q, reg)[g]
    BY ONLY <1>1, <1>3, <1>4 DEF WakerOf
  <2>2. /\ DOMAIN WakerOf(r, reg2) = Waiters /\ DOMAIN WakerOf(q, reg) = Waiters
        /\ WakerOf(r, reg2) = [g \in Waiters |-> WakerOf(r, reg2)[g]]
    BY ONLY TRUE DEF WakerOf
  <2> QED
    BY ONLY <2>1, <2>2
<1> DEFINE x == FifoOf(s, reg)
<1>8. /\ Len(s) \in Nat /\ x \in Seq(Waiters) /\ Len(x) = Len(s)
      /\ \A i \in 1..Len(s) : x[i] \in Waiters /\ reg[x[i]] = s[i] /\ s[i] # Nil
      /\ \A i \in 1..Len(s), g \in Waiters : reg[g] = s[i] <=> x[i] = g
      /\ \A i, j \in 1..Len(s) : x[i] = x[j] => i = j
  BY ONLY Shared(q, reg, s, fr), Owners
<1> HIDE DEF x
<1>9. CASE \E k \in 1..Len(s) : s[k] = id /\ \E t : Shared(r, reg2, Skip(s, k), t)
  <2>0. PICK k \in 1..Len(s) : s[k] = id /\ \E t : Shared(r, reg2, Skip(s, k), t)
    BY <1>9
  <2>1. PICK t : s[k] = id /\ Shared(r, reg2, Skip(s, k), t)
    BY <2>0
  <2>2. x[k] = f
    BY ONLY <2>1, <1>8, id = reg[f], f \in Waiters
  <2>3. Abstract!Without(x, f) = Skip(x, k)
    BY ONLY <2>2, <1>8, k \in 1..Len(s), WithoutSkips
  <2>4. FifoOf(Skip(s, k), reg2) = Skip(x, k)
    <3>1. \A g \in Waiters : g # FifoOf(s, reg)[k] => reg2[g] = reg[g]
      BY ONLY <2>2, <1>3 DEF x
    <3> QED
      BY ONLY <2>1, <3>1, Shared(q, reg, s, fr), k \in 1..Len(s), FifoParted DEF x
  <2> QED
    BY ONLY <2>1, <2>3, <2>4, <1>5, <1>6, <1>7 DEF x, AsRemove
<1>10. CASE ~On(s, id) /\ \E t : Shared(r, reg2, s, t)
  <2>1. PICK t : Shared(r, reg2, s, t)
    BY <1>10
  <2>2. \A i \in 1..Len(s) : x[i] # f
    BY ONLY <1>8, <1>10, id = reg[f], f \in Waiters DEF On
  <2>3. Abstract!Without(x, f) = x
    BY ONLY <1>8, <2>2 DEF Abstract!Without
  <2>4. FifoOf(s, reg2) = x
    <3>1. /\ FifoOf(s, reg2) \in Seq(Waiters) /\ Len(FifoOf(s, reg2)) = Len(s)
          /\ \A i \in 1..Len(s), g \in Waiters : reg2[g] = s[i] <=> FifoOf(s, reg2)[i] = g
      BY ONLY <2>1, Owners
    <3>2. \A i \in 1..Len(s) : FifoOf(s, reg2)[i] = x[i]
      BY ONLY <3>1, <1>3, <1>8, <2>2
    <3> QED
      BY ONLY <3>1, <3>2, <1>8
  <2> QED
    BY ONLY <2>1, <2>3, <2>4, <1>5, <1>6, <1>7 DEF x, AsRemove
<1> QED
  BY ONLY <1>1, <1>9, <1>10

\* r holds the queue that GrantHead leads to from that of q.
AsGrantOne(q, r, reg, s, fr, x, f) ==
    /\ Shared(r, reg, Skip(s, 1), fr)
    /\ x # <<>> /\ f \in Waiters /\ q.slots[q.head].waker = WakerOf(q, reg)[f]
    /\ KindOf(r, reg) = [KindOf(q, reg) EXCEPT ![f] = "One"]
    /\ FifoOf(Skip(s, 1), reg) = Tail(x)
    /\ WakerOf(r, reg) = [WakerOf(q, reg) EXCEPT ![f] = NoWaker]

\* The slots of a chain.
Members(s) == {s[i] : i \in DOMAIN s}

\* r holds the queue that GrantAll leads to from that of q.
AsGrantAll(q, r, reg, s, fr) ==
    /\ Shared(r, reg, <<>>, fr)
    /\ {q.slots[id].waker : id \in Members(s)}
          = {WakerOf(q, reg)[g] : g \in {g \in Waiters : KindOf(q, reg)[g] = "Queued"}}
    /\ KindOf(r, reg) = [g \in Waiters |-> IF KindOf(q, reg)[g] = "Queued" THEN "All"
                                           ELSE KindOf(q, reg)[g]]
    /\ WakerOf(r, reg) = [g \in Waiters |-> IF KindOf(q, reg)[g] = "Queued" THEN NoWaker
                                            ELSE WakerOf(q, reg)[g]]

\* grant_one is GrantHead.
LEMMA GrantOneAbstract ==
    ASSUME NEW q, NEW reg, NEW s, NEW fr, Shared(q, reg, s, fr), q.head # Nil,
           NEW r, r = GrantedFirst(q), NEW x, x = FifoOf(s, reg), NEW f, f = Head(x)
    PROVE  AsGrantOne(q, r, reg, s, fr, x, f)
<1>1. /\ Shared(r, reg, Skip(s, 1), fr) /\ s # <<>> /\ q.head = s[1] /\ q.head \in Ids(q)
      /\ r.slots[q.head].kind = "One" /\ r.slots[q.head].waker = NoWaker
      /\ \A j \in Ids(q) \ {q.head} : /\ r.slots[j].kind = q.slots[j].kind
                                      /\ r.slots[j].waker = q.slots[j].waker
  BY ONLY r = GrantedFirst(q), Shared(q, reg, s, fr), q.head # Nil, GrantOneStep
<1>2. /\ Len(s) \in Nat /\ x \in Seq(Waiters) /\ Len(x) = Len(s)
      /\ \A i \in 1..Len(s) : x[i] \in Waiters /\ reg[x[i]] = s[i] /\ s[i] # Nil
      /\ \A i \in 1..Len(s), g \in Waiters : reg[g] = s[i] <=> x[i] = g
  BY ONLY Shared(q, reg, s, fr), x = FifoOf(s, reg), Owners
<1>3. s \in Seq(Ids(q)) /\ \A g \in Waiters : reg[g] \in Ids(q) \cup {Nil}
  BY ONLY Shared(q, reg, s, fr) DEF Shared, Linked, SlotsOnce, OwnedOnce
<1>4. x # <<>> /\ 1 \in 1..Len(s) /\ f = x[1]
  BY ONLY <1>1, <1>2, <1>3, f = Head(x)
<1>5. /\ f \in Waiters /\ reg[f] = q.head /\ q.head # Nil
      /\ \A g \in Waiters : g # f => reg[g] = Nil \/ reg[g] \in Ids(q) \ {q.head}
  BY ONLY <1>1, <1>2, <1>3, <1>4
<1>6. KindOf(r, reg) = [KindOf(q, reg) EXCEPT ![f] = "One"]
  <2>1. \A g \in Waiters : KindOf(r, reg)[g] = IF g = f THEN "One" ELSE KindOf(q, reg)[g]
    BY ONLY <1>1, <1>5 DEF KindOf
  <2>2. /\ DOMAIN KindOf(r, reg) = Waiters /\ DOMAIN KindOf(q, reg) = Waiters
        /\ KindOf(r, reg) = [g \in Waiters |-> KindOf(r, reg)[g]]
    BY ONLY TRUE DEF KindOf
  <2> QED
    BY ONLY <2>1, <2>2
<1>7. WakerOf(r, reg) = [WakerOf(q, reg) EXCEPT ![f] = NoWaker]
  <2>1. \A g \in Waiters : WakerOf(r, reg)[g] = IF g = f THEN NoWaker ELSE WakerOf(q, reg)[g]
    BY ONLY <1>1, <1>5 DEF WakerOf
  <2>2. /\ DOMAIN WakerOf(r, reg) = Waiters /\ DOMAIN WakerOf(q, reg) = Waiters
        /\ WakerOf(r, reg) = [g \in Waiters |-> WakerOf(r, reg)[g]]
    BY ONLY TRUE DEF WakerOf
  <2> QED
    BY ONLY <2>1, <2>2
<1>8. q.slots[q.head].waker = WakerOf(q, reg)[f]
  BY ONLY <1>5 DEF WakerOf
<1>9. FifoOf(Skip(s, 1), reg) = Tail(x)
  <2>1. FifoOf(Skip(s, 1), reg) = Skip(FifoOf(s, reg), 1)
    BY ONLY <1>1, <1>4, Shared(q, reg, s, fr), FifoParted
  <2>2. Skip(x, 1) = Tail(x)
    BY ONLY <1>2, <1>4, SkipFirst
  <2> QED
    BY ONLY <2>1, <2>2, x = FifoOf(s, reg)
<1> QED
  BY ONLY <1>1, <1>4, <1>5, <1>6, <1>7, <1>8, <1>9 DEF AsGrantOne

\* grant_all is GrantAll.
LEMMA GrantAllAbstract ==
    ASSUME NEW q, NEW reg, NEW s, NEW fr, Shared(q, reg, s, fr),
           NEW r, r = GrantedAll(q, Members(s))
    PROVE  AsGrantAll(q, r, reg, s, fr)
<1> DEFINE chain == Members(s)
           queued == {g \in Waiters : KindOf(q, reg)[g] = "Queued"}
<1>1. /\ s \in Seq(Ids(q)) /\ DOMAIN s = 1..Len(s) /\ \A i \in 1..Len(s) : s[i] \in Ids(q)
      /\ \A id \in Ids(q) : On(s, id) <=> q.slots[id].kind = "Queued"
  BY ONLY Shared(q, reg, s, fr) DEF Shared, Linked, SlotsOnce, Holds
<1>2. /\ chain \subseteq Ids(q)
      /\ \A id \in Ids(q) : id \in chain <=> q.slots[id].kind = "Queued"
  BY ONLY <1>1 DEF On, Members
<1> HIDE DEF chain
<1>3. /\ \A g \in Waiters : reg[g] \in Ids(q) \cup {Nil}
      /\ \A id \in Ids(q) : (\E g \in Waiters : reg[g] = id) <=> q.slots[id].kind # "Free"
  BY ONLY Shared(q, reg, s, fr) DEF Shared, OwnedOnce
<1>5. /\ Shared(r, reg, <<>>, fr)
      /\ \A j \in Ids(q) :
            IF q.slots[j].kind = "Queued"
            THEN r.slots[j].kind = "All" /\ r.slots[j].waker = NoWaker
            ELSE r.slots[j] = q.slots[j]
  <2>1. r = GrantedAll(q, chain)
    BY DEF chain
  <2> QED
    BY ONLY <2>1, <1>2, Shared(q, reg, s, fr), GrantAllStep
<1>6. 0 \notin Ids(q)
  BY ONLY TRUE DEF Ids
<1>7. KindOf(r, reg) = [g \in Waiters |-> IF KindOf(q, reg)[g] = "Queued" THEN "All"
                                          ELSE KindOf(q, reg)[g]]
  <2>1. \A g \in Waiters : KindOf(r, reg)[g] = IF KindOf(q, reg)[g] = "Queued" THEN "All"
                                               ELSE KindOf(q, reg)[g]
    BY ONLY <1>3, <1>5 DEF KindOf
  <2>2. KindOf(r, reg) = [g \in Waiters |-> KindOf(r, reg)[g]]
    BY ONLY TRUE DEF KindOf
  <2> QED
    BY ONLY <2>1, <2>2
<1>8. WakerOf(r, reg) = [g \in Waiters |-> IF KindOf(q, reg)[g] = "Queued" THEN NoWaker
                                           ELSE WakerOf(q, reg)[g]]
  <2>1. \A g \in Waiters : WakerOf(r, reg)[g] = IF KindOf(q, reg)[g] = "Queued" THEN NoWaker
                                                ELSE WakerOf(q, reg)[g]
    BY ONLY <1>3, <1>5 DEF KindOf, WakerOf
  <2>2. WakerOf(r, reg) = [g \in Waiters |-> WakerOf(r, reg)[g]]
    BY ONLY TRUE DEF WakerOf
  <2> QED
    BY ONLY <2>1, <2>2
<1>9. {q.slots[id].waker : id \in chain} = {WakerOf(q, reg)[g] : g \in queued}
  <2>1. ASSUME NEW id \in chain
        PROVE  \E g \in queued : WakerOf(q, reg)[g] = q.slots[id].waker
    <3>1. id \in Ids(q) /\ q.slots[id].kind = "Queued" /\ id # 0
      BY ONLY <1>2, <1>6, id \in chain
    <3>2. PICK g \in Waiters : reg[g] = id
      BY ONLY <3>1, <1>3
    <3>3. KindOf(q, reg)[g] = "Queued" /\ WakerOf(q, reg)[g] = q.slots[id].waker
      BY ONLY <3>1, <3>2, g \in Waiters DEF KindOf, WakerOf
    <3> QED
      BY ONLY <3>2, <3>3
  <2>2. ASSUME NEW g \in queued
        PROVE  \E id \in chain : WakerOf(q, reg)[g] = q.slots[id].waker
    <3>1. g \in Waiters /\ KindOf(q, reg)[g] = "Queued"
      BY ONLY g \in queued
    <3>2. reg[g] # 0 /\ q.slots[reg[g]].kind = "Queued" /\ WakerOf(q, reg)[g] = q.slots[reg[g]].waker
      BY ONLY <3>1 DEF KindOf, WakerOf
    <3>3. reg[g] \in chain
      BY ONLY <3>1, <3>2, <1>2, <1>3
    <3> QED
      BY ONLY <3>2, <3>3
  <2> QED
    BY ONLY <2>1, <2>2
<1> QED
  BY ONLY <1>5, <1>7, <1>8, <1>9 DEF AsGrantAll, chain

-----------------------------------------------------------------------------
\* The queue the arena holds, by its chain.
FifoIn(q, reg) == FifoOf(Order(q), reg)

\* The chain of a shared arena is the one Order follows.
LEMMA FifoIs ==
    ASSUME NEW q, NEW reg, NEW s, NEW fr, Shared(q, reg, s, fr)
    PROVE  Order(q) = s /\ FifoIn(q, reg) = FifoOf(s, reg)
<1>1. Order(q) = s
  BY OrderIs DEF Shared
<1> QED
  BY <1>1 DEF FifoIn

\* What each operation does, in terms of the operators above.
LEMMA OperationsAre ==
    /\ \A f \in Waiters, w \in Wakers \cup {NoWaker} :
          register(f, w) =>
             /\ registration' = [registration EXCEPT ![f] = SlotFor(queue, registration, f)]
             /\ queue' = Rewoken(PlacedFor(queue, registration, f),
                                 SlotFor(queue, registration, f), w)
             /\ wakes' = wakes
    /\ \A f \in Waiters :
          remove(f) => /\ registration[f] # Nil /\ queue' = RemovedFrom(queue, registration[f])
                       /\ registration' = [registration EXCEPT ![f] = Nil]
                       /\ wakes' = wakes
    /\ grant_one => /\ queue.head # Nil /\ queue' = GrantedFirst(queue)
                    /\ wakes' = wakes \cup ({queue.slots[queue.head].waker} \ {NoWaker})
                    /\ registration' = registration
<1>1. ASSUME NEW f \in Waiters, NEW w \in Wakers \cup {NoWaker}, register(f, w)
      PROVE  /\ registration' = [registration EXCEPT ![f] = SlotFor(queue, registration, f)]
             /\ queue' = Rewoken(PlacedFor(queue, registration, f),
                                 SlotFor(queue, registration, f), w)
             /\ wakes' = wakes
  BY <1>1, Zenon DEF register, SlotFor, PlacedFor, Rewoken
<1>2. ASSUME NEW f \in Waiters, remove(f)
      PROVE  /\ registration[f] # Nil /\ queue' = RemovedFrom(queue, registration[f])
             /\ registration' = [registration EXCEPT ![f] = Nil]
             /\ wakes' = wakes
  BY <1>2, Zenon DEF remove, RemovedFrom
<1>3. ASSUME grant_one
      PROVE  /\ queue.head # Nil /\ queue' = GrantedFirst(queue)
             /\ wakes' = wakes \cup ({queue.slots[queue.head].waker} \ {NoWaker})
             /\ registration' = registration
  BY <1>3, Zenon DEF grant_one, GrantedFirst
<1> QED
  BY ONLY <1>1, <1>2, <1>3

\* The same of grant_all.
LEMMA GrantAllIs ==
    ASSUME grant_all
    PROVE  /\ queue' = GrantedAll(queue, Members(Order(queue)))
           /\ wakes' = wakes \cup ({queue.slots[id].waker : id \in Members(Order(queue))}
                                    \ {NoWaker})
           /\ registration' = registration
  BY Zenon DEF grant_all, GrantedAll, GrantedSlots, Members

\* A step of the queue, in terms of the queue the arena holds before and after.
LEMMA FifoStepIs ==
    ASSUME NEW k, k = KindOf(queue, registration), NEW k2, k2 = KindOf(queue', registration'),
           NEW x, x = FifoIn(queue, registration), NEW x2, x2 = FifoIn(queue', registration'),
           NEW v, v = WakerOf(queue, registration), NEW v2, v2 = WakerOf(queue', registration')
    PROVE  /\ \A f \in Waiters, w \in Wakers \cup {NoWaker} :
                 /\ k2 = [k EXCEPT ![f] = "Queued"]
                 /\ x2 = IF k[f] = "Queued" THEN x ELSE Append(x, f)
                 /\ v2 = IF w = NoWaker THEN v ELSE [v EXCEPT ![f] = w]
                 /\ wakes' = wakes
                 => Abstract!Register(f, w)
           /\ \A f \in Waiters :
                 /\ k[f] # "None" /\ k2 = [k EXCEPT ![f] = "None"]
                 /\ x2 = Abstract!Without(x, f)
                 /\ v2 = [v EXCEPT ![f] = NoWaker]
                 /\ wakes' = wakes
                 => Abstract!Remove(f)
           /\ /\ x # <<>> /\ k2 = [k EXCEPT ![Head(x)] = "One"] /\ x2 = Tail(x)
              /\ v2 = [v EXCEPT ![Head(x)] = NoWaker]
              /\ wakes' = wakes \cup ({v[Head(x)]} \ {NoWaker})
              => Abstract!GrantOne
<1>1. /\ k = [f \in Waiters |-> IF registration[f] = Nil THEN "None"
                                ELSE queue.slots[registration[f]].kind]
      /\ k2 = [f \in Waiters |-> IF registration'[f] = Nil THEN "None"
                                 ELSE queue'.slots[registration'[f]].kind]
      /\ v = [f \in Waiters |-> IF registration[f] = Nil THEN NoWaker
                                ELSE queue.slots[registration[f]].waker]
      /\ v2 = [f \in Waiters |-> IF registration'[f] = Nil THEN NoWaker
                                 ELSE queue'.slots[registration'[f]].waker]
  BY Zenon DEF KindOf, WakerOf
<1>2. /\ x = [i \in 1..Len(Queued) |-> OwnerOf(Queued[i])]
      /\ x2 = [i \in 1..Len(Queued) |-> OwnerOf(Queued[i])]'
  BY Zenon DEF FifoIn, FifoOf, Queued, OwnerOf
<1>3. ASSUME NEW f \in Waiters, NEW w \in Wakers \cup {NoWaker},
             k2 = [k EXCEPT ![f] = "Queued"],
             x2 = IF k[f] = "Queued" THEN x ELSE Append(x, f),
             v2 = IF w = NoWaker THEN v ELSE [v EXCEPT ![f] = w],
             wakes' = wakes
      PROVE  Abstract!Register(f, w)
  BY ONLY <1>1, <1>2, <1>3, Zenon DEF Abstract!Register
<1>4. ASSUME NEW f \in Waiters, k[f] # "None", k2 = [k EXCEPT ![f] = "None"],
             x2 = Abstract!Without(x, f), v2 = [v EXCEPT ![f] = NoWaker], wakes' = wakes
      PROVE  Abstract!Remove(f)
  BY ONLY <1>1, <1>2, <1>4, Zenon DEF Abstract!Remove
<1>5. ASSUME x # <<>>, k2 = [k EXCEPT ![Head(x)] = "One"], x2 = Tail(x),
             v2 = [v EXCEPT ![Head(x)] = NoWaker],
             wakes' = wakes \cup ({v[Head(x)]} \ {NoWaker})
      PROVE  Abstract!GrantOne
  BY ONLY <1>1, <1>2, <1>5, Zenon DEF Abstract!GrantOne, Abstract!GrantHead
<1> QED
  BY ONLY <1>3, <1>4, <1>5, Zenon

\* The same of GrantAll.
LEMMA GrantAllStepIs ==
    ASSUME KindOf(queue', registration') =
              [f \in Waiters |-> IF KindOf(queue, registration)[f] = "Queued" THEN "All"
                                 ELSE KindOf(queue, registration)[f]],
           FifoIn(queue', registration') = <<>>,
           WakerOf(queue', registration') =
              [f \in Waiters |-> IF KindOf(queue, registration)[f] = "Queued" THEN NoWaker
                                 ELSE WakerOf(queue, registration)[f]],
           wakes' = wakes \cup ({WakerOf(queue, registration)[f] :
                                    f \in {g \in Waiters : KindOf(queue, registration)[g] = "Queued"}}
                                 \ {NoWaker})
    PROVE  Abstract!GrantAll
<1>1. FifoIn(queue', registration') = [i \in 1..Len(Queued) |-> OwnerOf(Queued[i])]'
  BY Zenon DEF FifoIn, FifoOf, Queued, OwnerOf
<1> QED
  BY <1>1, Zenon DEF Abstract!GrantAll, KindOf, WakerOf

\* A step of the arena is a step of the queue it holds, and leaves it shared.
LEMMA ArenaStep ==
    ASSUME ArenaInv, Next
    PROVE  ArenaInv' /\ (Abstract!FifoNext \/ UNCHANGED vars)
<1>1. PICK s, fr : Shared(queue, registration, s, fr)
  BY DEF ArenaInv
<1>2. FifoIn(queue, registration) = FifoOf(s, registration) /\ Order(queue) = s
  BY <1>1, FifoIs
<1>3. wakes \in SUBSET Wakers
  BY DEF ArenaInv
<1>4. \A r, reg, t, u : Shared(r, reg, t, u) => FifoIn(r, reg) = FifoOf(t, reg)
  BY FifoIs
<1>5. ASSUME NEW f \in Waiters, NEW w \in Wakers \cup {NoWaker}, register(f, w)
      PROVE  ArenaInv' /\ Abstract!FifoNext
  <2>1. PICK id : id = SlotFor(queue, registration, f)
    OBVIOUS
  <2>2. /\ registration' = [registration EXCEPT ![f] = id]
        /\ queue' = Rewoken(PlacedFor(queue, registration, f), id, w)
        /\ wakes' = wakes
    BY ONLY <1>5, <2>1, f \in Waiters, w \in Wakers \cup {NoWaker}, OperationsAre
  <2>3. PICK s2, t :
           /\ Shared(queue', registration', s2, t)
           /\ KindOf(queue', registration') = [KindOf(queue, registration) EXCEPT ![f] = "Queued"]
           /\ FifoOf(s2, registration') = IF KindOf(queue, registration)[f] = "Queued"
                                          THEN FifoOf(s, registration)
                                          ELSE Append(FifoOf(s, registration), f)
           /\ WakerOf(queue', registration') =
                 IF w = NoWaker THEN WakerOf(queue, registration)
                 ELSE [WakerOf(queue, registration) EXCEPT ![f] = w]
    <3>1. AsRegister(queue, queue', registration, registration', s, f, w)
      BY ONLY <1>1, <2>1, <2>2, f \in Waiters, w \in Wakers \cup {NoWaker}, RegisterAbstract
    <3> QED
      BY ONLY <3>1 DEF AsRegister
  <2>4. ArenaInv'
    BY <2>2, <2>3, <1>3 DEF ArenaInv
  <2>5. FifoIn(queue', registration') = IF KindOf(queue, registration)[f] = "Queued"
                                        THEN FifoIn(queue, registration)
                                        ELSE Append(FifoIn(queue, registration), f)
    BY ONLY <2>3, <1>2, <1>4
  <2>6. Abstract!Register(f, w)
    BY ONLY <2>2, <2>3, <2>5, f \in Waiters, w \in Wakers \cup {NoWaker}, FifoStepIs
  <2> QED
    BY ONLY <2>4, <2>6, f \in Waiters, w \in Wakers \cup {NoWaker} DEF Abstract!FifoNext
<1>6. ASSUME NEW f \in Waiters, remove(f)
      PROVE  ArenaInv' /\ Abstract!FifoNext
  <2>1. PICK id : id = registration[f]
    OBVIOUS
  <2>2. /\ id # Nil /\ queue' = RemovedFrom(queue, id)
        /\ registration' = [registration EXCEPT ![f] = Nil]
        /\ wakes' = wakes
    BY ONLY <1>6, <2>1, f \in Waiters, OperationsAre
  <2>3. PICK s2, t :
           /\ Shared(queue', registration', s2, t)
           /\ KindOf(queue, registration)[f] # "None"
           /\ KindOf(queue', registration') = [KindOf(queue, registration) EXCEPT ![f] = "None"]
           /\ FifoOf(s2, registration') = Abstract!Without(FifoOf(s, registration), f)
           /\ WakerOf(queue', registration') = [WakerOf(queue, registration) EXCEPT ![f] = NoWaker]
    <3>1. AsRemove(queue, queue', registration, registration', s, f)
      BY ONLY <1>1, <2>1, <2>2, f \in Waiters, RemoveAbstract
    <3> QED
      BY ONLY <3>1 DEF AsRemove
  <2>4. ArenaInv'
    BY <2>2, <2>3, <1>3 DEF ArenaInv
  <2>5. FifoIn(queue', registration') = Abstract!Without(FifoIn(queue, registration), f)
    BY ONLY <2>3, <1>2, <1>4
  <2>6. Abstract!Remove(f)
    BY ONLY <2>2, <2>3, <2>5, f \in Waiters, FifoStepIs
  <2>7. [g \in Waiters |-> IF registration[g] = Nil THEN "None"
                           ELSE queue.slots[registration[g]].kind][f] # "None"
    BY ONLY <2>3 DEF KindOf
  <2> QED
    BY ONLY <2>4, <2>6, <2>7, f \in Waiters, Zenon DEF Abstract!FifoNext
<1>7. ASSUME grant_one
      PROVE  ArenaInv' /\ Abstract!FifoNext
  <2>1. /\ queue.head # Nil /\ queue' = GrantedFirst(queue)
        /\ wakes' = wakes \cup ({queue.slots[queue.head].waker} \ {NoWaker})
        /\ registration' = registration
    BY ONLY <1>7, OperationsAre
  <2>2. PICK x, f : x = FifoOf(s, registration) /\ f = Head(x)
    OBVIOUS
  <2>3. /\ Shared(queue', registration, Skip(s, 1), fr)
        /\ x # <<>> /\ f \in Waiters
        /\ queue.slots[queue.head].waker = WakerOf(queue, registration)[f]
        /\ KindOf(queue', registration) = [KindOf(queue, registration) EXCEPT ![f] = "One"]
        /\ FifoOf(Skip(s, 1), registration) = Tail(x)
        /\ WakerOf(queue', registration) = [WakerOf(queue, registration) EXCEPT ![f] = NoWaker]
    <3>1. AsGrantOne(queue, queue', registration, s, fr, x, f)
      BY ONLY <1>1, <2>1, <2>2, GrantOneAbstract
    <3> QED
      BY ONLY <3>1 DEF AsGrantOne
  <2>4. ArenaInv'
    <3>1. queue.slots[queue.head].waker \in Wakers \cup {NoWaker}
      <4>1. queue.head \in Ids(queue) /\ queue \in Arena
        BY ONLY <1>1, <2>1, Ends DEF Shared
      <4> QED
        BY ONLY <4>1, SlotFields
    <3> QED
      BY ONLY <2>1, <2>3, <3>1, <1>3 DEF ArenaInv
  <2>5. FifoIn(queue', registration') = Tail(FifoIn(queue, registration))
    <3>1. FifoIn(queue', registration) = FifoOf(Skip(s, 1), registration)
      BY ONLY <2>3, <1>4
    <3>2. x = FifoIn(queue, registration)
      BY ONLY <2>2, <1>2
    <3> QED
      BY ONLY <2>1, <2>3, <3>1, <3>2
  <2>6. Abstract!GrantOne
    <3>1. PICK k, k2, x2, v, v2 :
             /\ k = KindOf(queue, registration) /\ k2 = KindOf(queue', registration')
             /\ x2 = FifoIn(queue', registration')
             /\ v = WakerOf(queue, registration) /\ v2 = WakerOf(queue', registration')
      OBVIOUS
    <3>2. x = FifoIn(queue, registration) /\ f = Head(x)
      BY ONLY <2>2, <1>2
    <3>3. /\ x # <<>> /\ k2 = [k EXCEPT ![Head(x)] = "One"] /\ x2 = Tail(x)
          /\ v2 = [v EXCEPT ![Head(x)] = NoWaker]
          /\ wakes' = wakes \cup ({v[Head(x)]} \ {NoWaker})
      BY ONLY <2>1, <2>3, <2>5, <3>1, <3>2
    <3> QED
      BY ONLY <3>1, <3>2, <3>3, FifoStepIs
  <2> QED
    BY ONLY <2>4, <2>6 DEF Abstract!FifoNext
<1>8. ASSUME grant_all
      PROVE  ArenaInv' /\ Abstract!FifoNext
  <2>2. /\ queue' = GrantedAll(queue, Members(s))
        /\ wakes' = wakes \cup ({queue.slots[id].waker : id \in Members(s)} \ {NoWaker})
        /\ registration' = registration
    BY ONLY <1>2, <1>8, GrantAllIs
  <2> DEFINE queued == {g \in Waiters : KindOf(queue, registration)[g] = "Queued"}
  <2>3. /\ Shared(queue', registration, <<>>, fr)
        /\ {queue.slots[id].waker : id \in Members(s)}
              = {WakerOf(queue, registration)[g] : g \in queued}
        /\ KindOf(queue', registration) =
              [g \in Waiters |-> IF KindOf(queue, registration)[g] = "Queued" THEN "All"
                                 ELSE KindOf(queue, registration)[g]]
        /\ WakerOf(queue', registration) =
              [g \in Waiters |-> IF KindOf(queue, registration)[g] = "Queued" THEN NoWaker
                                 ELSE WakerOf(queue, registration)[g]]
    <3>1. AsGrantAll(queue, queue', registration, s, fr)
      BY ONLY <1>1, <2>2, GrantAllAbstract
    <3> QED
      BY ONLY <3>1, Zenon DEF AsGrantAll
  <2>4. ArenaInv'
    <3>1. queue \in Arena /\ Members(s) \subseteq Ids(queue)
      BY ONLY <1>1 DEF Shared, Linked, SlotsOnce, Members
    <3>2. \A id \in Members(s) : queue.slots[id].waker \in Wakers \cup {NoWaker}
      BY ONLY <3>1, SlotFields
    <3> QED
      BY ONLY <2>2, <2>3, <3>2, <1>3 DEF ArenaInv
  <2>5. FifoIn(queue', registration') = <<>>
    <3>1. FifoOf(<<>>, registration) = <<>>
      BY DEF FifoOf
    <3> QED
      BY ONLY <2>2, <2>3, <3>1, <1>4
  <2>6. Abstract!GrantAll
    BY ONLY <2>2, <2>3, <2>5, GrantAllStepIs
  <2> QED
    BY ONLY <2>4, <2>6 DEF Abstract!FifoNext
<1>9. ASSUME NEW w \in Wakers, invoke(w)
      PROVE  ArenaInv' /\ Abstract!FifoNext
  <2>1. w \in wakes /\ wakes' = wakes \ {w} /\ queue' = queue /\ registration' = registration
    BY <1>9 DEF invoke
  <2>2. ArenaInv'
    BY ONLY <2>1, <1>1, <1>3 DEF ArenaInv
  <2>3. Abstract!Wake(w)
    BY ONLY <2>1 DEF Abstract!Wake, Queued, OwnerOf
  <2> QED
    BY ONLY <2>2, <2>3, w \in Wakers DEF Abstract!FifoNext
<1> QED
  BY <1>5, <1>6, <1>7, <1>8, <1>9 DEF Next

\* The inductive invariant of WaitQueue of sync.rs: after any registrations,
\* cancellations and grants there are a chain and a free list which share out
\* the slots that register, remove, grant_one and grant_all write.
THEOREM ArenaInvariant == Spec => []ArenaInv
<1>1. Init => ArenaInv
  BY ArenaInvInit DEF ArenaInv
<1>2. ArenaInv /\ [Next]_vars => ArenaInv'
  <2>1. ASSUME ArenaInv, UNCHANGED vars
        PROVE  ArenaInv'
    BY <2>1 DEF ArenaInv, vars
  <2> QED
    BY <2>1, ArenaStep
<1> QED
  BY <1>1, <1>2, PTL DEF Spec

\* The arena is sound, for any number of waiters: a slot is on the free list or
\* the registration of one future, so that an index a future still holds is
\* never handed to another, and the links of the queued ones agree in both
\* directions, whichever waiters unlink removed from the middle.
THEOREM ArenaSound == Spec => []ArenaIsSound
<1>1. ArenaInv => ArenaIsSound
  BY SharedIsSound DEF ArenaInv
<1> QED
  BY <1>1, ArenaInvariant, PTL

\* The arena serves first come, first served: each of register, remove,
\* grant_one and grant_all is the step of that name of WaitFifo, on the queue
\* that the links from head to tail spell out. It is the queue over which
\* Notify, Semaphore and RwLock are specified and proved.
THEOREM ArenaIsFifo == Spec => ImplementsFifo
<1>1. Init => Abstract!FifoInit
  <2>1. SUFFICES ASSUME Init PROVE Abstract!FifoInit
    OBVIOUS
  <2>2. Queued = <<>>
    BY <2>1, ArenaInvInit, FifoIs DEF Queued
  <2>3. [i \in 1..Len(Queued) |-> OwnerOf(Queued[i])] = <<>>
    BY ONLY <2>2
  <2> QED
    BY <2>1, <2>3 DEF Init, Abstract!FifoInit
<1>2. ArenaInv /\ [Next]_vars => [Abstract!FifoNext]_(Abstract!fifoVars)
  <2>1. ASSUME UNCHANGED vars
        PROVE  UNCHANGED Abstract!fifoVars
    BY <2>1 DEF vars, Abstract!fifoVars, Queued, OwnerOf
  <2> QED
    BY <2>1, ArenaStep
<1> QED
  BY <1>1, <1>2, ArenaInvariant, PTL DEF Spec, ImplementsFifo, Abstract!FifoSpec

HIDE DEF Nil

-----------------------------------------------------------------------------
(* The slot map of the reactor.                                            *)

\* The socket has a slot, from register to deregister.
Registered(s) == pc[s] \in {"adding", "failed", "live", "removing", "dropping"}

\* The socket has its descriptor: from socket() to close().
Owns(s) ==
    \/ pc[s] \in {"open", "adding", "failed", "live", "closing"}
    \/ pc[s] = "dropping" /\ s \notin ClosesFirst

\* Indices are handed out once, so that a registration has one of its own.
IndexExact ==
    \A s \in Sockets :
        /\ index[s] # None <=> Registered(s)
        /\ index[s] < next_index
        /\ \A t \in Sockets : index[s] = index[t] /\ index[s] # None => s = t

\* A number in use refers to the socket that uses it.
NumberIsOwn == \A s \in Sockets : Owns(s) => fd[s] \in Fds /\ open[fd[s]] = s

\* The poller's table, and the events read from it, name the socket they are
\* about or an index nobody has any more.
NamesItsSocket(i, s) ==
    i < next_index /\ s \in Sockets /\ \A t \in Sockets : index[t] = i => t = s

\* The two tables that outlive a registration: the poller's and the batch of
\* events read from it.
WatchesExact == \A f \in Fds : watched[f] # None => NamesItsSocket(watched[f], open[f])

\* The same of the events that are still to be dispatched.
BatchExact == \A e \in batch : NamesItsSocket(e[1], e[2])

\* The inductive invariant. A slot is found by its index, so the properties
\* rest on indices not being used twice, and on stale ones naming nobody
\* else.
RegistryInv ==
    /\ SlotsExact /\ IndexExact /\ NumberIsOwn /\ WatchesExact /\ BatchExact
    /\ EventReachesItsSocket

USE RegistryAssumption DEF None

-----------------------------------------------------------------------------
\* The invariant holds before the first socket is opened.
LEMMA RegistryStart == RegistryInit => RegistryInv
<1> SUFFICES ASSUME RegistryInit PROVE RegistryInv
  OBVIOUS
<1> USE DEF RegistryInit
<1>1. RegistryTypeOK
  BY DEF RegistryTypeOK
<1>2. SlotsExact
  BY <1>1 DEF SlotsExact
<1>3. IndexExact /\ NumberIsOwn
  BY DEF IndexExact, Registered, NumberIsOwn, Owns
<1> QED
  BY <1>2, <1>3 DEF RegistryInv, WatchesExact, BatchExact, EventReachesItsSocket

\* socket(), accept(): a number is taken that no socket uses. The poller's
\* table may still have it under an old index, which has no slot.
LEMMA OpenInv ==
    ASSUME RegistryInv, NEW s \in Sockets, Open(s)
    PROVE  RegistryInv'
<1> USE DEF RegistryInv, SlotsExact, RegistryTypeOK
<1>1. PICK f \in Fds : /\ open[f] = None /\ open' = [open EXCEPT ![f] = s]
                       /\ fd' = [fd EXCEPT ![s] = f]
  BY DEF Open
<1>2. /\ pc[s] = "none" /\ pc' = [pc EXCEPT ![s] = "open"]
      /\ UNCHANGED <<watched, slots, next_index, index, batch, woken>>
  BY DEF Open, Goto
<1>3. SlotsExact'
  BY <1>1, <1>2
<1>4. IndexExact'
  BY <1>2 DEF IndexExact, Registered
<1>5. NumberIsOwn'
  BY <1>1, <1>2 DEF NumberIsOwn, Owns
<1>6. WatchesExact' /\ BatchExact'
  BY <1>1, <1>2 DEF WatchesExact, BatchExact, NamesItsSocket
<1> QED
  BY <1>2, <1>3, <1>4, <1>5, <1>6 DEF EventReachesItsSocket

\* Handle::register: the next index, which nothing mentions yet.
LEMMA RegisterInvariant ==
    ASSUME RegistryInv, NEW s \in Sockets, HandleRegister(s)
    PROVE  RegistryInv'
<1> USE DEF RegistryInv, SlotsExact, RegistryTypeOK
<1>1. /\ pc[s] = "open" /\ pc' = [pc EXCEPT ![s] = "adding"] /\ next_index <= MaxIndex
      /\ index' = [index EXCEPT ![s] = next_index]
      /\ slots' = slots \cup {next_index} /\ next_index' = next_index + 1
      /\ UNCHANGED <<open, watched, fd, batch, woken>>
  BY DEF HandleRegister, Goto
<1>2. RegistryTypeOK'
  BY <1>1
<1>3. SlotsExact'
  BY <1>1, <1>2
<1>4. IndexExact'
  BY <1>1 DEF IndexExact, Registered
<1>5. NumberIsOwn'
  BY <1>1 DEF NumberIsOwn, Owns
<1>6. WatchesExact' /\ BatchExact'
  BY <1>1 DEF WatchesExact, BatchExact, NamesItsSocket
<1> QED
  BY <1>1, <1>3, <1>4, <1>5, <1>6 DEF EventReachesItsSocket

\* Poller::add, or its failure: the number is watched under the socket's own
\* index.
LEMMA AddInv ==
    ASSUME RegistryInv, NEW s \in Sockets, PollerAdd(s)
    PROVE  RegistryInv'
<1> USE DEF RegistryInv, SlotsExact, RegistryTypeOK
<1>1. /\ pc[s] = "adding" /\ pc' = [pc EXCEPT ![s] = "live"]
      /\ watched' = [watched EXCEPT ![fd[s]] = index[s]]
      /\ UNCHANGED <<open, slots, next_index, fd, index, batch, woken>>
  BY DEF PollerAdd, Goto
<1>2. /\ fd[s] \in Fds /\ open[fd[s]] = s /\ index[s] \in 1..MaxIndex
      /\ NamesItsSocket(index[s], s)
  BY <1>1 DEF NumberIsOwn, Owns, IndexExact, Registered, NamesItsSocket
<1>3. SlotsExact'
  BY <1>1, <1>2
<1>4. IndexExact'
  BY <1>1 DEF IndexExact, Registered
<1>5. NumberIsOwn'
  BY <1>1 DEF NumberIsOwn, Owns
<1>6. WatchesExact' /\ BatchExact'
  BY <1>1, <1>2 DEF WatchesExact, BatchExact, NamesItsSocket
<1> QED
  BY <1>1, <1>3, <1>4, <1>5, <1>6 DEF EventReachesItsSocket

\* Poller::add refused the descriptor: nothing has changed but the step.
LEMMA AddFailsInv ==
    ASSUME RegistryInv, NEW s \in Sockets, PollerAddFails(s)
    PROVE  RegistryInv'
<1> USE DEF RegistryInv, SlotsExact, RegistryTypeOK
<1>1. /\ pc[s] = "adding" /\ pc' = [pc EXCEPT ![s] = "failed"]
      /\ UNCHANGED <<open, watched, slots, next_index, fd, index, batch, woken>>
  BY DEF PollerAddFails, Goto
<1>2. SlotsExact'
  BY <1>1
<1>3. IndexExact' /\ NumberIsOwn'
  BY <1>1 DEF IndexExact, Registered, NumberIsOwn, Owns
<1> QED
  BY <1>1, <1>2, <1>3 DEF WatchesExact, BatchExact, NamesItsSocket, EventReachesItsSocket

\* The slot of one registration leaves the map, after an error or a drop.
LEMMA SlotLeaves ==
    ASSUME RegistryInv, NEW s \in Sockets, RegisterErr(s) \/ RemoveSlot(s)
    PROVE  RegistryInv'
<1> USE DEF RegistryInv, SlotsExact, RegistryTypeOK
<1>1. /\ pc[s] \in {"failed", "dropping"}
      /\ \/ pc' = [pc EXCEPT ![s] = "closing"] /\ fd' = fd
            /\ (pc[s] = "dropping" => s \notin ClosesFirst)
         \/ pc' = [pc EXCEPT ![s] = "none"] /\ fd' = [fd EXCEPT ![s] = None]
      /\ slots' = slots \ {index[s]} /\ index' = [index EXCEPT ![s] = None]
      /\ UNCHANGED <<open, watched, next_index, batch, woken>>
  BY DEF RegisterErr, RemoveSlot, Goto, CloseComesFirst
<1>2. PICK to \in {"closing", "none"} : pc' = [pc EXCEPT ![s] = to]
  BY <1>1
<1>3. /\ fd' \in [Sockets -> Fds \cup {None}] /\ slots' \in SUBSET (1..MaxIndex)
      /\ index' \in [Sockets -> 0..MaxIndex]
  BY <1>1
<1>4. RegistryTypeOK'
  BY <1>1, <1>2, <1>3
<1>5. slots' = {index'[t] : t \in {u \in Sockets : Registered(u)'}}
  <2>1. \A t \in Sockets : Registered(t)' <=> t # s /\ Registered(t)
    BY <1>1, <1>2 DEF Registered
  <2>2. \A t \in Sockets \ {s} : index'[t] = index[t]
                            /\ (Registered(t) => index[t] # index[s])
    BY <1>1 DEF IndexExact
  <2>3. slots = {index[t] : t \in {u \in Sockets : Registered(u)}}
    BY DEF Registered
  <2> HIDE DEF RegistryInv, SlotsExact
  <2> QED
    BY <1>1, <2>1, <2>2, <2>3
<1>6. SlotsExact'
  BY <1>4, <1>5 DEF Registered
<1>7. IndexExact'
  BY <1>1, <1>2 DEF IndexExact, Registered
<1>8. NumberIsOwn'
  BY <1>1 DEF NumberIsOwn, Owns
<1>9. WatchesExact' /\ BatchExact'
  BY <1>1 DEF WatchesExact, BatchExact, NamesItsSocket
<1> QED
  BY <1>1, <1>6, <1>7, <1>8, <1>9 DEF EventReachesItsSocket

\* The descriptor is closed, first or last.
LEMMA CloseInv ==
    ASSUME RegistryInv, NEW s \in Sockets, DropClosing(s) \/ CloseLast(s)
    PROVE  RegistryInv'
<1> USE DEF RegistryInv, SlotsExact, RegistryTypeOK
<1>1. /\ \/ pc[s] = "live" /\ pc' = [pc EXCEPT ![s] = "removing"] /\ fd' = fd
         \/ pc[s] = "closing" /\ pc' = [pc EXCEPT ![s] = "none"]
            /\ fd' = [fd EXCEPT ![s] = None]
      /\ open' = [open EXCEPT ![fd[s]] = None] /\ watched' = [watched EXCEPT ![fd[s]] = None]
      /\ UNCHANGED <<slots, next_index, index, batch, woken>>
  BY DEF DropClosing, CloseLast, Close, Goto
<1>2. fd[s] \in Fds /\ open[fd[s]] = s
  BY <1>1 DEF NumberIsOwn, Owns
<1>3. /\ open' \in [Fds -> Sockets \cup {None}] /\ watched' \in [Fds -> 0..MaxIndex]
      /\ fd' \in [Sockets -> Fds \cup {None}]
  <2>1. 0 \in 0..MaxIndex /\ 0 \in Sockets \cup {None}
    OBVIOUS
  <2>2. watched' \in [Fds -> 0..MaxIndex]
    BY <1>1, <2>1
  <2>3. open' \in [Fds -> Sockets \cup {None}]
    BY <1>1, <2>1
  <2>4. fd' \in [Sockets -> Fds \cup {None}]
    BY <1>1
  <2> QED
    BY <2>2, <2>3, <2>4
<1>4. RegistryTypeOK' /\ (\A t \in Sockets : Registered(t)' <=> Registered(t))
  <2>1. pc' \in [Sockets -> {"none", "open", "adding", "failed", "live", "removing",
                             "dropping", "closing"}]
    BY <1>1
  <2>2. \A t \in Sockets : t # s => pc'[t] = pc[t]
    BY <1>1
  <2>3. pc'[s] \in {"removing", "none"} /\ (pc'[s] = "removing" <=> pc[s] = "live")
        /\ pc[s] \in {"live", "closing"}
    BY <1>1
  <2>4. \A t \in Sockets : Registered(t)' <=> Registered(t)
    BY ONLY <2>2, <2>3, s \in Sockets DEF Registered
  <2>5. RegistryTypeOK'
    BY <1>1, <1>3, <2>1
  <2> QED
    BY ONLY <2>4, <2>5
<1>5. SlotsExact'
  BY <1>1, <1>4 DEF Registered
<1>6. IndexExact'
  BY <1>1, <1>4 DEF IndexExact
<1>7. NumberIsOwn'
  <2> SUFFICES ASSUME NEW t \in Sockets, Owns(t)' PROVE fd'[t] \in Fds /\ open'[fd'[t]] = t
    BY DEF NumberIsOwn
  <2>1. t # s /\ Owns(t) /\ fd'[t] = fd[t]
    BY <1>1 DEF Owns
  <2> QED
    BY <1>1, <1>2, <2>1 DEF NumberIsOwn
<1>8. WatchesExact' /\ BatchExact'
  BY <1>1, <1>2 DEF WatchesExact, BatchExact, NamesItsSocket
<1> QED
  BY <1>1, <1>5, <1>6, <1>7, <1>8 DEF EventReachesItsSocket

\* The drop of a registration: remove by number, which may be another's by
\* then, and the slot goes.
LEMMA RegistrationDropInv ==
    ASSUME RegistryInv, NEW s \in Sockets, RegistrationDrop(s)
    PROVE  RegistryInv'
<1> USE DEF RegistryInv, SlotsExact, RegistryTypeOK
<1>1. /\ pc' = [pc EXCEPT ![s] = "dropping"] /\ watched' = [watched EXCEPT ![fd[s]] = None]
      /\ \/ pc[s] = "removing" /\ s \in ClosesFirst
         \/ pc[s] = "live" /\ s \notin ClosesFirst
      /\ UNCHANGED <<open, slots, next_index, fd, index, batch, woken>>
  BY DEF RegistrationDrop, Goto, CloseComesFirst
<1>2. RegistryTypeOK' /\ (\A t \in Sockets : Registered(t)' <=> Registered(t))
  <2>1. 0 \in 0..MaxIndex
    OBVIOUS
  <2>2. watched' \in [Fds -> 0..MaxIndex]
    BY <1>1, <2>1
  <2> QED
    BY <1>1, <2>2 DEF Registered
<1>3. SlotsExact'
  BY <1>1, <1>2 DEF Registered
<1>4. IndexExact'
  BY <1>1, <1>2 DEF IndexExact
<1>5. NumberIsOwn'
  BY <1>1 DEF NumberIsOwn, Owns
<1>6. WatchesExact' /\ BatchExact'
  BY <1>1 DEF WatchesExact, BatchExact, NamesItsSocket
<1> QED
  BY <1>1, <1>3, <1>4, <1>5, <1>6 DEF EventReachesItsSocket

\* Poller::wait reads events from the table; dispatch looks their slots up.
LEMMA ReactorInv ==
    ASSUME RegistryInv, Wait \/ dispatch
    PROVE  RegistryInv'
<1> USE DEF RegistryInv, SlotsExact, RegistryTypeOK
<1>1. CASE Wait
  <2>1. PICK ready \in SUBSET {f \in Fds : watched[f] # None} :
             batch' = {<<watched[f], open[f]>> : f \in ready}
    BY <1>1 DEF Wait
  <2>2. UNCHANGED <<open, watched, slots, next_index, pc, fd, index, woken>>
    BY <1>1 DEF Wait
  <2>3. BatchExact'
    BY <2>1, <2>2 DEF BatchExact, WatchesExact, NamesItsSocket
  <2>4. batch' \in SUBSET ((1..MaxIndex) \X Sockets)
    BY <2>1 DEF WatchesExact, NamesItsSocket
  <2> QED
    BY <2>2, <2>3, <2>4 DEF IndexExact, Registered, NumberIsOwn, Owns, WatchesExact,
       NamesItsSocket, EventReachesItsSocket
<1>2. CASE dispatch
  <2>1. PICK e \in batch : /\ batch' = batch \ {e}
                           /\ woken' = IF e[1] \in slots
                                THEN {<<e[2], s>> : s \in {t \in Sockets : index[t] = e[1]}}
                                ELSE {}
    BY <1>2 DEF dispatch
  <2>2. UNCHANGED <<open, watched, slots, next_index, pc, fd, index>>
    BY <1>2 DEF dispatch
  <2>3. woken' \in SUBSET (Sockets \X Sockets) /\ EventReachesItsSocket'
    BY <2>1 DEF BatchExact, NamesItsSocket, EventReachesItsSocket
  <2>4. BatchExact'
    BY <2>1, <2>2 DEF BatchExact, NamesItsSocket
  <2> QED
    BY <2>1, <2>2, <2>3, <2>4 DEF IndexExact, Registered, NumberIsOwn, Owns, WatchesExact,
       NamesItsSocket
<1> QED
  BY <1>1, <1>2

\* Every step keeps the invariant, one case for each action.
LEMMA RegistryStep == RegistryInv /\ [RegistryNext]_registryVars => RegistryInv'
<1>1. ASSUME RegistryInv, UNCHANGED registryVars PROVE RegistryInv'
  BY <1>1 DEF registryVars, RegistryInv, SlotsExact, RegistryTypeOK, IndexExact, Registered,
     NumberIsOwn, Owns, WatchesExact, BatchExact, NamesItsSocket, EventReachesItsSocket
<1> QED
  BY <1>1, OpenInv, RegisterInvariant, AddInv, AddFailsInv, SlotLeaves, CloseInv,
     RegistrationDropInv,
     ReactorInv DEF RegistryNext

\* The invariant holds in every state.
LEMMA RegistryInvariant == RegistrySpec => []RegistryInv
BY RegistryStart, RegistryStep, PTL DEF RegistrySpec

-----------------------------------------------------------------------------
\* The slot map holds the registrations and nothing else, whatever adds fail
\* and in whatever order sockets are dropped (Handle::register,
\* Registration::drop).
THEOREM NoSlotLeaks == RegistrySpec => []SlotsExact
<1>1. RegistryInv => SlotsExact
  BY DEF RegistryInv
<1> QED
  BY <1>1, RegistryInvariant, PTL

\* An event read before a drop and dispatched after it never reaches another
\* socket that got the descriptor number (dispatch).
THEOREM StaleEventsReachNobody == RegistrySpec => []EventReachesItsSocket
<1>1. RegistryInv => EventReachesItsSocket
  BY DEF RegistryInv
<1> QED
  BY <1>1, RegistryInvariant, PTL

\* A socket in use stays in the poller under its own token, but for the late
\* removal by a socket that closed first (Poller::remove by number).
THEOREM WatchesAreKept == RegistrySpec => WatchLostOnlyToLateRemove
<1> DEFINE Kept == \A s \in Sockets :
              pc[s] = "live" /\ pc'[s] = "live" /\ watched[fd[s]] = index[s]
                 => \/ watched'[fd[s]] = index[s]
                    \/ \E t \in ClosesFirst \ {s} : pc[t] = "removing" /\ fd[t] = fd[s]
<1>1. RegistryInv /\ [RegistryNext]_registryVars => [Kept]_registryVars
  <2> SUFFICES ASSUME RegistryInv, RegistryNext,
                      NEW s \in Sockets, pc[s] = "live", pc'[s] = "live",
                      watched[fd[s]] = index[s], watched'[fd[s]] # index[s]
               PROVE  \E t \in ClosesFirst \ {s} : pc[t] = "removing" /\ fd[t] = fd[s]
    OBVIOUS
  <2> USE DEF RegistryInv, SlotsExact, RegistryTypeOK, Goto
  <2>1. fd[s] \in Fds /\ \A t \in Sockets : Owns(t) /\ fd[t] = fd[s] => t = s
    BY DEF NumberIsOwn, Owns
  <2>2. watched' # watched
    OBVIOUS
  <2>3. PICK t \in Sockets : \/ PollerAdd(t) \/ DropClosing(t) \/ CloseLast(t)
                             \/ RegistrationDrop(t)
    BY <2>2 DEF RegistryNext, Open, HandleRegister, PollerAddFails, RegisterErr, RemoveSlot,
       Wait, dispatch
  <2>4. fd[t] = fd[s]
    BY <2>1, <2>3 DEF PollerAdd, DropClosing, CloseLast, Close, RegistrationDrop
  <2>5. t # s
    BY <2>3 DEF PollerAdd, DropClosing, CloseLast, Close, RegistrationDrop, CloseComesFirst
  <2>6. ~Owns(t)
    BY <2>1, <2>4, <2>5
  <2> QED
    BY <2>3, <2>4, <2>5, <2>6 DEF PollerAdd, DropClosing, CloseLast, Close,
       RegistrationDrop, CloseComesFirst, Owns
<1> QED
  BY <1>1, RegistryInvariant, PTL DEF RegistrySpec, WatchLostOnlyToLateRemove

HIDE RegistryAssumption DEF None

-----------------------------------------------------------------------------
(* The timer heap.                                                         *)

\* A timer of the heap: its deadline and its number.
Entry == Times \X (1..MaxArmed)

\* a may stand below b.
Later(a, b) == ~Greater(a, b)

\* Every entry is below its parent, but for the one that is sifted up, or the
\* children of the one that is sifted down; those are below its parent.
Ordered(e, direction, k) ==
    /\ \A i \in 2..Len(e) : \/ direction = "up" /\ i = k
                            \/ direction = "down" /\ i \div 2 = k
                            \/ Later(e[i], e[i \div 2])
    /\ direction # "none" /\ k > 1 =>
          \A i \in 2..Len(e) : i \div 2 = k => Later(e[i], e[k \div 2])

\* The types, with the loop's index inside the vector.
HeapTypes ==
    /\ heap \in [entries : Seq(Entry), index : [1..MaxArmed -> Nat]]
    /\ sift \in {"none", "up", "down"} /\ at \in Nat /\ seq \in 0..MaxArmed
    /\ sift # "none" => at \in 1..Len(heap.entries)

\* Every slot knows where its entry is, and a number is not given out twice.
IndexExactly ==
    \A i \in 1..Len(heap.entries) :
        heap.index[heap.entries[i][2]] = i /\ heap.entries[i][2] <= seq

\* The inductive invariant of the timer heap.
HeapInv == HeapTypes /\ IndexExactly /\ Ordered(heap.entries, sift, at)

-----------------------------------------------------------------------------
\* The place above an entry.
LEMMA Parent ==
    ASSUME NEW i \in Nat, i > 1
    PROVE  /\ i \div 2 \in Nat /\ i \div 2 >= 1 /\ i \div 2 < i
           /\ \A k \in Nat : i \div 2 = k <=> i = 2 * k \/ i = 2 * k + 1
BY SMT

\* The places that have a child.
LEMMA Halves ==
    ASSUME NEW n \in Nat, NEW k \in Nat
    PROVE  k <= n \div 2 <=> 2 * k <= n
BY SMT

\* An entry is a deadline and a number.
LEMMA EntryParts ==
    ASSUME NEW a \in Entry
    PROVE  a = <<a[1], a[2]>> /\ a[1] \in Times /\ a[1] \in Nat /\ a[2] \in 1..MaxArmed
<1>1. PICK t \in Times, n \in 1..MaxArmed : a = <<t, n>>
  BY DEF Entry
<1>2. t \in Nat
  BY TimerHeapAssumption
<1> QED
  BY <1>1, <1>2

\* Entries are in a total order: earlier deadline first, and then earlier
\* number.
LEMMA LaterOrder ==
    /\ \A a, b, c \in Entry : Later(a, b) /\ Later(b, c) => Later(a, c)
    /\ \A a, b \in Entry : Greater(a, b) => Later(b, a)
    /\ \A a, b \in Entry : Later(a, b) => a = b \/ Greater(b, a)
    /\ \A a \in Entry : Later(a, a)
<1>1. \A a \in Entry : a = <<a[1], a[2]>> /\ a[1] \in Nat /\ a[2] \in Nat
  BY EntryParts, TimerHeapAssumption
<1>2. \A a, b \in Entry : a[1] = b[1] /\ a[2] = b[2] => a = b
  BY <1>1
<1>3. \A a, b, c \in Entry : Later(a, b) /\ Later(b, c) => Later(a, c)
  BY <1>1 DEF Later, Greater
<1>4. \A a, b \in Entry : Greater(a, b) => Later(b, a)
  BY <1>1 DEF Later, Greater
<1>5. \A a, b \in Entry : Later(a, b) => a = b \/ Greater(b, a)
  BY <1>1, <1>2 DEF Later, Greater
<1>6. \A a \in Entry : Later(a, a)
  BY <1>1 DEF Later, Greater
<1> QED
  BY <1>3, <1>4, <1>5, <1>6

\* The top of an ordered heap is before all others: the first that was not
\* would be before its parent.
LEMMA TopIsLeast ==
    ASSUME NEW e \in Seq(Entry), NEW k, Ordered(e, "none", k)
    PROVE  \A i \in 1..Len(e) : Later(e[i], e[1])
<1> DEFINE S == {i \in 1..Len(e) : ~Later(e[i], e[1])}
<1>1. SUFFICES ASSUME S # {} PROVE FALSE
  OBVIOUS
<1>2. PICK m \in S : \A n \in S : m <= n
  <2>1. S \in SUBSET Nat
    OBVIOUS
  <2> HIDE DEF S
  <2> QED
    BY <1>1, <2>1, LeastNumber
<1>3. m \in 1..Len(e) /\ ~Later(e[m], e[1]) /\ e[m] \in Entry /\ e[1] \in Entry
  BY <1>2
<1>4. m > 1
  BY <1>3, LaterOrder
<1>5. m \div 2 \in 1..Len(e) /\ m \div 2 < m
  BY <1>3, <1>4, Parent
<1>6. Later(e[m \div 2], e[1])
  BY <1>2, <1>5
<1>7. Later(e[m], e[m \div 2])
  BY <1>3, <1>4 DEF Ordered
<1> QED
  BY <1>3, <1>5, <1>6, <1>7, LaterOrder

\* g is e with the entries at a and b exchanged.
Exchanged(e, g, a, b) ==
    /\ g \in Seq(Entry) /\ Len(g) = Len(e) /\ g[a] = e[b] /\ g[b] = e[a]
    /\ \A i \in 1..Len(e) : i # a /\ i # b => g[i] = e[i]

\* A turn of sift_up leaves the parent's place as the only one in doubt.
LEMMA TurnUp ==
    ASSUME NEW e \in Seq(Entry), NEW g, NEW k \in 2..Len(e), Ordered(e, "up", k),
           Greater(e[k], e[k \div 2]), Exchanged(e, g, k, k \div 2)
    PROVE  Ordered(g, "up", k \div 2)
<1> DEFINE p == k \div 2
<1>1. p \in 1..Len(e) /\ p < k
  BY Parent
<1>2. \A i \in 1..Len(e) : e[i] \in Entry
  OBVIOUS
<1>3. /\ g[k] = e[p] /\ g[p] = e[k] /\ Len(g) = Len(e)
      /\ \A i \in 1..Len(e) : i # k /\ i # p => g[i] = e[i]
  BY DEF Exchanged
<1>4. ASSUME NEW i \in 2..Len(e)
      PROVE  /\ i \div 2 \in 1..Len(e) /\ i \div 2 < i
             /\ i # k => Later(e[i], e[i \div 2])
             /\ i \div 2 = k => Later(e[i], e[p])
  <2>1. i \div 2 \in 1..Len(e) /\ i \div 2 < i
    BY Parent
  <2> QED
    BY <2>1 DEF Ordered
<1>5. Greater(e[k], e[p])
  OBVIOUS
<1>6. ASSUME NEW i \in 2..Len(e), i # p
      PROVE  Later(g[i], g[i \div 2])
  <2>1. CASE i = k
    BY <2>1, <1>1, <1>2, <1>3, <1>5, LaterOrder
  <2>2. CASE i \div 2 = k
    <3>1. i # k /\ i # p
      BY <2>2, <1>1, <1>4, <1>6
    <3> QED
      BY <2>2, <3>1, <1>3, <1>4
  <2>3. CASE i # k /\ i \div 2 = p
    <3>1. Later(e[i], e[p]) /\ Later(e[p], e[k])
      BY <2>3, <1>1, <1>2, <1>4, <1>5, LaterOrder
    <3>2. g[i] = e[i] /\ g[i \div 2] = e[k]
      BY <2>3, <1>3, <1>6
    <3> QED
      BY <3>1, <3>2, <1>1, <1>2, LaterOrder
  <2>4. CASE i # k /\ i \div 2 # k /\ i \div 2 # p
    BY <2>4, <1>3, <1>4, <1>6
  <2> QED
    BY <2>1, <2>2, <2>3, <2>4
<1>7. ASSUME p > 1, NEW i \in 2..Len(e), i \div 2 = p
      PROVE  Later(g[i], g[p \div 2])
  <2>1. /\ p \div 2 \in 1..Len(e) /\ p \div 2 # p /\ p \div 2 # k
        /\ Later(e[p], e[p \div 2])
    BY <1>1, <1>4, <1>7
  <2>2. g[p \div 2] = e[p \div 2]
    BY <2>1, <1>3
  <2>3. CASE i = k
    BY <2>1, <2>2, <2>3, <1>3
  <2>4. CASE i # k
    <3>1. i # p /\ Later(e[i], e[p])
      BY <2>4, <1>4, <1>7
    <3> QED
      BY <2>1, <2>2, <2>4, <3>1, <1>1, <1>2, <1>3, LaterOrder
  <2> QED
    BY <2>3, <2>4
<1> QED
  BY <1>3, <1>6, <1>7 DEF Ordered

\* A turn of sift_down, with the earlier of the two children.
LEMMA TurnDown ==
    ASSUME NEW e \in Seq(Entry), NEW g, NEW k \in 1..Len(e), NEW c \in 2..Len(e),
           Ordered(e, "down", k), c \div 2 = k, Greater(e[c], e[k]),
           \A i \in 2..Len(e) : i \div 2 = k => Later(e[i], e[c]),
           Exchanged(e, g, k, c)
    PROVE  Ordered(g, "down", c)
<1>1. k < c
  BY Parent
<1>2. \A i \in 1..Len(e) : e[i] \in Entry
  OBVIOUS
<1>3. /\ g[k] = e[c] /\ g[c] = e[k] /\ Len(g) = Len(e)
      /\ \A i \in 1..Len(e) : i # k /\ i # c => g[i] = e[i]
  BY DEF Exchanged
<1>4. ASSUME NEW i \in 2..Len(e)
      PROVE  /\ i \div 2 \in 1..Len(e) /\ i \div 2 < i
             /\ i \div 2 # k => Later(e[i], e[i \div 2])
             /\ i \div 2 = k => Later(e[i], e[c])
  <2>1. i \div 2 \in 1..Len(e) /\ i \div 2 < i
    BY Parent
  <2> QED
    BY <2>1 DEF Ordered
<1>5. ASSUME NEW i \in 2..Len(e), i \div 2 # c
      PROVE  Later(g[i], g[i \div 2])
  <2>1. CASE i = c
    BY <2>1, <1>1, <1>2, <1>3, LaterOrder
  <2>2. CASE i # c /\ i \div 2 = k
    <3>1. i # k
      BY <2>2, <1>4
    <3> QED
      BY <2>2, <3>1, <1>3, <1>4
  <2>3. CASE i = k
    <3>1. /\ i \div 2 # k /\ i \div 2 # c /\ k > 1
          /\ g[i] = e[c] /\ g[i \div 2] = e[i \div 2]
      BY <2>3, <1>1, <1>3, <1>4
    <3>2. Later(e[c], e[k \div 2])
      BY <3>1 DEF Ordered
    <3> QED
      BY <2>3, <3>1, <3>2
  <2>4. CASE i # c /\ i # k /\ i \div 2 # k
    BY <2>4, <1>3, <1>4, <1>5
  <2> QED
    BY <2>1, <2>2, <2>3, <2>4
<1>6. ASSUME NEW i \in 2..Len(e), i \div 2 = c
      PROVE  Later(g[i], g[c \div 2])
  <2>1. i # k /\ i # c /\ i \div 2 # k
    BY <1>1, <1>4, <1>6
  <2> QED
    BY <2>1, <1>3, <1>4, <1>6
<1> QED
  BY <1>3, <1>5, <1>6 DEF Ordered

-----------------------------------------------------------------------------
USE TimerHeapAssumption DEF NOT_QUEUED

\* swap exchanges two entries and tells both slots.
LEMMA SwapEffect ==
    ASSUME HeapTypes, IndexExactly, NEW a \in 1..Len(heap.entries),
           NEW b \in 1..Len(heap.entries), a # b, heap' = swap(heap, a, b)
    PROVE  /\ Exchanged(heap.entries, heap'.entries, a, b)
           /\ heap' \in [entries : Seq(Entry), index : [1..MaxArmed -> Nat]]
           /\ \A i \in 1..Len(heap.entries) :
                 /\ heap'.index[heap'.entries[i][2]] = i
                 /\ heap'.entries[i][2] <= seq
<1> DEFINE e == heap.entries
           x == heap.index
           y == [[x EXCEPT ![e[b][2]] = a] EXCEPT ![e[a][2]] = b]
           g == [[e EXCEPT ![a] = e[b]] EXCEPT ![b] = e[a]]
<1>1. /\ e \in Seq(Entry) /\ x \in [1..MaxArmed -> Nat] /\ seq \in Nat
      /\ Len(e) \in Nat /\ e \in [1..Len(e) -> Entry]
  BY DEF HeapTypes
<1>i. \A i \in 1..Len(e) : e[i] \in Entry /\ e[i][2] \in 1..MaxArmed
  BY <1>1, EntryParts
<1>2. heap' = [entries |-> g, index |-> y]
  BY DEF swap, Store, HeapTypes
<1>3. /\ g \in Seq(Entry) /\ Len(g) = Len(e) /\ y \in [1..MaxArmed -> Nat]
      /\ g[a] = e[b] /\ g[b] = e[a]
      /\ \A i \in 1..Len(e) : i # a /\ i # b => g[i] = e[i]
  <2> HIDE DEF e, x
  <2>1. a \in 1..Len(e) /\ b \in 1..Len(e) /\ e[a] \in Entry /\ e[b] \in Entry
    BY <1>i DEF e
  <2>2. g \in [1..Len(e) -> Entry]
    BY <1>1, <2>1
  <2>3. g \in Seq(Entry) /\ Len(g) = Len(e)
    <3> HIDE DEF g
    <3>1. PICK m \in Nat : m = Len(e)
      BY ONLY <1>1
    <3>2. g \in [1..m -> Entry]
      BY ONLY <2>2, <3>1
    <3> QED
      BY ONLY <3>1, <3>2
  <2>4. y \in [1..MaxArmed -> Nat]
    <3>1. a \in Nat /\ b \in Nat
      BY ONLY <1>1, <2>1
    <3> QED
      BY ONLY <1>1, <3>1
  <2> QED
    BY <1>1, <2>1, <2>2, <2>3, <2>4
<1>4. \A i \in 1..Len(e) : x[e[i][2]] = i /\ e[i][2] <= seq
  BY DEF IndexExactly
<1>5. /\ y[e[a][2]] = b
      /\ e[b][2] # e[a][2] /\ y[e[b][2]] = a
      /\ \A i \in 1..Len(e) : i # a /\ i # b => y[e[i][2]] = i
  BY <1>1, <1>i, <1>4
<1>7. a \in 1..Len(e) /\ b \in 1..Len(e)
  OBVIOUS
<1> HIDE DEF e, x, y, g
<1>6. ASSUME NEW i \in 1..Len(e)
      PROVE  y[g[i][2]] = i /\ g[i][2] <= seq
  <2>1. CASE i = a
    BY <2>1, <1>3, <1>4, <1>5, <1>7
  <2>2. CASE i = b
    BY <2>2, <1>3, <1>4, <1>5, <1>7
  <2>3. CASE i # a /\ i # b
    BY <2>3, <1>3, <1>4, <1>5
  <2> QED
    BY <2>1, <2>2, <2>3
<1> QED
  BY <1>2, <1>3, <1>6 DEF Exchanged, e

\* A turn of sift_up.
LEMMA SiftUpInv ==
    ASSUME HeapInv, sift_up
    PROVE  HeapInv' /\ UNCHANGED <<seq, told>>
           /\ \A t : (\E i \in 1..Len(heap.entries) : heap.entries[i] = t)
                      <=> (\E i \in 1..Len(heap'.entries) : heap'.entries[i] = t)
<1>0. HeapTypes /\ IndexExactly /\ Ordered(heap.entries, "up", at) /\ sift = "up"
  BY DEF HeapInv, sift_up
<1>1. /\ heap.entries \in Seq(Entry) /\ at \in 1..Len(heap.entries) /\ seq \in 0..MaxArmed
      /\ seq' = seq /\ told' = told
  BY <1>0 DEF HeapTypes, sift_up
<1>2. CASE at > 1 /\ Greater(heap.entries[at], heap.entries[at \div 2])
  <2>1. heap' = swap(heap, at, at \div 2) /\ sift' = "up" /\ at' = at \div 2
    BY <1>2 DEF sift_up, Sift
  <2>2. at \div 2 \in 1..Len(heap.entries) /\ at # at \div 2 /\ at \in 2..Len(heap.entries)
    BY <1>1, <1>2, Parent
  <2>3. /\ Exchanged(heap.entries, heap'.entries, at, at \div 2)
        /\ heap' \in [entries : Seq(Entry), index : [1..MaxArmed -> Nat]]
        /\ \A i \in 1..Len(heap.entries) :
              heap'.index[heap'.entries[i][2]] = i /\ heap'.entries[i][2] <= seq
    BY <1>0, <1>1, <2>1, <2>2, SwapEffect
  <2>4. Len(heap'.entries) = Len(heap.entries)
    BY <2>3 DEF Exchanged
  <2>5. Ordered(heap'.entries, "up", at \div 2)
    BY <1>0, <1>1, <1>2, <2>2, <2>3, TurnUp
  <2>6. HeapTypes' /\ IndexExactly'
    BY <1>1, <2>1, <2>2, <2>3, <2>4 DEF HeapTypes, IndexExactly
  <2> QED
    BY <1>1, <2>1, <2>2, <2>3, <2>5, <2>6 DEF HeapInv, Exchanged
<1>3. CASE ~(at > 1 /\ Greater(heap.entries[at], heap.entries[at \div 2]))
  <2>1. heap' = heap /\ sift' = "none" /\ at' = 0
    BY <1>3 DEF sift_up, Rest
  <2>2. Ordered(heap.entries, "none", 0)
    BY <1>0, <1>1, <1>3 DEF Ordered, Later
  <2> QED
    BY <1>0, <1>1, <2>1, <2>2 DEF HeapInv, HeapTypes, IndexExactly
<1> QED
  BY <1>2, <1>3

\* A turn of sift_down.
LEMMA SiftDownInv ==
    ASSUME HeapInv, sift_down
    PROVE  HeapInv' /\ UNCHANGED <<seq, told>>
           /\ \A t : (\E i \in 1..Len(heap.entries) : heap.entries[i] = t)
                      <=> (\E i \in 1..Len(heap'.entries) : heap'.entries[i] = t)
<1> DEFINE e == heap.entries
           c == GreaterChild(heap, at)
<1>0. HeapTypes /\ IndexExactly /\ Ordered(e, "down", at) /\ sift = "down"
  BY DEF HeapInv, sift_down
<1>1. /\ e \in Seq(Entry) /\ at \in 1..Len(e) /\ seq \in 0..MaxArmed
      /\ seq' = seq /\ told' = told
  BY <1>0 DEF HeapTypes, sift_down
<1>2. \A i \in 1..Len(e) : e[i] \in Entry
  BY <1>1
<1>3. \A i \in 2..Len(e) : i \div 2 = at <=> i = 2 * at \/ i = 2 * at + 1
  BY <1>1, Parent
<1>4. ASSUME at <= Len(e) \div 2
      PROVE  /\ c \in 2..Len(e) /\ c \div 2 = at /\ c # at
             /\ \A i \in 2..Len(e) : i \div 2 = at => Later(e[i], e[c])
  <2>1. 2 * at \in 2..Len(e) /\ c \in {2 * at, 2 * at + 1}
    <3>1. Len(e) \in Nat /\ at \in Nat /\ at >= 1
      BY <1>1
    <3>2. 2 * at <= Len(e)
      BY <1>4, <3>1, Halves
    <3> QED
      BY <3>1, <3>2 DEF GreaterChild
  <2>2. c \in 2..Len(e) /\ c # at
    BY <1>1, <2>1 DEF GreaterChild
  <2>3. CASE 2 * at + 1 <= Len(e) /\ Greater(e[2 * at + 1], e[2 * at])
    <3>1. c = 2 * at + 1
      BY <2>3 DEF GreaterChild
    <3>2. 2 * at \in 1..Len(e) /\ (2 * at + 1 <= Len(e) => 2 * at + 1 \in 1..Len(e))
      BY <1>1, <2>1
    <3>3. \A i \in 2..Len(e) : i \div 2 = at => Later(e[i], e[c])
      <4> HIDE DEF c
      <4> QED
        BY <1>1, <1>2, <1>3, <2>3, <3>1, <3>2, LaterOrder DEF Later
    <3> QED
      BY <1>3, <2>1, <2>2, <3>3
  <2>4. CASE ~(2 * at + 1 <= Len(e) /\ Greater(e[2 * at + 1], e[2 * at]))
    <3>1. c = 2 * at
      BY <2>4 DEF GreaterChild
    <3>2. 2 * at \in 1..Len(e) /\ (2 * at + 1 <= Len(e) => 2 * at + 1 \in 1..Len(e))
      BY <1>1, <2>1
    <3>3. \A i \in 2..Len(e) : i \div 2 = at => Later(e[i], e[c])
      <4> HIDE DEF c
      <4> QED
        <5>1. Later(e[2 * at], e[2 * at])
          BY <1>2, <3>2, LaterOrder
        <5>2. 2 * at + 1 <= Len(e) => Later(e[2 * at + 1], e[2 * at])
          BY <2>4 DEF Later
        <5>3. ASSUME NEW i \in 2..Len(e), i \div 2 = at
              PROVE  Later(e[i], e[2 * at])
          <6>1. i = 2 * at \/ (i = 2 * at + 1 /\ 2 * at + 1 <= Len(e))
            BY <1>1, <1>3, <5>3
          <6> QED
            BY <5>1, <5>2, <6>1
        <5> QED
          BY <3>1, <5>3
    <3> QED
      BY <1>3, <2>1, <2>2, <3>3
  <2> QED
    BY <2>3, <2>4
<1>5. CASE at <= Len(e) \div 2 /\ Greater(e[c], e[at])
  <2>1. heap' = swap(heap, at, c) /\ sift' = "down" /\ at' = c
    BY <1>5 DEF sift_down, Sift
  <2>2. c \in 1..Len(e) /\ at # c
    BY <1>4, <1>5
  <2> HIDE DEF c
  <2>3. /\ Exchanged(heap.entries, heap'.entries, at, c)
        /\ heap' \in [entries : Seq(Entry), index : [1..MaxArmed -> Nat]]
        /\ \A i \in 1..Len(heap.entries) :
              heap'.index[heap'.entries[i][2]] = i /\ heap'.entries[i][2] <= seq
    BY <1>0, <1>1, <2>1, <2>2, SwapEffect
  <2>4. Len(heap'.entries) = Len(heap.entries)
    BY <2>3 DEF Exchanged
  <2>5. Ordered(heap'.entries, "down", c)
    BY <1>0, <1>1, <1>4, <1>5, <2>3, TurnDown
  <2>6. HeapTypes' /\ IndexExactly'
    <3>1. seq' = seq
      BY DEF sift_down
    <3>2. HeapTypes'
      BY <1>1, <2>1, <2>2, <2>3, <2>4, <3>1 DEF HeapTypes
    <3>3. IndexExactly'
      BY ONLY <2>3, <2>4, <3>1 DEF IndexExactly
    <3> QED
      BY ONLY <3>2, <3>3
  <2> QED
    BY <1>1, <2>1, <2>2, <2>3, <2>5, <2>6 DEF HeapInv, Exchanged
<1>6. CASE ~(at <= Len(e) \div 2 /\ Greater(e[c], e[at]))
  <2>1. heap' = heap /\ sift' = "none" /\ at' = 0
    BY <1>6 DEF sift_down, Rest
  <2>2. ASSUME NEW i \in 2..Len(e), i \div 2 = at
        PROVE  Later(e[i], e[i \div 2])
    <3>1. at <= Len(e) \div 2
      <4>1. Len(e) \in Nat /\ at \in Nat /\ 2 * at <= Len(e)
        BY <1>1, <1>3, <2>2
      <4> QED
        BY <4>1, Halves
    <3>2. Later(e[i], e[c]) /\ Later(e[c], e[at]) /\ e[c] \in Entry
      <4> HIDE DEF c
      <4>1. c \in 1..Len(e)
        BY <1>1, <1>4, <3>1
      <4> QED
        BY <1>2, <1>4, <1>6, <2>2, <3>1, <4>1 DEF Later
    <3> HIDE DEF c
    <3> QED
      BY <1>1, <1>2, <2>2, <3>2, LaterOrder
  <2>3. Ordered(e, "none", 0)
    BY <1>0, <1>1, <2>2 DEF Ordered
  <2> QED
    BY <1>0, <1>1, <2>1, <2>3 DEF HeapInv, HeapTypes, IndexExactly
<1> QED
  BY <1>5, <1>6

\* The entries are those of another vector, and one more or one less.
Occupies(e, t) == \E i \in 1..Len(e) : e[i] = t

\* push appends, for sift_up to go on.
LEMMA PushInv ==
    ASSUME HeapInv, NEW d \in Times, armTimer(d)
    PROVE  /\ HeapInv'
           /\ \A t : Occupies(heap'.entries, t)
                      <=> Occupies(heap.entries, t) \/ t = <<d, seq + 1>>
<1> DEFINE e == heap.entries
           x == heap.index
           n == Len(heap.entries) + 1
           g == Append(e, <<d, seq + 1>>)
           y == [x EXCEPT ![seq + 1] = n]
<1>1. /\ e \in Seq(Entry) /\ x \in [1..MaxArmed -> Nat] /\ seq \in 0..MaxArmed
      /\ seq < MaxArmed /\ MaxArmed \in Nat /\ Ordered(e, "none", at)
      /\ \A i \in 1..Len(e) : x[e[i][2]] = i /\ e[i][2] <= seq
  BY DEF HeapInv, HeapTypes, IndexExactly, armTimer
<1>2. /\ heap' = [entries |-> g, index |-> y] /\ sift' = "up" /\ at' = n /\ seq' = seq + 1
  BY DEF armTimer, push, Sift
<1>3. \A i \in 1..Len(e) : e[i] \in Entry /\ e[i][2] \in 1..MaxArmed
  BY <1>1, EntryParts
<1>4. seq + 1 \in 1..MaxArmed /\ <<d, seq + 1>> \in Entry /\ n \in Nat
  BY <1>1 DEF Entry
<1>5. /\ g \in Seq(Entry) /\ Len(g) = n /\ g[n] = <<d, seq + 1>>
      /\ \A i \in 1..Len(e) : g[i] = e[i]
  BY <1>1, <1>4
<1>6. /\ y \in [1..MaxArmed -> Nat] /\ y[seq + 1] = n
      /\ \A i \in 1..Len(e) : y[e[i][2]] = i
  <2>1. y \in [1..MaxArmed -> Nat] /\ y[seq + 1] = n
    BY <1>1, <1>4
  <2>2. ASSUME NEW i \in 1..Len(e)
        PROVE  y[e[i][2]] = i
    <3>1. e[i][2] \in 1..MaxArmed /\ e[i][2] # seq + 1 /\ x[e[i][2]] = i
      BY <1>1, <1>3
    <3> QED
      BY <1>1, <3>1
  <2> QED
    BY ONLY <2>1, <2>2
<1> HIDE DEF g, y
<1>7. Ordered(g, "up", n)
  <2>1. ASSUME NEW i \in 2..n, i # n
        PROVE  Later(g[i], g[i \div 2])
    <3>1. i \in 2..Len(e) /\ i \div 2 \in 1..Len(e)
      BY <1>1, <2>1, Parent
    <3>2. Later(e[i], e[i \div 2])
      BY <1>1, <3>1 DEF Ordered
    <3> QED
      BY <1>5, <3>1, <3>2
  <2>2. \A i \in 2..n : i \div 2 # n
    BY <1>4, Parent
  <2> QED
    BY <1>5, <2>1, <2>2 DEF Ordered
<1>8. \A i \in 1..n : y[g[i][2]] = i /\ g[i][2] <= seq + 1
  <2>1. \A i \in 1..n : i = n \/ i \in 1..Len(e)
    BY <1>1
  <2>2. y[g[n][2]] = n /\ g[n][2] <= seq + 1
    BY <1>1, <1>5, <1>6
  <2>3. ASSUME NEW i \in 1..Len(e)
        PROVE  y[g[i][2]] = i /\ g[i][2] <= seq + 1
    <3>1. g[i] = e[i] /\ e[i][2] \in Nat /\ e[i][2] <= seq /\ seq \in Nat
      <4>1. g[i] = e[i] /\ e[i][2] \in 1..MaxArmed /\ e[i][2] <= seq
        BY ONLY <1>1, <1>3, <1>5, <2>3
      <4> QED
        BY ONLY <1>1, <4>1
    <3>2. y[e[i][2]] = i
      BY ONLY <1>6, <2>3
    <3> QED
      BY ONLY <3>1, <3>2
  <2> QED
    BY ONLY <2>1, <2>2, <2>3
<1>9. HeapInv'
  <2>1. n \in 1..Len(g) /\ seq + 1 \in 0..MaxArmed
    BY ONLY <1>1, <1>4, <1>5
  <2>2. heap' \in [entries : Seq(Entry), index : [1..MaxArmed -> Nat]]
    BY ONLY <1>2, <1>5, <1>6
  <2>3. heap'.entries = g /\ heap'.index = y
    BY ONLY <1>2
  <2>4. HeapTypes'
    BY ONLY <1>2, <1>4, <2>1, <2>2, <2>3 DEF HeapTypes
  <2>5. IndexExactly'
    BY ONLY <1>2, <1>5, <1>8, <2>3 DEF IndexExactly
  <2>6. Ordered(heap'.entries, sift', at')
    BY ONLY <1>2, <1>7, <2>3
  <2> QED
    BY ONLY <2>4, <2>5, <2>6 DEF HeapInv
<1>10. ASSUME NEW t
       PROVE  Occupies(g, t) <=> Occupies(e, t) \/ t = <<d, seq + 1>>
  <2>1. \A i \in 1..n : i = n \/ i \in 1..Len(e)
    BY <1>1
  <2>2. \A i \in 1..Len(e) : i \in 1..n
    BY <1>1
  <2>3. n \in 1..n
    BY <1>1
  <2> QED
    BY <1>5, <2>1, <2>2, <2>3 DEF Occupies
<1> QED
  BY <1>2, <1>9, <1>10

\* Moving the last entry into the gap at k leaves at most its own place, or
\* those below it, in doubt.
LEMMA GapFilled ==
    ASSUME NEW e \in Seq(Entry), NEW g \in Seq(Entry), NEW k \in 1..Len(e) - 1,
           Ordered(e, "none", 0), Len(g) = Len(e) - 1, g[k] = e[Len(e)],
           \A i \in 1..Len(g) : i # k => g[i] = e[i]
    PROVE  Ordered(g, IF k > 1 /\ Greater(g[k], g[k \div 2]) THEN "up" ELSE "down", k)
<1> DEFINE up == k > 1 /\ Greater(g[k], g[k \div 2])
<1>1. \A i \in 1..Len(g) : e[i] \in Entry /\ g[i] \in Entry
  OBVIOUS
<1>2. ASSUME NEW i \in 2..Len(g)
      PROVE  /\ i \div 2 \in 1..Len(g) /\ i \div 2 < i
             /\ Later(e[i], e[i \div 2])
  <2>1. i \in 2..Len(e) /\ i \in Nat /\ i > 1
    OBVIOUS
  <2>2. i \div 2 \in 1..Len(g) /\ i \div 2 < i
    BY <2>1, Parent
  <2> QED
    BY <2>1, <2>2 DEF Ordered
<1>3. ASSUME NEW i \in 2..Len(g), i \div 2 = k, k > 1
      PROVE  Later(g[i], g[k \div 2])
  <2>1. i # k /\ k \in 2..Len(g)
    BY <1>2, <1>3
  <2>2. k \div 2 \in 1..Len(g) /\ k \div 2 # k /\ Later(e[k], e[k \div 2])
    BY <2>1, <1>2
  <2>3. Later(e[i], e[k])
    BY <1>2, <1>3
  <2>4. g[i] = e[i] /\ g[k \div 2] = e[k \div 2]
    BY <2>1, <2>2
  <2> QED
    BY <2>1, <2>2, <2>3, <2>4, <1>1, LaterOrder
<1>4. ASSUME NEW i \in 2..Len(g), ~(up /\ i = k), ~(~up /\ i \div 2 = k)
      PROVE  Later(g[i], g[i \div 2])
  <2>1. CASE i = k
    BY <2>1, <1>4 DEF Later
  <2>2. CASE i \div 2 = k
    <3>1. up
      BY <2>2, <1>4
    <3>2. Later(g[i], g[k \div 2]) /\ k \in 2..Len(g) /\ k \div 2 \in 1..Len(g)
      <4>1. k > 1 /\ k \in 2..Len(g)
        BY <3>1
      <4> QED
        BY <2>2, <4>1, <1>2, <1>3
    <3>3. Later(g[k \div 2], g[k])
      BY <3>1, <3>2, <1>1, LaterOrder
    <3> QED
      BY <2>2, <3>2, <3>3, <1>1, LaterOrder
  <2>3. CASE i # k /\ i \div 2 # k
    <3>0. i \in 1..Len(g)
      BY ONLY g \in Seq(Entry), i \in 2..Len(g)
    <3>1. i \div 2 \in 1..Len(g) /\ Later(e[i], e[i \div 2])
      BY ONLY <1>2, i \in 2..Len(g)
    <3>2. g[i] = e[i] /\ g[i \div 2] = e[i \div 2]
      BY <2>3, <3>0, <3>1
    <3> QED
      BY ONLY <3>1, <3>2
  <2> QED
    BY <2>1, <2>2, <2>3
<1> QED
  BY <1>3, <1>4 DEF Ordered

\* remove takes one entry out, for a loop to go on where the last one went.
LEMMA RemoveEntryInv ==
    ASSUME HeapInv, sift = "none", NEW k \in 1..Len(heap.entries), removeEntry(k),
           seq' = seq
    PROVE  /\ HeapInv'
           /\ \A t : Occupies(heap'.entries, t)
                      <=> Occupies(heap.entries, t) /\ t # heap.entries[k]
<1> DEFINE e == heap.entries
           x == heap.index
           n == Len(heap.entries)
           g == IF k < n THEN [SubSeq(e, 1, n - 1) EXCEPT ![k] = e[n]] ELSE SubSeq(e, 1, n - 1)
           z == [x EXCEPT ![e[k][2]] = 0]
           y == IF k < n THEN [z EXCEPT ![e[n][2]] = k] ELSE z
<1>1. /\ e \in Seq(Entry) /\ x \in [1..MaxArmed -> Nat] /\ seq \in 0..MaxArmed
      /\ MaxArmed \in Nat /\ Ordered(e, "none", at) /\ n \in Nat /\ n >= 1 /\ n \in 1..n
      /\ \A i \in 1..n : x[e[i][2]] = i /\ e[i][2] <= seq
  BY DEF HeapInv, HeapTypes, IndexExactly
<1>2. heap' = [entries |-> g, index |-> y]
  BY DEF removeEntry, removed, Store
<1>3. \A i \in 1..n : e[i] \in Entry /\ e[i][2] \in 1..MaxArmed
  BY <1>1, EntryParts
<1>4. /\ g \in Seq(Entry) /\ Len(g) = n - 1
      /\ \A i \in 1..n - 1 : g[i] = IF i = k THEN e[n] ELSE e[i]
  <2> DEFINE h == SubSeq(e, 1, n - 1)
  <2>1. h \in Seq(Entry) /\ Len(h) = n - 1 /\ \A i \in 1..n - 1 : h[i] = e[i]
    BY <1>1
  <2> HIDE DEF h
  <2>2. h \in [1..n - 1 -> Entry] /\ n - 1 \in Nat /\ e[n] \in Entry
    <3>1. n - 1 \in Nat /\ e[n] \in Entry
      BY <1>1, <1>3
    <3> QED
      BY <2>1, <3>1
  <2>3. CASE k < n
    <3>1. g = [h EXCEPT ![k] = e[n]]
      BY <2>3 DEF h
    <3>2. g \in [1..n - 1 -> Entry] /\ \A i \in 1..n - 1 : g[i] = IF i = k THEN e[n] ELSE e[i]
      BY <2>1, <2>2, <2>3, <3>1
    <3> HIDE DEF g
    <3>3. g \in Seq(Entry) /\ Len(g) = n - 1
      <4>1. PICK m \in Nat : m = n - 1
        BY <2>2
      <4>2. g \in [1..m -> Entry]
        BY <3>2, <4>1
      <4> QED
        BY ONLY <4>1, <4>2
    <3> QED
      BY <3>2, <3>3
  <2>4. CASE ~(k < n)
    <3>1. g = h
      BY <2>4 DEF h
    <3> QED
      BY <2>1, <2>4, <3>1
  <2> QED
    BY <2>3, <2>4
<1>5. y \in [1..MaxArmed -> Nat]
  BY <1>1, <1>3
<1>6. ASSUME NEW i \in 1..n - 1
      PROVE  y[g[i][2]] = i /\ g[i][2] <= seq
  <2>1. i \in 1..n /\ i # n
    BY <1>1
  <2>2. CASE i = k
    <3>1. k < n /\ g[i] = e[n]
      BY <1>1, <1>4, <2>2
    <3> HIDE DEF g
    <3> QED
      BY <1>1, <1>3, <2>2, <3>1
  <2>3. CASE i # k
    <3>1. g[i] = e[i] /\ e[i][2] # e[k][2] /\ e[i][2] # e[n][2]
      BY <1>1, <1>4, <2>1, <2>3
    <3>2. y[e[i][2]] = x[e[i][2]]
      BY <1>1, <1>3, <2>1, <3>1
    <3> HIDE DEF g, y
    <3> QED
      BY <1>1, <2>1, <3>1, <3>2
  <2> QED
    BY <2>2, <2>3
<1> HIDE DEF g, y
<1>7. ASSUME k < n PROVE HeapInv'
  <2>1. sift' = settle(heap', k) /\ at' = k
    BY <1>7 DEF removeEntry, Sift
  <2>2. sift' = IF k > 1 /\ Greater(g[k], g[k \div 2]) THEN "up" ELSE "down"
    BY <1>2, <2>1 DEF settle
  <2>3. k \in 1..Len(e) - 1 /\ g[k] = e[Len(e)] /\ Ordered(e, "none", 0)
    BY <1>1, <1>4, <1>7 DEF Ordered
  <2>4. \A i \in 1..Len(g) : i # k => g[i] = e[i]
    BY <1>4
  <2>5. Ordered(g, sift', k)
    <3>1. Len(g) = Len(e) - 1
      BY ONLY <1>4
    <3>2. Ordered(g, IF k > 1 /\ Greater(g[k], g[k \div 2]) THEN "up" ELSE "down", k)
      BY ONLY <1>1, <1>4, <2>3, <2>4, <3>1, GapFilled
    <3> QED
      BY ONLY <2>2, <3>2
  <2>6. HeapTypes'
    <3>1. heap' \in [entries : Seq(Entry), index : [1..MaxArmed -> Nat]] /\ heap'.entries = g
      BY ONLY <1>2, <1>4, <1>5
    <3>2. k \in Nat /\ k \in 1..Len(g)
      BY ONLY <1>1, <1>4, <2>3
    <3>3. sift' \in {"none", "up", "down"}
      BY ONLY <2>2
    <3>4. seq' \in 0..MaxArmed
      BY ONLY <1>1, seq' = seq
    <3> QED
      BY ONLY <2>1, <3>1, <3>2, <3>3, <3>4 DEF HeapTypes
  <2>7. IndexExactly'
    BY <1>2, <1>4, <1>6 DEF IndexExactly
  <2> QED
    BY <1>2, <2>1, <2>5, <2>6, <2>7 DEF HeapInv
<1>8. ASSUME ~(k < n) PROVE HeapInv'
  <2>1. sift' = "none" /\ at' = 0
    BY <1>8 DEF removeEntry, Rest
  <2>2. ASSUME NEW i \in 2..Len(g)
        PROVE  Later(g[i], g[i \div 2])
    <3>1. i \in 2..n /\ i \in 1..n - 1 /\ i \div 2 \in 1..n - 1 /\ k = n
      BY <1>1, <1>4, <1>8, Parent
    <3>2. g[i] = e[i] /\ g[i \div 2] = e[i \div 2]
      BY <1>1, <1>4, <3>1
    <3> QED
      BY <1>1, <3>1, <3>2 DEF Ordered
  <2>3. Ordered(g, "none", 0)
    BY <2>2 DEF Ordered
  <2>6. HeapTypes'
    BY <1>1, <1>2, <1>4, <1>5, <2>1 DEF HeapTypes
  <2>7. IndexExactly'
    BY <1>2, <1>4, <1>6 DEF IndexExactly
  <2> QED
    BY <1>2, <2>1, <2>3, <2>6, <2>7 DEF HeapInv
<1>9. ASSUME NEW t
      PROVE  Occupies(g, t) <=> Occupies(e, t) /\ t # e[k]
  <2>0. \A i, j \in 1..n : e[i] = e[j] => i = j
    BY <1>1
  <2>1. ASSUME NEW i \in 1..n - 1
        PROVE  g[i] # e[k] /\ \E j \in 1..n : e[j] = g[i]
    <3>1. i \in 1..n /\ n \in 1..n /\ k \in 1..n /\ i # n
      BY <1>1
    <3> QED
      BY <1>4, <2>0, <3>1
  <2>2. ASSUME NEW j \in 1..n, j # k
        PROVE  \E i \in 1..n - 1 : g[i] = e[j]
    <3>1. CASE j = n
      <4>1. k \in 1..n - 1
        BY <1>1, <2>2, <3>1
      <4> QED
        BY <1>4, <3>1, <4>1
    <3>2. CASE j # n
      <4>1. j \in 1..n - 1
        BY <1>1, <2>2, <3>2
      <4> QED
        BY <1>4, <2>2, <4>1
    <3> QED
      BY <3>1, <3>2
  <2>3. Len(g) = n - 1 /\ Len(e) = n
    BY <1>4
  <2>4. Occupies(g, t) <=> \E i \in 1..n - 1 : g[i] = t
    BY <2>3 DEF Occupies
  <2>5. Occupies(e, t) <=> \E i \in 1..n : e[i] = t
    BY <2>3 DEF Occupies
  <2> QED
    BY <2>1, <2>2, <2>4, <2>5
<1> QED
  BY <1>2, <1>7, <1>8, <1>9

\* The slot of an armed timer leads to its own entry.
LEMMA DropTimerAt ==
    ASSUME HeapInv, NEW d, NEW n, dropTimer(d, n)
    PROVE  /\ heap.index[n] \in 1..Len(heap.entries) /\ heap.index[n] # NOT_QUEUED
           /\ heap.entries[heap.index[n]] = <<d, n>>
<1>1. PICK i \in 1..Len(heap.entries) : heap.entries[i] = <<d, n>>
  BY DEF dropTimer
<1>2. heap.index[heap.entries[i][2]] = i
  BY DEF HeapInv, IndexExactly
<1>3. heap.index[n] = i
  BY <1>1, <1>2
<1> QED
  BY <1>1, <1>3

-----------------------------------------------------------------------------
\* The invariant holds in every state.
LEMMA HeapInvariant == HeapSpec => []HeapInv
<1>1. HeapInit => HeapInv
  BY DEF HeapInit, HeapInv, HeapTypes, IndexExactly, Ordered
<1>2. HeapInv /\ [HeapNext]_heapVars => HeapInv'
  <2> SUFFICES ASSUME HeapInv, [HeapNext]_heapVars PROVE HeapInv'
    OBVIOUS
  <2>1. ASSUME NEW d \in Times, armTimer(d) PROVE HeapInv'
    BY <2>1, PushInv
  <2>2. CASE popTimer
    <3>1. heap.entries \in Seq(Entry) /\ heap.entries # <<>>
      BY <2>2 DEF HeapInv, HeapTypes, popTimer
    <3>2. 1 \in 1..Len(heap.entries)
      BY <3>1
    <3> QED
      BY <2>2, <3>2, RemoveEntryInv DEF popTimer
  <2>3. ASSUME NEW d \in Times, NEW n \in 1..MaxArmed, dropTimer(d, n) PROVE HeapInv'
    BY <2>3, DropTimerAt, RemoveEntryInv DEF dropTimer
  <2>4. CASE sift_up
    BY <2>4, SiftUpInv
  <2>5. CASE sift_down
    BY <2>5, SiftDownInv
  <2>6. CASE UNCHANGED heapVars
    BY <2>6 DEF heapVars, HeapInv, HeapTypes, IndexExactly
  <2> QED
    BY <2>1, <2>2, <2>3, <2>4, <2>5, <2>6 DEF HeapNext
<1> QED
  BY <1>1, <1>2, PTL DEF HeapSpec

\* The set of timers a vector of entries stands for.
ArmedNow == {heap.entries[i] : i \in 1..Len(heap.entries)}

\* TimerHeap of time.rs implements a set of timers, for any number of timers
\* and deadlines: push adds one, remove takes out the one its slot points at
\* (the drop of a Sleep) wherever swaps have moved it, and what the registry
\* fires and arms the next wait with is the earliest there is.
THEOREM HeapIsASet == HeapSpec => HeapImplementsSet
<1>1. HeapInit => Contents!SetInit
  BY DEF HeapInit, Contents!SetInit
<1>2. HeapInv /\ HeapInv' /\ [HeapNext]_heapVars
        => [Contents!SetNext]_<<ArmedNow, seq, told>>
  <2> SUFFICES ASSUME HeapInv, HeapInv', [HeapNext]_heapVars
               PROVE  [Contents!SetNext]_<<ArmedNow, seq, told>>
    OBVIOUS
  <2>0. \A t : t \in ArmedNow <=> Occupies(heap.entries, t)
    BY DEF ArmedNow, Occupies
  <2>p. \A t : t \in ArmedNow' <=> Occupies(heap'.entries, t)
    BY DEF ArmedNow, Occupies
  <2>t. /\ heap.entries \in Seq(Entry) /\ ArmedNow \subseteq Entry
        /\ heap.entries # <<>> => 1 \in 1..Len(heap.entries) /\ heap.entries[1] \in ArmedNow
        /\ heap.entries = <<>> => ArmedNow = {}
    BY DEF HeapInv, HeapTypes, ArmedNow
  <2>l. ASSUME sift = "none" PROVE \A t \in ArmedNow : Later(t, heap.entries[1])
    BY <2>l, <2>t, TopIsLeast DEF HeapInv, ArmedNow
  <2>1. ASSUME NEW d \in Times, armTimer(d) PROVE Contents!Arm(d)
    <3>1. ArmedNow' = ArmedNow \cup {<<d, seq + 1>>}
      BY <2>1, <2>0, <2>p, PushInv
    <3>2. (heap.entries = <<>> \/ d < heap.entries[1][1]) <=> \A t \in ArmedNow : d < t[1]
      <4>1. CASE heap.entries = <<>>
        BY <4>1, <2>t
      <4>2. CASE heap.entries # <<>>
        <5>1. \A t \in ArmedNow : t[1] \in Nat /\ heap.entries[1][1] \in Nat /\ heap.entries[1][1] <= t[1]
          BY <4>2, <2>1, <2>t, <2>l, EntryParts DEF Later, Greater, armTimer
        <5> QED
          BY <4>2, <5>1, <2>t
      <4> QED
        BY <4>1, <4>2
    <3> QED
      BY <2>1, <3>1, <3>2 DEF armTimer, Contents!Arm, ArmedNow
  <2>2. CASE popTimer
    <3>1. 1 \in 1..Len(heap.entries) /\ heap.entries[1] \in ArmedNow /\ sift = "none"
      BY <2>2, <2>t DEF popTimer
    <3>2. ArmedNow' = ArmedNow \ {heap.entries[1]}
      BY <2>2, <2>0, <2>p, <3>1, RemoveEntryInv DEF popTimer
    <3>3. \A u \in ArmedNow \ {heap.entries[1]} : Contents!Before(heap.entries[1], u)
      BY <2>t, <2>l, <3>1, LaterOrder DEF Contents!Before, Greater
    <3> QED
      BY <2>2, <3>1, <3>2, <3>3 DEF popTimer, Contents!Fire, Contents!SetNext, ArmedNow
  <2>3. ASSUME NEW d \in Times, NEW n \in 1..MaxArmed, dropTimer(d, n)
        PROVE  Contents!Cancel
    <3>1. /\ heap.index[n] \in 1..Len(heap.entries) /\ heap.entries[heap.index[n]] = <<d, n>>
      BY <2>3, DropTimerAt
    <3>2. removeEntry(heap.index[n]) /\ sift = "none" /\ seq' = seq
      BY <2>3, <3>1 DEF dropTimer
    <3>3. ArmedNow' = ArmedNow \ {<<d, n>>}
      BY <2>0, <2>p, <3>1, <3>2, RemoveEntryInv
    <3> QED
      BY <2>3, <3>1, <3>2, <3>3 DEF dropTimer, Contents!Cancel, ArmedNow
  <2>4. CASE sift_up \/ sift_down
    <3>1. ArmedNow' = ArmedNow /\ UNCHANGED <<seq, told>>
      BY <2>4, <2>0, <2>p, SiftUpInv, SiftDownInv DEF Occupies
    <3> QED
      BY <3>1
  <2>5. CASE UNCHANGED heapVars
    BY <2>5 DEF heapVars, ArmedNow
  <2> QED
    BY <2>1, <2>2, <2>3, <2>4, <2>5 DEF HeapNext, Contents!SetNext
<1> QED
  BY <1>1, <1>2, HeapInvariant, PTL DEF HeapSpec, HeapImplementsSet, Contents!SetSpec, ArmedNow
=============================================================================
