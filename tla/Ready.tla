-------------------------------- MODULE Ready --------------------------------
(***************************************************************************)
(* ReadySource and its ReadyHandles (readiness.rs): producers raise        *)
(* reasons that one consumer takes all at once, and a deadline rounded up  *)
(* to a quantum raises one when it is reached.                             *)
(*                                                                         *)
(* The Notify is taken by the promise that module Notify checks, for one   *)
(* consumer: notify_one notifies the enabled future or leaves a permit;    *)
(* a future dropped with a notification leaves it as a permit.             *)
(***************************************************************************)
EXTENDS Naturals, FiniteSets

CONSTANTS Producers,
          Reasons,       \* the bits
          MaxClock,      \* u64::MAX, reserved for an unarmed deadline
          MaxSignals     \* bound on the wakes

ASSUME ReadyAssumption ==
    IsFiniteSet(Producers) /\ IsFiniteSet(Reasons) /\ MaxClock \in Nat /\ MaxSignals \in Nat

Clock == 0..MaxClock
Quanta == 1..MaxClock
Overflow == MaxClock + 1   \* DeadlineOverflow

VARIABLES reasons, npermit,     \* Signals: the bits, the Notify's permit
          notified,             \* the consumer's future
          consumer, producer,   \* where they are
          raising,              \* the reasons a producer is about to retain
          asked, quantum, due,  \* wake_at: its arguments (0 when none is out),
                                \* its rounded deadline
          clock, signals

readyVars == <<reasons, npermit, notified, consumer, producer, raising,
               asked, quantum, due, clock, signals>>

ReadyTypeOK ==
    /\ reasons \subseteq Reasons /\ npermit \in BOOLEAN
    /\ notified \in {"none", "waiting", "notified"}
    /\ consumer \in {"out", "enable", "swap", "await"}
    /\ producer \in [Producers -> {"out", "retain", "notify"}]
    /\ clock \in Clock /\ signals \in 0..MaxSignals

ReadyInit ==
    /\ reasons = {} /\ npermit = FALSE /\ notified = "none"
    /\ consumer = "out" /\ producer = [p \in Producers |-> "out"]
    /\ raising = [p \in Producers |-> {}]
    /\ asked = 0 /\ quantum = 0 /\ due = 0
    /\ clock = 0 /\ signals = 0

-----------------------------------------------------------------------------
(* ReadyHandle                                                             *)

\* Slip: the reserved value is handed out.
CoarseUnfiltered(deadline, q) ==
    LET up == IF deadline % q = 0 THEN deadline ELSE deadline + (q - (deadline % q))
    IN  IF up > MaxClock THEN Overflow ELSE up

coarse_deadline(deadline, q) ==
    LET up == IF deadline % q = 0 THEN deadline ELSE deadline + (q - (deadline % q))
    IN  IF up >= MaxClock THEN Overflow ELSE up

\* Slip: the consumer is notified of reasons about to be retained.
WakeOrderReversed(label) ==
    CASE label = "begin" -> "notify" [] label = "notify" -> "retain" [] label = "retain" -> "out"

\* The reasons are retained, then the consumer is notified.
WakeOrder(label) ==
    CASE label = "begin" -> "retain" [] label = "retain" -> "notify" [] label = "notify" -> "out"

BeginWake(p, bits) ==
    /\ producer[p] = "out" /\ bits # {} /\ signals < MaxSignals
    /\ signals' = signals + 1
    /\ raising' = [raising EXCEPT ![p] = bits]
    /\ producer' = [producer EXCEPT ![p] = WakeOrder("begin")]

WakeConsumer(p, bits) ==
    /\ BeginWake(p, bits)
    /\ UNCHANGED <<reasons, npermit, notified, consumer, asked, quantum, due, clock>>

\* fetch_or; only the one that finds no bit set notifies.
RetainReasons(p) ==
    /\ producer[p] = "retain"
    /\ reasons' = reasons \cup raising[p]
    /\ raising' = [raising EXCEPT ![p] = {}]
    /\ producer' = [producer EXCEPT ![p] = IF reasons = {} THEN WakeOrder("retain") ELSE "out"]
    /\ UNCHANGED <<npermit, notified, consumer, asked, quantum, due, clock, signals>>

NotifyOne(p) ==
    /\ producer[p] = "notify"
    /\ producer' = [producer EXCEPT ![p] = WakeOrder("notify")]
    /\ IF notified = "waiting" THEN notified' = "notified" /\ UNCHANGED npermit
       ELSE npermit' = TRUE /\ UNCHANGED notified
    /\ UNCHANGED <<reasons, raising, consumer, asked, quantum, due, clock, signals>>

\* wake_at spawns the task that sleeps, or reports the overflow.
wake_at(deadline, q) ==
    /\ quantum = 0
    /\ asked' = deadline /\ quantum' = q
    /\ due' = coarse_deadline(deadline, q)
    /\ UNCHANGED <<reasons, npermit, notified, consumer, producer, raising, clock, signals>>

DeadlineReached(p, bits) ==
    /\ quantum # 0 /\ clock >= due
    /\ BeginWake(p, bits)
    /\ asked' = 0 /\ quantum' = 0 /\ due' = 0
    /\ UNCHANGED <<reasons, npermit, notified, consumer, clock>>

\* The caller cancels the JoinHandle, or takes the error.
CancelDeadline ==
    /\ quantum # 0
    /\ asked' = 0 /\ quantum' = 0 /\ due' = 0
    /\ UNCHANGED <<reasons, npermit, notified, consumer, producer, raising, clock, signals>>

Tick ==
    /\ clock < MaxClock /\ clock' = clock + 1
    /\ UNCHANGED <<reasons, npermit, notified, consumer, producer, raising, asked,
                   quantum, due, signals>>

-----------------------------------------------------------------------------
(* ReadySource::wait                                                       *)

\* A call, or the next turn of the loop once the future is notified.
BeginWait ==
    /\ consumer = "out" \/ (consumer = "await" /\ notified = "notified")
    /\ notified' = "none" /\ consumer' = "enable"
    /\ UNCHANGED <<reasons, npermit, producer, raising, asked, quantum, due, clock, signals>>

\* notified().enable() takes the permit or registers.
EnableWait ==
    /\ consumer = "enable"
    /\ npermit' = FALSE
    /\ notified' = IF npermit THEN "notified" ELSE "waiting"
    /\ consumer' = "swap"
    /\ UNCHANGED <<reasons, producer, raising, asked, quantum, due, clock, signals>>

\* The future is dropped: a notification it holds is passed on.
DropNotified ==
    notified' = "none" /\ npermit' = (npermit \/ notified = "notified")

SwapReasons ==
    /\ consumer = "swap"
    /\ reasons' = {}
    /\ IF reasons # {} THEN consumer' = "out" /\ DropNotified
       ELSE consumer' = "await" /\ UNCHANGED <<npermit, notified>>
    /\ UNCHANGED <<producer, raising, asked, quantum, due, clock, signals>>

CancelWait ==
    /\ consumer = "await"
    /\ consumer' = "out" /\ DropNotified
    /\ UNCHANGED <<reasons, producer, raising, asked, quantum, due, clock, signals>>

ReadyNext ==
    \/ BeginWait \/ EnableWait \/ SwapReasons \/ CancelWait \/ CancelDeadline \/ Tick
    \/ \E d \in Clock, q \in Quanta : wake_at(d, q)
    \/ \E p \in Producers :
          \/ RetainReasons(p) \/ NotifyOne(p)
          \/ \E bits \in SUBSET Reasons : WakeConsumer(p, bits) \/ DeadlineReached(p, bits)

ReadySpec == ReadyInit /\ [][ReadyNext]_readyVars

-----------------------------------------------------------------------------
(* Properties                                                              *)

\* No reason is slept through, though only the first of several wakes
\* notifies: while the consumer sleeps un-notified on retained reasons, a
\* producer is about to notify it (ReadyHandle::wake against wait).
NoReasonSleptThrough ==
    /\ ReadyTypeOK
    /\ consumer = "await" /\ notified = "waiting" /\ reasons # {}
          => \E p \in Producers : producer[p] = "notify"

\* A coarse deadline is the least multiple of the quantum that is not before
\* the one asked for, never the reserved value, and an error exactly when the
\* clock has no such value (coarse_deadline).
CoarseIsLeast ==
    quantum # 0 =>
        LET fit == {d \in asked..MaxClock - 1 : d % quantum = 0}
        IN  IF due = Overflow THEN fit = {} ELSE due \in fit /\ \A d \in fit : due <= d
=============================================================================
