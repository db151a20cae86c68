------------------------------ MODULE TimerSet ------------------------------
(***************************************************************************)
(* What the timer registry promises: a set of armed timers from which the  *)
(* earliest is taken, of equal deadlines the one armed first, and from     *)
(* which any timer can be cancelled.  A timer is <<deadline, seq>>.        *)
(***************************************************************************)
EXTENDS Naturals

CONSTANTS Times,      \* the deadlines timers are armed for
          MaxArmed    \* bound on the timers armed

VARIABLES armed,      \* the timers in the registry
          seq,        \* SEQ: timers armed so far
          told        \* what the last operation answered

\* Entry::cmp, turned round: a fires before b.
Before(a, b) == a[1] < b[1] \/ (a[1] = b[1] /\ a[2] < b[2])

SetInit == armed = {} /\ seq = 0 /\ told = <<"none">>

\* arm: says whether the timer is due before all others.
Arm(d) ==
    /\ seq < MaxArmed
    /\ seq' = seq + 1
    /\ armed' = armed \cup {<<d, seq + 1>>}
    /\ told' = <<"armed", \A t \in armed : d < t[1]>>

\* fire_due takes the earliest timer.
Fire ==
    \E t \in armed :
        /\ \A u \in armed \ {t} : Before(t, u)
        /\ armed' = armed \ {t}
        /\ told' = <<"fired", t>>
        /\ UNCHANGED seq

\* Sleep::drop: the timer it armed, if it has not fired.
Cancel ==
    \E t \in armed :
        /\ armed' = armed \ {t}
        /\ told' = <<"cancelled", t>>
        /\ UNCHANGED seq

SetNext == (\E d \in Times : Arm(d)) \/ Fire \/ Cancel

SetSpec == SetInit /\ [][SetNext]_<<armed, seq, told>>
=============================================================================
