-------------------------------- MODULE Slot --------------------------------
(***************************************************************************)
(* One descriptor's slot in the reactor (struct Wakers of                  *)
(* reactor/driver.rs) and the reactor's side of it.  Everything in the     *)
(* slot is behind one mutex, so each operation on it is one step; wait,    *)
(* dispatch and the waker calls dispatch makes after unlocking are three.  *)
(*                                                                         *)
(* The kernel is external.  Its poller is edge triggered: a change of the  *)
(* descriptor leaves an edge, wait takes all of them at once and reports   *)
(* at least the ones that still hold and at most what holds or changed     *)
(* (epoll reports the current mask, kqueue the filters that fired).        *)
(***************************************************************************)
EXTENDS Naturals

CONSTANTS Wakers,    \* the wakers the descriptor's futures are polled with
          NoWaker

Directions == {"read", "write"}
Conditions == {"in", "out", "hup"}

VARIABLES slot,      \* the Wakers record
          edges,     \* kernel: conditions that changed since the last wait
          events,    \* the event wait returned, not yet dispatched
          pending    \* wakers dispatch took and has not yet invoked

slotVars == <<slot, edges, events, pending>>

SlotTypeOK ==
    /\ slot \in [ready : [Directions -> BOOLEAN],
                 hangup : BOOLEAN,
                 parked : [Directions -> Wakers \cup {NoWaker}]]
    /\ edges \in SUBSET Conditions
    /\ events \in SUBSET Conditions
    /\ pending \in SUBSET Wakers

\* Handle::register: ready both ways until a system call says otherwise.
register ==
    slot = [ready |-> [d \in Directions |-> TRUE], hangup |-> FALSE,
            parked |-> [d \in Directions |-> NoWaker]]

\* Adding a descriptor to the poller reports, as a first edge, what already
\* holds (epoll_ctl and kevent look at the descriptor when it is added).
SlotInit(holds) == register /\ edges = holds /\ events = {} /\ pending = {}

-----------------------------------------------------------------------------
(* Registration, called by the task that polls the descriptor.             *)

\* Slip: the hang-up is not remembered once the readiness is taken.
ReadyNoHangup(d) == slot.ready[d]

Ready(d) == slot.ready[d] \/ (d = "read" /\ slot.hangup)

\* Slip: readiness is looked at and not taken.
take_or_parkLooks(d, w) ==
    slot' = IF Ready(d) THEN slot ELSE [slot EXCEPT !.parked[d] = w]

\* take_readable_or_park, take_writable_or_park.
take_or_park(d, w) ==
    slot' = IF Ready(d) THEN [slot EXCEPT !.ready[d] = FALSE]
            ELSE [slot EXCEPT !.parked[d] = w]

\* mark_readable, mark_writable.
mark_ready(d) == slot' = [slot EXCEPT !.ready[d] = TRUE]

\* poll_readable, poll_writable; a task that finds its readiness already
\* there wakes itself.
poll_ready(d, w) ==
    slot' = IF Ready(d) THEN slot ELSE [slot EXCEPT !.parked[d] = w]

\* cancel_read_wait, cancel_write_wait: the readiness stays.
cancel_wait(d) == slot' = [slot EXCEPT !.parked[d] = NoWaker]

-----------------------------------------------------------------------------
(* The reactor thread.                                                     *)

\* Poller::wait returns with the edges left since it was last called.
wait(holds) ==
    /\ events = {} /\ pending = {} /\ edges # {}
    /\ \E reported \in SUBSET Conditions :
          /\ edges \cap holds \subseteq reported
          /\ reported \subseteq edges \cup holds
          /\ events' = reported
    /\ edges' = {}
    /\ UNCHANGED <<slot, pending>>

\* An event's hang-up is reported as readability too.
Reports(d) ==
    IF d = "read" THEN events \cap {"in", "hup"} # {} ELSE "out" \in events

dispatch ==
    /\ events # {}
    /\ slot' = [ready  |-> [d \in Directions |-> slot.ready[d] \/ Reports(d)],
                hangup |-> slot.hangup \/ "hup" \in events,
                parked |-> [d \in Directions |->
                               IF Reports(d) THEN NoWaker ELSE slot.parked[d]]]
    /\ pending' = {slot.parked[d] : d \in {e \in Directions : Reports(e)}} \ {NoWaker}
    /\ events' = {}
    /\ UNCHANGED edges
=============================================================================
