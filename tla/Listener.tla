------------------------------ MODULE Listener ------------------------------
(***************************************************************************)
(* TcpListener::poll_accept of net.rs on its reactor slot.  Unlike the     *)
(* stream's reads it goes straight to the system call and never takes the  *)
(* slot's readiness, which register set and every event sets again.        *)
(***************************************************************************)
EXTENDS Slot

CONSTANT MaxConnections   \* bound on the connections peers open

VARIABLES backlog, connected,   \* kernel: waiting connections, all of them
          pc, waker, answer, notified

callVars == <<pc, waker, answer, notified>>
vars == <<slotVars, backlog, connected, callVars>>

Holds == IF backlog > 0 THEN {"in"} ELSE {}

Init ==
    /\ backlog \in 0..MaxConnections /\ connected = backlog
    /\ SlotInit(Holds)
    /\ pc = "idle" /\ waker = NoWaker /\ answer = "ready" /\ notified = FALSE

PeerConnects ==
    /\ connected < MaxConnections
    /\ backlog' = backlog + 1 /\ connected' = connected + 1
    /\ edges' = edges \cup {"in"}
    /\ UNCHANGED <<slot, events, pending, callVars>>

Wait == wait(Holds) /\ UNCHANGED <<backlog, connected, callVars>>

Dispatch == dispatch /\ UNCHANGED <<backlog, connected, callVars>>

Wake(w) ==
    /\ w \in pending
    /\ pending' = pending \ {w}
    /\ notified' = (notified \/ waker = w)
    /\ UNCHANGED <<slot, edges, events, backlog, connected, pc, waker, answer>>

Poll(w) ==
    /\ pc = "idle"
    /\ pc' = "accept" /\ waker' = w /\ notified' = FALSE
    /\ UNCHANGED <<slotVars, backlog, connected, answer>>

\* accept: a connection, or EWOULDBLOCK (a connection that died meanwhile is
\* skipped, as if it had been accepted and dropped).
Accept ==
    /\ pc = "accept"
    /\ IF backlog > 0
       THEN backlog' = backlog - 1 /\ pc' = "idle" /\ answer' = "ready"
       ELSE pc' = "park" /\ UNCHANGED <<backlog, answer>>
    /\ UNCHANGED <<slotVars, connected, waker, notified>>

\* poll_readable on the listener's registration.
Park ==
    /\ pc = "park"
    /\ poll_ready("read", waker)
    /\ notified' = (notified \/ Ready("read"))
    /\ pc' = "idle" /\ answer' = "pending"
    /\ UNCHANGED <<edges, events, pending, backlog, connected, waker>>

Reactor == Wait \/ Dispatch \/ \E w \in Wakers : Wake(w)

Next == PeerConnects \/ Reactor \/ Accept \/ Park \/ \E w \in Wakers : Poll(w)

Asleep == pc = "idle" /\ answer = "pending" /\ ~notified

\* The reactor thread runs, a poll under way returns, and the accepting task
\* polls again when it is woken or has accepted a connection.
Fairness ==
    /\ WF_vars(Reactor)
    /\ WF_vars(Accept \/ Park)
    /\ WF_vars(~Asleep /\ \E w \in Wakers : Poll(w))

FairSpec == Init /\ [][Next]_vars /\ Fairness

-----------------------------------------------------------------------------
\* poll_accept is documented as "Accept one connection, parking `cx`'s waker
\* if none is waiting.": once no more connections come, the accepting task
\* sleeps instead of being polled for ever.
ParksWhenIdle == <>[][notified' => notified]_vars
=============================================================================
