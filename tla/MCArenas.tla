------------------------------ MODULE MCArenas ------------------------------
(***************************************************************************)
(* The three places where an index is kept away from what it names: the    *)
(* arena of the waiter queue, the slot map of the reactor and the heap of  *)
(* timers.  part says which one a behaviour is about, the others stay in   *)
(* their initial states; they share no state.                              *)
(***************************************************************************)
EXTENDS WaitQueue, Registry, TimerHeap

VARIABLE part

ArenasInit ==
    part \in {"queue", "registry", "timers"} /\ Init /\ RegistryInit /\ HeapInit

ArenasNext ==
    /\ UNCHANGED part
    /\ IF part = "queue" THEN Next ELSE UNCHANGED vars
    /\ IF part = "registry" THEN RegistryNext ELSE UNCHANGED registryVars
    /\ IF part = "timers" THEN HeapNext ELSE UNCHANGED heapVars

ArenasSpec == ArenasInit /\ [][ArenasNext]_<<part, vars, registryVars, heapVars>>
=============================================================================
