------------------------------- MODULE MCLive -------------------------------
(***************************************************************************)
(* Liveness of the two components that wait in the kernel: the timers and  *)
(* the local executor.  part says which one a behaviour is about, the      *)
(* other stays in one initial state; they share no state.                  *)
(***************************************************************************)
EXTENDS Timers, Local

VARIABLE part

LiveInit ==
    /\ part \in {"timers", "local"}
    /\ Init /\ (part # "timers" => \A s \in Sleeps : deadline[s] = 1)
    /\ LocalInit

LiveNext ==
    /\ UNCHANGED part
    /\ IF part = "timers" THEN Next ELSE UNCHANGED vars
    /\ IF part = "local" THEN LocalNext ELSE UNCHANGED localVars

\* Fairness is asked of the component that takes part.
LiveSpec ==
    /\ LiveInit /\ [][LiveNext]_<<part, vars, localVars>>
    /\ (part = "timers" /\ Fairness) \/ (part = "local" /\ LocalFairness)
=============================================================================
