----------------------------- MODULE MCServices -----------------------------
(***************************************************************************)
(* The components around the reactor, each on its own: part says which one *)
(* a behaviour is about, the others stay in one initial state.  They share *)
(* no state, so nothing is lost by not interleaving them.                  *)
(***************************************************************************)
EXTENDS Credits, ParFor, Tasks, Barrier, Ready, Child, Signals

VARIABLE part

\* One initial state of a component that does not take part.
CreditsRest == parallelism = CHOOSE p \in Parallelisms : TRUE
ParForRest == leaf = CHOOSE l \in Leaves : TRUE
TasksRest == ~hostwait /\ \A t \in Spawned : home[t] = "own" /\ ~hosted[t]
BarrierRest == n = CHOOSE g \in GroupSizes : TRUE
ChildRest == ~killondrop /\ ~reads /\ \A x \in Outputs : owing[x] = 0
SignalsRest == platform = "bsd" /\ original = "own" /\ ~eager /\ \A t \in Makers : ~blocked[t]

ServicesInit ==
    /\ part \in {"credits", "parfor", "tasks", "barrier", "ready", "child", "signals"}
    /\ CreditsInit /\ (part # "credits" => CreditsRest)
    /\ ParForInit /\ (part # "parfor" => ParForRest)
    /\ TasksInit /\ (part # "tasks" => TasksRest)
    /\ BarrierInit /\ (part # "barrier" => BarrierRest)
    /\ ReadyInit
    /\ ChildInit /\ (part # "child" => ChildRest)
    /\ SignalsInit /\ (part # "signals" => SignalsRest)

ServicesNext ==
    /\ UNCHANGED part
    /\ IF part = "credits" THEN CreditsNext ELSE UNCHANGED creditsVars
    /\ IF part = "parfor" THEN ParForNext ELSE UNCHANGED parVars
    /\ IF part = "tasks" THEN TasksNext ELSE UNCHANGED tasksVars
    /\ IF part = "barrier" THEN BarrierNext ELSE UNCHANGED barrierVars
    /\ IF part = "ready" THEN ReadyNext ELSE UNCHANGED readyVars
    /\ IF part = "child" THEN ChildNext ELSE UNCHANGED childVars
    /\ IF part = "signals" THEN SignalsNext ELSE UNCHANGED signalsVars

ServicesSpec ==
    ServicesInit /\ [][ServicesNext]_<<part, creditsVars, parVars, tasksVars, barrierVars,
                                       readyVars, childVars, signalsVars>>
=============================================================================
