------------------------------ MODULE Credits ------------------------------
(***************************************************************************)
(* CPU credits (credits.rs) and the exclusive owner admitted by them       *)
(* (owner.rs).  Callers dispatch turns on one Owner, or helpers, against   *)
(* one CreditAccount; a caller refused for the budget waits in wait_for    *)
(* and tries again.  Every atomic operation is a step.                     *)
(*                                                                         *)
(* The account's Notify is taken by its promise, which module Notify       *)
(* checks: notify_waiters wakes every future enabled before it.  The pool  *)
(* that runs a job is external: it polls it once or drops it, and the      *)
(* job may panic.  Amounts of CPU are small integers.                      *)
(***************************************************************************)
EXTENDS Integers, FiniteSets

CONSTANTS Callers,
          Requests,        \* the credits a caller may ask for
          Capacity,        \* CreditAccount.capacity
          Parallelisms,    \* the caps on jobs in flight an account may have
          Overshoot,       \* bound on the CPU a turn uses beyond its credits
          MaxRefill,       \* bound on the credits replenished in total
          MaxDispatch      \* bound on the dispatches

ASSUME CreditsAssumption ==
    /\ IsFiniteSet(Callers) /\ Requests \subseteq Nat \ {0}
    /\ Capacity \in Nat \ {0} /\ Parallelisms \subseteq Nat \ {0}
    /\ Overshoot \in Nat /\ MaxRefill \in Nat /\ MaxDispatch \in Nat

VARIABLES parallelism,           \* CreditAccount
          balance, in_flight,
          enabled,               \* futures registered with changed
          refilling,             \* replenish has adjusted and not yet notified
          admitted, value,       \* State of the Owner: the flag, Some or None
          call, asks,            \* per caller: where its call or job is, credits
          held, done, unwinding, \* what it has yet to drop, CpuReservation.done
          used,                  \* CPU its turn used
          refilled, spent, dispatches

accountVars == <<balance, in_flight, enabled, refilling>>
ownerVars == <<admitted, value>>
jobVars == <<asks, held, done, unwinding, used>>
countVars == <<refilled, spent, dispatches>>
creditsVars == <<parallelism, accountVars, ownerVars, call, jobVars, countVars>>

\* idle; slot, credit: in reserve; rollback, rollnote: refused after the slot
\* was taken; queued, running: the job; adjust, free, note: in settle; drop,
\* back, open: letting go, and in Lease::drop; refused, enabled, looked,
\* parked: in wait_for.
CreditsTypeOK ==
    /\ balance \in Int /\ in_flight \in Nat /\ enabled \subseteq Callers
    /\ refilling \in BOOLEAN /\ admitted \in BOOLEAN /\ value \in BOOLEAN
    /\ call \in [Callers -> {"idle", "slot", "credit", "rollback", "rollnote",
                             "queued", "running", "adjust", "free", "note",
                             "drop", "back", "open",
                             "refused", "enabled", "looked", "parked"}]
    /\ held \in [Callers -> SUBSET {"permit", "lease"}]
    /\ done \in [Callers -> BOOLEAN] /\ unwinding \in [Callers -> BOOLEAN]

CreditsInit ==
    /\ parallelism \in Parallelisms
    /\ balance = Capacity /\ in_flight = 0 /\ enabled = {} /\ refilling = FALSE
    /\ admitted = FALSE /\ value = TRUE
    /\ call = [c \in Callers |-> "idle"]
    /\ asks = [c \in Callers |-> 0] /\ used = [c \in Callers |-> 0]
    /\ held = [c \in Callers |-> {}] /\ done = [c \in Callers |-> FALSE]
    /\ unwinding = [c \in Callers |-> FALSE]
    /\ refilled = 0 /\ spent = 0 /\ dispatches = 0

CallAt(c, label) == call[c] = label
CallGoto(c, label) == call' = [call EXCEPT ![c] = label]
notify_waiters == enabled' = {}
Lower(m, n) == IF m < n THEN m ELSE n

\* adjust: an atomic update, capped at the capacity.
adjust(credits) == balance' = Lower(balance + credits, Capacity)

-----------------------------------------------------------------------------
(* Owner::dispatch_to and CpuCredits::dispatch, up to the submitted job.   *)

Asking(c, r) ==
    /\ CallAt(c, "idle") /\ dispatches < MaxDispatch
    /\ dispatches' = dispatches + 1
    /\ asks' = [asks EXCEPT ![c] = r]
    /\ UNCHANGED <<accountVars, done, unwinding, used, refilled, spent>>

\* A turn for a worker outside the pool is rejected before this.  One that
\* finds the owner admitted is rejected as Busy, whether the turn before it is
\* queued, runs, or is itself about to be rejected; otherwise the value is
\* taken out, which expect() holds to be there.
DispatchTurn(c, r) ==
    /\ Asking(c, r)
    /\ IF admitted THEN UNCHANGED <<ownerVars, call, held>>
       ELSE /\ admitted' = TRUE /\ value' = FALSE
            /\ held' = [held EXCEPT ![c] = {"lease"}]
            /\ CallGoto(c, "slot")

DispatchHelper(c, r) ==
    /\ Asking(c, r)
    /\ CallGoto(c, "slot")
    /\ UNCHANGED <<ownerVars, held>>

\* reserve: the in-flight slot first ...
ReserveSlot(c) ==
    /\ CallAt(c, "slot")
    /\ IF in_flight < parallelism
       THEN in_flight' = in_flight + 1 /\ CallGoto(c, "credit")
       ELSE CallGoto(c, "drop") /\ UNCHANGED in_flight
    /\ UNCHANGED <<balance, enabled, refilling, ownerVars, jobVars, countVars>>

\* ... then the credits, and the job goes to the pool.
ReserveCredit(c) ==
    /\ CallAt(c, "credit")
    /\ IF balance >= asks[c]
       THEN /\ balance' = balance - asks[c]
            /\ held' = [held EXCEPT ![c] = @ \cup {"permit"}]
            /\ CallGoto(c, "queued")
       ELSE CallGoto(c, "rollback") /\ UNCHANGED <<balance, held>>
    /\ UNCHANGED <<in_flight, enabled, refilling, ownerVars, asks, done,
                   unwinding, used, countVars>>

Rollback(c) ==
    /\ CallAt(c, "rollback")
    /\ in_flight' = in_flight - 1
    /\ CallGoto(c, "rollnote")
    /\ UNCHANGED <<balance, enabled, refilling, ownerVars, jobVars, countVars>>

\* Slip: a reservation that was rolled back is nobody's business.
RollbackNoteSilent == UNCHANGED enabled

\* The slot it took for a moment may be what another one was refused for.
RollbackNote == notify_waiters

RollbackDone(c) ==
    /\ CallAt(c, "rollnote")
    /\ RollbackNote
    /\ CallGoto(c, "drop")
    /\ UNCHANGED <<balance, in_flight, refilling, ownerVars, jobVars, countVars>>

-----------------------------------------------------------------------------
(* The job, on the pool: enter, the turn, finish; or dropped by a          *)
(* cancelled handle or a destroyed pool, or left by a panic of the turn.   *)

Enter(c) ==
    /\ CallAt(c, "queued")
    /\ CallGoto(c, "running")
    /\ UNCHANGED <<accountVars, ownerVars, jobVars, countVars>>

TurnEnds(c, actual, panics) ==
    /\ CallAt(c, "running")
    /\ actual <= asks[c] + Overshoot
    /\ used' = [used EXCEPT ![c] = actual]
    /\ unwinding' = [unwinding EXCEPT ![c] = panics]
    /\ CallGoto(c, IF panics THEN "drop" ELSE "adjust")
    /\ UNCHANGED <<accountVars, ownerVars, asks, held, done, countVars>>

CancelQueued(c) ==
    /\ CallAt(c, "queued")
    /\ unwinding' = [unwinding EXCEPT ![c] = TRUE]
    /\ CallGoto(c, "drop")
    /\ UNCHANGED <<accountVars, ownerVars, asks, held, done, used, countVars>>

\* settle, from finish or from the permit's drop.
SettleAdjust(c) ==
    /\ CallAt(c, "adjust")
    /\ adjust(asks[c] - used[c])
    /\ spent' = spent + used[c]
    /\ CallGoto(c, "free")
    /\ UNCHANGED <<in_flight, enabled, refilling, ownerVars, jobVars, refilled, dispatches>>

SettleFree(c) ==
    /\ CallAt(c, "free")
    /\ in_flight' = in_flight - 1
    /\ done' = [done EXCEPT ![c] = TRUE]
    /\ CallGoto(c, "note")
    /\ UNCHANGED <<balance, enabled, refilling, ownerVars, asks, held,
                   unwinding, used, countVars>>

SettleNote(c) ==
    /\ CallAt(c, "note")
    /\ notify_waiters
    /\ CallGoto(c, "drop")
    /\ UNCHANGED <<balance, in_flight, refilling, ownerVars, jobVars, countVars>>

\* Slip: the permit's drop settles what finish has settled.
SettledNever(c) == FALSE

Settled(c) == done[c]

\* drop(permit).
DropPermit(c) ==
    /\ CallAt(c, "drop") /\ "permit" \in held[c]
    /\ IF Settled(c)
       THEN held' = [held EXCEPT ![c] = @ \ {"permit"}] /\ UNCHANGED call
       ELSE CallGoto(c, "adjust") /\ UNCHANGED held
    /\ UNCHANGED <<accountVars, ownerVars, asks, done, unwinding, used, countVars>>

\* drop(lease): after the permit, except in an unwind or a cancelled job,
\* where the fields of the future go in no order anybody promises.
DropLease(c) ==
    /\ CallAt(c, "drop") /\ "lease" \in held[c]
    /\ "permit" \in held[c] => unwinding[c]
    /\ CallGoto(c, "back")
    /\ UNCHANGED <<accountVars, ownerVars, jobVars, countVars>>

\* Slip: the gate opens before the value is back.
LeaseDropOpens(step) ==
    IF step = "back" THEN admitted' = FALSE /\ UNCHANGED value
    ELSE value' = TRUE /\ UNCHANGED admitted

\* Lease::drop: the value, then the gate.
LeaseDrop(step) ==
    IF step = "back" THEN value' = TRUE /\ UNCHANGED admitted
    ELSE admitted' = FALSE /\ UNCHANGED value

ReturnValue(c) ==
    /\ CallAt(c, "back")
    /\ LeaseDrop("back")
    /\ CallGoto(c, "open")
    /\ UNCHANGED <<accountVars, jobVars, countVars>>

OpenGate(c) ==
    /\ CallAt(c, "open")
    /\ LeaseDrop("open")
    /\ held' = [held EXCEPT ![c] = @ \ {"lease"}]
    /\ CallGoto(c, "drop")
    /\ UNCHANGED <<accountVars, asks, done, unwinding, used, countVars>>

\* Nothing is held any more: the job is over and its handle ready, or the
\* call returns Rejected with Budget.
LetGo(c) ==
    /\ CallAt(c, "drop") /\ held[c] = {}
    /\ CallGoto(c, IF done[c] THEN "idle" ELSE "refused")
    /\ done' = [done EXCEPT ![c] = FALSE]
    /\ unwinding' = [unwinding EXCEPT ![c] = FALSE]
    /\ used' = [used EXCEPT ![c] = 0]
    /\ UNCHANGED <<accountVars, ownerVars, asks, held, countVars>>

-----------------------------------------------------------------------------
(* CreditAccount::wait_for, by a refused caller, and replenish.            *)

\* Registered before it looks; a request beyond the capacity is an error.
WaitFor(c) ==
    /\ CallAt(c, "refused")
    /\ IF asks[c] > Capacity THEN CallGoto(c, "idle") /\ UNCHANGED enabled
       ELSE CallGoto(c, "enabled") /\ enabled' = enabled \cup {c}
    /\ UNCHANGED <<balance, in_flight, refilling, ownerVars, jobVars, countVars>>

LookBalance(c) ==
    /\ CallAt(c, "enabled")
    /\ CallGoto(c, IF balance >= asks[c] THEN "looked" ELSE "parked")
    /\ UNCHANGED <<accountVars, ownerVars, jobVars, countVars>>

\* It could be admitted: the caller dispatches again.
LookInFlight(c) ==
    /\ CallAt(c, "looked")
    /\ IF in_flight < parallelism
       THEN CallGoto(c, "idle") /\ enabled' = enabled \ {c}
       ELSE CallGoto(c, "parked") /\ UNCHANGED enabled
    /\ UNCHANGED <<balance, in_flight, refilling, ownerVars, jobVars, countVars>>

Notified(c) ==
    /\ CallAt(c, "parked") /\ c \notin enabled
    /\ CallGoto(c, "refused")
    /\ UNCHANGED <<accountVars, ownerVars, jobVars, countVars>>

replenish ==
    /\ ~refilling /\ refilled < MaxRefill
    /\ adjust(1) /\ refilled' = refilled + 1 /\ refilling' = TRUE
    /\ UNCHANGED <<in_flight, enabled, ownerVars, call, jobVars, spent, dispatches>>

ReplenishNote ==
    /\ refilling /\ refilling' = FALSE /\ notify_waiters
    /\ UNCHANGED <<balance, in_flight, ownerVars, call, jobVars, countVars>>

CreditsStep ==
    \/ replenish \/ ReplenishNote
    \/ \E c \in Callers :
          \/ \E r \in Requests : DispatchTurn(c, r) \/ DispatchHelper(c, r)
          \/ ReserveSlot(c) \/ ReserveCredit(c) \/ Rollback(c) \/ RollbackDone(c)
          \/ Enter(c) \/ CancelQueued(c)
          \/ \E panics \in BOOLEAN, actual \in 0..Capacity + Overshoot : TurnEnds(c, actual, panics)
          \/ SettleAdjust(c) \/ SettleFree(c) \/ SettleNote(c)
          \/ DropPermit(c) \/ DropLease(c) \/ ReturnValue(c) \/ OpenGate(c) \/ LetGo(c)
          \/ WaitFor(c) \/ LookBalance(c) \/ LookInFlight(c) \/ Notified(c)

CreditsNext == CreditsStep /\ UNCHANGED parallelism

CreditsSpec == CreditsInit /\ [][CreditsNext]_creditsVars

-----------------------------------------------------------------------------
(* Properties                                                              *)

\* The credits lent to jobs and not given back, one by one.
Lent(c) == IF "permit" \in held[c] /\ ~done[c] /\ ~CallAt(c, "free") THEN asks[c] ELSE 0
LentCredits == UNION {{c} \X (1..Lent(c)) : c \in Callers}

CreditsConserved == balance + Cardinality(LentCredits) + spent <= Capacity + refilled

\* The calls and jobs that have a slot.
InFlight == {c \in Callers : \/ call[c] \in {"credit", "rollback"}
                             \/ "permit" \in held[c] /\ ~done[c]}

JobsCounted == in_flight <= parallelism /\ in_flight = Cardinality(InFlight)

\* No interleaving of reservations, rollbacks, refunds, overshoots and refills
\* makes credit: what is left, lent and spent never exceeds what was granted;
\* and the jobs in flight are counted exactly, within the cap (reserve,
\* settle).
NoCreditMinted == CreditsTypeOK /\ CreditsConserved /\ JobsCounted

\* One turn at a time, whatever is cancelled, panics or is refused: at most
\* one lease is out, the gate is shut while it is, and when the gate is open
\* the value is there for the next one to take (Lease::drop, dispatch_to).
OneTurnAtATime ==
    /\ Cardinality({c \in Callers : "lease" \in held[c]}) <= 1
    /\ admitted <=> \E c \in Callers : "lease" \in held[c]
    /\ ~admitted => value

\* Nobody is stranded in wait_for: a caller that waits for a request which
\* could be admitted as things stand is about to be notified.
NoWaiterStranded ==
    \A c \in Callers :
        CallAt(c, "parked") /\ c \in enabled /\ balance >= asks[c] /\ in_flight < parallelism
            => refilling \/ \E d \in Callers : call[d] \in {"free", "note", "rollnote"}
=============================================================================
