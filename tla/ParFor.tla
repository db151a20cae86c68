------------------------------- MODULE ParFor -------------------------------
(***************************************************************************)
(* The parallel loop of par.rs.  A piece is a range of indices counted in  *)
(* outstanding; it runs on the pool, gives the right half of its range     *)
(* away while it is longer than a leaf, and is retired when it is dropped: *)
(* after its work, after a panic, or unrun.  The ParFor future is polled   *)
(* by one task and may be dropped.                                         *)
(*                                                                         *)
(* A piece is known by the first index of its range.  The pool is          *)
(* external: it runs or, once destroyed, drops the closures it was given,  *)
(* and it lives on while a piece that upgraded its Weak runs.              *)
(***************************************************************************)
EXTENDS Naturals, FiniteSets

CONSTANTS Indices,    \* the length of the range, 0..Indices-1
          Leaves      \* the values leaf may have

ASSUME ParForAssumption == Indices \in Nat /\ Leaves \subseteq Nat \ {0}

Index == 0..Indices - 1

VARIABLES outstanding, finished, waiter, panic,  \* Shared
          cancelled, pool,            \* Cancel; the pool is alive
          leaf,
          piece, end, at,             \* per piece: state, range, next index
          right,                      \* the end of the half being given away
          future, woken,              \* the ParFor, whether its task was woken
          ran                         \* history: calls of the body per index

parShared == <<outstanding, finished, waiter, panic, cancelled, pool>>
pieceVars == <<piece, end, at, right>>
parVars == <<parShared, leaf, pieceVars, future, woken, ran>>

ParForTypeOK ==
    /\ outstanding \in Nat /\ finished \in BOOLEAN /\ waiter \in BOOLEAN
    /\ panic \in BOOLEAN /\ cancelled \in BOOLEAN /\ pool \in BOOLEAN
    /\ piece \in [Index -> {"none", "queued", "split", "submit", "body",
                            "panicked", "retire", "finish", "wake"}]
    /\ future \in {"new", "look", "park", "again", "pending", "ready",
                   "unwound", "dropped"}

ParForInit ==
    /\ outstanding = 1 /\ finished = FALSE /\ waiter = FALSE /\ panic = FALSE
    /\ cancelled = FALSE /\ pool = TRUE
    /\ leaf \in Leaves
    /\ piece = [i \in Index |-> "none"] /\ end = [i \in Index |-> 0]
    /\ at = [i \in Index |-> 0] /\ right = [i \in Index |-> 0]
    /\ future = "new" /\ woken = FALSE
    /\ ran = [i \in Index |-> 0]

PieceGoto(p, label) == piece' = [piece EXCEPT ![p] = label]

\* pool.submit_fn of a piece.
Submitted(p, hi) ==
    /\ end' = [end EXCEPT ![p] = hi]
    /\ at' = [at EXCEPT ![p] = p]

-----------------------------------------------------------------------------
(* Piece::run and Shared::work.                                            *)

\* A piece whose pool is gone cancels the loop; one of a cancelled loop does
\* nothing.
RunPiece(p) ==
    /\ piece[p] = "queued"
    /\ cancelled' = (cancelled \/ ~pool)
    /\ PieceGoto(p, IF pool /\ ~cancelled THEN "split" ELSE "retire")
    /\ UNCHANGED <<outstanding, finished, waiter, panic, pool, leaf, end, at,
                   right, future, woken, ran>>

\* Slip: the new piece is counted once it is in the pool.
CountedAtLate(step) == IF step = "submit" THEN 1 ELSE 0

\* A new piece is counted before it is published.
CountedAt(step) == IF step = "split" THEN 1 ELSE 0

Split(p) ==
    /\ piece[p] = "split"
    /\ IF end[p] - p > leaf
       THEN LET middle == p + (end[p] - p) \div 2
            IN  /\ right' = [right EXCEPT ![p] = end[p]]
                /\ end' = [end EXCEPT ![p] = middle]
                /\ outstanding' = outstanding + CountedAt("split")
                /\ PieceGoto(p, "submit")
       ELSE PieceGoto(p, "body") /\ UNCHANGED <<right, end, outstanding>>
    /\ UNCHANGED <<finished, waiter, panic, cancelled, pool, leaf, at, future,
                   woken, ran>>

SubmitRight(p) ==
    /\ piece[p] = "submit"
    /\ Submitted(end[p], right[p])
    /\ piece' = [piece EXCEPT ![p] = "split", ![end[p]] = "queued"]
    /\ right' = [right EXCEPT ![p] = 0]
    /\ outstanding' = outstanding + CountedAt("submit")
    /\ UNCHANGED <<finished, waiter, panic, cancelled, pool, leaf, future, woken, ran>>

\* The body is called for the next index; it may panic.
Body(p) ==
    /\ piece[p] = "body"
    /\ IF at[p] = end[p] THEN PieceGoto(p, "retire") /\ UNCHANGED <<at, ran>>
       ELSE /\ ran' = [ran EXCEPT ![at[p]] = @ + 1]
            /\ at' = [at EXCEPT ![p] = @ + 1]
            /\ piece' \in {piece, [piece EXCEPT ![p] = "panicked"]}
    /\ UNCHANGED <<parShared, leaf, end, right, future, woken>>

\* A caught panic cancels the rest and is kept, the first one only.
RecordPanic(p) ==
    /\ piece[p] = "panicked"
    /\ cancelled' = TRUE /\ panic' = TRUE
    /\ PieceGoto(p, "retire")
    /\ UNCHANGED <<outstanding, finished, waiter, pool, leaf, end, at, right,
                   future, woken, ran>>

\* The pool is destroyed once nobody holds it; what it still has queued is
\* dropped unrun.
DestroyPool ==
    /\ pool /\ future # "new"
    /\ \A p \in Index : piece[p] \in {"none", "queued", "finish", "wake"}
    /\ pool' = FALSE
    /\ UNCHANGED <<outstanding, finished, waiter, panic, cancelled, leaf,
                   pieceVars, future, woken, ran>>

DropQueued(p) ==
    /\ ~pool /\ piece[p] = "queued"
    /\ PieceGoto(p, "retire")
    /\ UNCHANGED <<parShared, leaf, end, at, right, future, woken, ran>>

\* Piece::drop: retire.
Retire(p) ==
    /\ piece[p] = "retire"
    /\ outstanding' = outstanding - 1
    /\ PieceGoto(p, IF outstanding = 1 THEN "finish" ELSE "none")
    /\ UNCHANGED <<finished, waiter, panic, cancelled, pool, leaf, end, at,
                   right, future, woken, ran>>

RetireLast(p) ==
    /\ piece[p] = "finish"
    /\ finished' = TRUE
    /\ PieceGoto(p, "wake")
    /\ UNCHANGED <<outstanding, waiter, panic, cancelled, pool, leaf, end, at,
                   right, future, woken, ran>>

WakeWaiter(p) ==
    /\ piece[p] = "wake"
    /\ woken' = (woken \/ waiter) /\ waiter' = FALSE
    /\ PieceGoto(p, "none")
    /\ UNCHANGED <<outstanding, finished, panic, cancelled, pool, leaf, end,
                   at, right, future, ran>>

-----------------------------------------------------------------------------
(* The ParFor future.                                                      *)

\* The first poll hands the whole range over, or is Ready at once.
FirstPoll ==
    /\ future = "new"
    /\ IF Indices = 0 \/ cancelled
       THEN /\ outstanding' = outstanding - 1 /\ finished' = TRUE
            /\ future' = "ready"
            /\ UNCHANGED pieceVars
       ELSE /\ Submitted(0, Indices) /\ PieceGoto(0, "queued")
            /\ future' = "look"
            /\ UNCHANGED <<outstanding, finished, right>>
    /\ UNCHANGED <<waiter, panic, cancelled, pool, leaf, woken, ran>>

\* is_finished, before and after the waker is parked; a kept panic is rethrown.
LookFinished ==
    /\ future \in {"look", "again"}
    /\ future' = IF finished THEN (IF panic THEN "unwound" ELSE "ready")
                 ELSE IF future = "look" THEN "park" ELSE "pending"
    /\ UNCHANGED <<parShared, leaf, pieceVars, woken, ran>>

\* Slip: the flag is not looked at again after the waker was parked.
AfterPark == "pending"

ThenLook == "again"

ParkWaker ==
    /\ future = "park"
    /\ waiter' = TRUE
    /\ future' = ThenLook
    /\ UNCHANGED <<outstanding, finished, panic, cancelled, pool, leaf,
                   pieceVars, woken, ran>>

PollLoopAgain ==
    /\ future = "pending" /\ woken
    /\ woken' = FALSE /\ future' = "look"
    /\ UNCHANGED <<parShared, leaf, pieceVars, ran>>

DropLoop ==
    /\ future \in {"new", "pending"}
    /\ future' = "dropped" /\ cancelled' = TRUE
    /\ UNCHANGED <<outstanding, finished, waiter, panic, pool, leaf, pieceVars, woken, ran>>

\* Cancel::cancel, from anywhere.
CancelLoop ==
    /\ ~cancelled /\ cancelled' = TRUE
    /\ UNCHANGED <<outstanding, finished, waiter, panic, pool, leaf, pieceVars,
                   future, woken, ran>>

ParForNext ==
    \/ FirstPoll \/ LookFinished \/ ParkWaker \/ PollLoopAgain \/ DropLoop
    \/ CancelLoop \/ DestroyPool
    \/ \E p \in Index :
          \/ RunPiece(p) \/ Split(p) \/ SubmitRight(p) \/ Body(p) \/ RecordPanic(p)
          \/ DropQueued(p) \/ Retire(p) \/ RetireLast(p) \/ WakeWaiter(p)

ParForSpec == ParForInit /\ [][ParForNext]_parVars

-----------------------------------------------------------------------------
(* Properties                                                              *)

\* The range has not been handed over, and the first poll has not retired it.
Unstarted == ~finished /\ end = [i \in Index |-> 0]

Live(p) == piece[p] \notin {"none", "finish", "wake"}

\* The loop ends once and not too soon, whatever splits, panics, is cancelled
\* or dropped: outstanding counts the pieces, so it cannot reach zero while
\* one is left; when the future is Ready no body runs any more, an index was
\* run at most once and, unless the loop was cancelled or its pool destroyed
\* (which drops queued pieces unrun), exactly once, and no panic was swallowed
\* (Shared::work, retire, record_panic, ParFor::poll).
LoopIsWhole ==
    /\ ParForTypeOK
    /\ outstanding = Cardinality({p \in Index : Live(p)})
                       + Cardinality({p \in Index : piece[p] = "submit"})
                       + (IF Unstarted THEN 1 ELSE 0)
    /\ \A i \in Index : ran[i] <= 1
    /\ future \in {"ready", "unwound"} =>
          /\ \A p \in Index : ~Live(p)
          /\ cancelled \/ ~pool \/ \A i \in Index : ran[i] = 1
          /\ future = "ready" => ~panic

\* The task awaiting the loop is not left asleep beside a finished one: its
\* waker is still to be called (ParFor::poll against retire).
LoopIsAwaited ==
    future = "pending" /\ finished /\ ~woken => \E p \in Index : piece[p] = "wake"
=============================================================================
