------------------------------ MODULE MCTimers ------------------------------
(* Timers for TLC: sleeps and wakers are interchangeable.                  *)
EXTENDS Timers, TLC

Interchangeable == Permutations(Sleeps) \cup Permutations(Wakers)
=============================================================================
