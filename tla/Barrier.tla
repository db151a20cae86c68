------------------------------- MODULE Barrier -------------------------------
(***************************************************************************)
(* Barrier (sync.rs): parties that come in groups of n.  Its Notify is     *)
(* taken by the promise that module Notify checks: notify_waiters          *)
(* notifies every future enabled before it and keeps nothing for later     *)
(* ones.  A party may be cancelled while it waits; its arrival stays       *)
(* counted.                                                                *)
(***************************************************************************)
EXTENDS Naturals, FiniteSets

CONSTANTS Parties,
          GroupSizes,      \* the values n may have, 0 and 1 included
          MaxRounds        \* bound on the rendezvous

ASSUME BarrierAssumption ==
    IsFiniteSet(Parties) /\ GroupSizes \subseteq Nat /\ MaxRounds \in Nat

VARIABLES n, arrived, round,   \* Barrier; round is the generation
          enlisted,          \* the futures enabled and not notified
          party, joined,       \* per party: where it is, the generation it saw
          came, led            \* history: arrivals and leaders per round

barrierVars == <<n, arrived, round, enlisted, party, joined, came, led>>

Rounds == 0..MaxRounds

BarrierTypeOK ==
    /\ n \in GroupSizes /\ arrived \in Nat /\ round \in Rounds
    /\ enlisted \subseteq Parties
    /\ party \in [Parties -> {"out", "enable", "look", "sleep", "notify"}]
    /\ joined \in [Parties -> Rounds]

BarrierInit ==
    /\ n \in GroupSizes /\ arrived = 0 /\ round = 0
    /\ enlisted = {}
    /\ party = [p \in Parties |-> "out"] /\ joined = [p \in Parties |-> 0]
    /\ came = [r \in Rounds |-> 0] /\ led = [r \in Rounds |-> 0]

PartyGoto(p, label) == party' = [party EXCEPT ![p] = label]

\* Slip: the generation is read again before the future is enabled.
FollowingLate(label) ==
    CASE label = "arrive" -> "look" [] label = "look" -> "enable" [] label = "enable" -> "sleep"

\* The future is enabled before the generation is read again.
Following(label) ==
    CASE label = "arrive" -> "enable" [] label = "enable" -> "look" [] label = "look" -> "sleep"

\* The arrival, under the lock: the last of a group starts the next round.
Arrive(p) ==
    /\ party[p] = "out" /\ round < MaxRounds
    /\ came' = [came EXCEPT ![round] = @ + 1]
    /\ IF arrived + 1 >= n
       THEN /\ arrived' = 0 /\ round' = round + 1
            /\ led' = [led EXCEPT ![round] = @ + 1]
            /\ PartyGoto(p, "notify")
            /\ UNCHANGED joined
       ELSE /\ arrived' = arrived + 1
            /\ joined' = [joined EXCEPT ![p] = round]
            /\ PartyGoto(p, Following("arrive"))
            /\ UNCHANGED <<round, led>>
    /\ UNCHANGED <<n, enlisted>>

\* notify_waiters, after the lock; the leader's wait returns true.
Release(p) ==
    /\ party[p] = "notify"
    /\ enlisted' = {}
    /\ PartyGoto(p, "out")
    /\ UNCHANGED <<n, arrived, round, joined, came, led>>

EnableFuture(p) ==
    /\ party[p] = "enable"
    /\ enlisted' = enlisted \cup {p}
    /\ PartyGoto(p, Following("enable"))
    /\ UNCHANGED <<n, arrived, round, joined, came, led>>

\* Its own round is over: wait returns false and the future is dropped.
LookAtRound(p) ==
    /\ party[p] = "look"
    /\ IF round # joined[p]
       THEN PartyGoto(p, "out") /\ enlisted' = enlisted \ {p}
       ELSE PartyGoto(p, Following("look")) /\ UNCHANGED enlisted
    /\ UNCHANGED <<n, arrived, round, joined, came, led>>

PartyWakes(p) ==
    /\ party[p] = "sleep" /\ p \notin enlisted
    /\ PartyGoto(p, Following("arrive"))
    /\ UNCHANGED <<n, arrived, round, enlisted, joined, came, led>>

CancelParty(p) ==
    /\ party[p] = "sleep"
    /\ PartyGoto(p, "out") /\ enlisted' = enlisted \ {p}
    /\ UNCHANGED <<n, arrived, round, joined, came, led>>

BarrierNext ==
    \E p \in Parties :
        \/ Arrive(p) \/ Release(p) \/ EnableFuture(p) \/ LookAtRound(p)
        \/ PartyWakes(p) \/ CancelParty(p)

BarrierSpec == BarrierInit /\ [][BarrierNext]_barrierVars

-----------------------------------------------------------------------------
(* Properties                                                              *)

\* A round that is over had a full group of arrivals and exactly one leader,
\* the current one has the arrivals counted.
RoundsCounted ==
    \A r \in Rounds :
        /\ r < round => led[r] = 1 /\ came[r] = (IF n = 0 THEN 1 ELSE n)
        /\ r >= round => led[r] = 0 /\ came[r] = (IF r = round THEN arrived ELSE 0)

\* A party asleep after its round ended is about to be notified.
SleeperNotified ==
    \A p \in Parties :
        party[p] = "sleep" /\ p \in enlisted /\ joined[p] # round
           => \E q \in Parties : party[q] = "notify"

\* Rounds do not mix however slow a released party is: each has its full group
\* and one leader, and nobody sleeps past the end of its own, though the
\* leader of that round or a later one may yet have to notify (Barrier::wait).
RoundsKeptApart == BarrierTypeOK /\ RoundsCounted /\ SleeperNotified
=============================================================================
