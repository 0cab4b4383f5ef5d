------------------------------ MODULE TurnLease ------------------------------
(***************************************************************************)
(* What the scheduler promises the coordinator: at most Active turns hold  *)
(* the generation lease, a lease is granted only while one is free, and    *)
(* only its holder returns it.                                             *)
(***************************************************************************)
EXTENDS Naturals, FiniteSets

CONSTANTS Workers,
          Active   \* how many leases exist, at least one

VARIABLE holders

Init == holders = {}

Grant(w) ==
  /\ w \notin holders
  /\ Cardinality(holders) < Active
  /\ holders' = holders \cup {w}

Return(w) ==
  /\ w \in holders
  /\ holders' = holders \ {w}

\* The process ends: every lease goes with it.
Lose == holders' = {}

Next == Lose \/ \E w \in Workers : Grant(w) \/ Return(w)

Spec == Init /\ [][Next]_holders
=============================================================================
