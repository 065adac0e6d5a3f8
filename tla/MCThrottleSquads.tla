-------------------------- MODULE MCThrottleSquads --------------------------
(* A small instance of ThrottleSquads.  Coroutines are interchangeable, and *)
(* so are the squad lists an administrator gives.                           *)
EXTENDS ThrottleSquads, TLC

Symmetry == Permutations(Ops) \cup Permutations(Homes)
=============================================================================
