---------------------------- MODULE MCAgentShaper ----------------------------
(* A small instance of AgentShaper: addresses, rates and settings are        *)
(* interchangeable.                                                         *)
EXTENDS AgentShaper, TLC

Symmetry == Permutations(Clients) \cup Permutations(Rates) \cup Permutations(Configs)
==============================================================================
