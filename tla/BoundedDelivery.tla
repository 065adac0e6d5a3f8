-------------------------- MODULE BoundedDelivery ---------------------------
(***************************************************************************)
(* What a sender with retries promises about each item it accepts: it is   *)
(* tried a bounded number of times, never again once it is delivered or    *)
(* dropped, and it does not stay open for ever.                            *)
(***************************************************************************)
EXTENDS Naturals

CONSTANTS
    Items,
    MaxTries  \* how often an item may be tried

VARIABLES
    phase,  \* of each item
    tries   \* how often it has been tried

vars == <<phase, tries>>

Init ==
    /\ phase = [i \in Items |-> "none"]
    /\ tries = [i \in Items |-> 0]

\* Some items are accepted.
Accept ==
    \E S \in SUBSET {i \in Items : phase[i] = "none"} :
        /\ phase' = [i \in Items |-> IF i \in S THEN "open" ELSE phase[i]]
        /\ UNCHANGED tries

Try(i) ==
    /\ phase[i] = "open"
    /\ tries[i] < MaxTries
    /\ tries' = [tries EXCEPT ![i] = @ + 1]
    /\ \E p \in {"open", "delivered"} : phase' = [phase EXCEPT ![i] = p]

\* Some items are given up, or not accepted.
Drop ==
    \E S \in SUBSET {i \in Items : phase[i] \in {"none", "open"}} :
        /\ phase' = [i \in Items |-> IF i \in S THEN "dropped" ELSE phase[i]]
        /\ UNCHANGED tries

Next == Accept \/ Drop \/ \E i \in Items : Try(i)

Settles == \A i \in Items : phase[i] = "open" ~> phase[i] # "open"

Spec == Init /\ [][Next]_vars /\ Settles
=============================================================================
