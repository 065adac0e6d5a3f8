----------------------------- MODULE LogTransfer -----------------------------
(***************************************************************************)
(* What a sender with a bounded buffer promises about a log: its entries   *)
(* reach the other side in the order of the log; one leaves the buffer     *)
(* only when the other side has it or it is counted as lost; and as long   *)
(* as the sender runs, only the oldest are thrown away, and only when      *)
(* there is no room.                                                       *)
(***************************************************************************)
EXTENDS Naturals, FiniteSets

CONSTANTS
    Length,  \* of the log
    Room     \* entries the sender can hold

VARIABLES
    read,    \* entries the log has given
    held,    \* entries in the buffer of the sender
    stored,  \* entries the other side has
    lost     \* entries that were dropped, or may have been

vars == <<read, held, stored, lost>>

Init ==
    /\ read = 0
    /\ held = {}
    /\ stored = {}
    /\ lost = {}

UpTo(k, S) == {i \in S : i <= k}
Above(k, S) == {i \in S : i > k}

\* New entries come in, and the oldest make room for them.
Read ==
    \E n \in read..Length, k \in 0..Length :
        LET grown == held \cup ((read + 1)..n)
        IN  /\ read' = n
            /\ held' = Above(k, grown)
            /\ lost' = lost \cup UpTo(k, grown)
            /\ UpTo(k, grown) = {} \/ Cardinality(held') = Room
            /\ UNCHANGED stored

Settled(S) == S \subseteq stored \cup lost

\* The oldest entries are known to have arrived, and leave the buffer.
Release ==
    \E k \in 0..read :
        /\ Settled(UpTo(k, held))
        /\ held' = Above(k, held)
        /\ UNCHANGED <<read, stored, lost>>

\* The sender ends and begins anew.
Restart ==
    \E k \in 0..read :
        /\ Settled(UpTo(k, held))
        /\ held' = {}
        /\ lost' = lost \cup Above(k, held)
        /\ UNCHANGED <<read, stored>>

\* Entries arrive, or are lost on the way, with all that came before them.
InOrder(S) == \A j \in S : \A i \in 1..j : i \in stored \cup lost \cup S

Store ==
    \E S \in SUBSET (1..read) :
        /\ InOrder(S)
        /\ stored' = stored \cup S
        /\ UNCHANGED <<read, held, lost>>

Lose ==
    \E S \in SUBSET (1..read) :
        /\ InOrder(S)
        /\ lost' = lost \cup S
        /\ UNCHANGED <<read, held, stored>>

Next == Read \/ Release \/ Restart \/ Store \/ Lose

Spec == Init /\ [][Next]_vars
=============================================================================
