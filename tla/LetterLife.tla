----------------------------- MODULE LetterLife ------------------------------
(***************************************************************************)
(* The life of a letter as its sender, its recipient and an administrator  *)
(* see it, whatever the worker behind the queue does: a bounded number of  *)
(* tries between two requests of the administrator, no try of a letter     *)
(* that was given up or whose delivery the sender knows of, a return only  *)
(* of a letter with a recorded delivery, and no way out of a try but its   *)
(* outcome, a recovery, a return or the removal of the letter.             *)
(***************************************************************************)
EXTENDS Naturals

CONSTANTS
    Letters,
    MaxTries

VARIABLES
    phase,    \* of each letter
    tries,    \* since it was accepted or last retried by hand
    claimed,  \* letters the present pass of the sender has not dealt with
    touched,  \* letters last retried by hand while they were claimed
    recorded  \* letters a delivery was ever recorded of

vars == <<phase, tries, claimed, touched, recorded>>

Init ==
    /\ phase = [l \in Letters |-> "none"]
    /\ tries = [l \in Letters |-> 0]
    /\ claimed = {}
    /\ touched = {}
    /\ recorded = {}

Becomes(l, p) == phase' = [phase EXCEPT ![l] = p]

Accept(l) ==
    /\ phase[l] = "none"
    /\ Becomes(l, "waiting")
    /\ tries' = [tries EXCEPT ![l] = 0]
    /\ UNCHANGED <<claimed, touched, recorded>>

\* A pass begins.
Claim ==
    /\ claimed = {}
    /\ claimed' \in SUBSET {l \in Letters : phase[l] = "waiting"}
    /\ UNCHANGED <<phase, tries, touched, recorded>>

\* A letter withdrawn or returned after the pass began is tried all the same.
\* The sender may leave the letter, not knowing that its try has begun.
Try(l) ==
    /\ l \in claimed
    /\ phase[l] \in {"waiting", "withdrawn", "returned"}
    /\ tries[l] < MaxTries
    /\ Becomes(l, "trying")
    /\ tries' = [tries EXCEPT ![l] = @ + 1]
    /\ claimed' \in {claimed, claimed \ {l}}
    /\ UNCHANGED <<touched, recorded>>

\* A sender that is not told that its record was made keeps the letter.
Deliver(l) ==
    /\ l \in claimed
    /\ phase[l] \in {"trying", "returned"}
    /\ Becomes(l, "delivered")
    /\ recorded' = recorded \cup {l}
    /\ claimed' \in {claimed, claimed \ {l}}
    /\ UNCHANGED <<tries, touched>>

\* Also of a letter whose delivery the sender does not know of.
Fail(l) ==
    /\ l \in claimed
    /\ \/ phase[l] = "trying"
       \/ phase[l] \in {"delivered", "returned"} /\ l \in recorded
    /\ \/ tries[l] < MaxTries /\ Becomes(l, "waiting")
       \/ (tries[l] = MaxTries \/ l \in touched) /\ Becomes(l, "given up")
    /\ claimed' = claimed \ {l}
    /\ UNCHANGED <<tries, touched, recorded>>

\* The pass leaves a letter as it is, or is cut short.
Skip ==
    /\ \E S \in SUBSET claimed : claimed' = claimed \ S
    /\ UNCHANGED <<phase, tries, touched, recorded>>

\* Tries that were cut short are found between two passes.
Recover ==
    /\ claimed = {}
    /\ \E S \in SUBSET {l \in Letters : phase[l] = "trying"} :
          phase' = [l \in Letters |->
              IF l \notin S THEN phase[l]
              ELSE IF tries[l] = MaxTries THEN "given up" ELSE "waiting"]
    /\ UNCHANGED <<tries, claimed, touched, recorded>>

Retry(l) ==
    /\ phase[l] \in {"waiting", "given up"}
    /\ Becomes(l, "waiting")
    /\ tries' = [tries EXCEPT ![l] = 0]
    /\ touched' = IF l \in claimed THEN touched \cup {l} ELSE touched \ {l}
    /\ UNCHANGED <<claimed, recorded>>

Withdraw(l) ==
    /\ phase[l] \in {"waiting", "given up"}
    /\ Becomes(l, "withdrawn")
    /\ UNCHANGED <<tries, claimed, touched, recorded>>

Return(l) ==
    /\ l \in recorded
    /\ phase[l] # "returned"
    /\ Becomes(l, "returned")
    /\ UNCHANGED <<tries, claimed, touched, recorded>>

Remove ==
    /\ \E S \in SUBSET {l \in Letters : phase[l] # "none"} :
          /\ phase' = [l \in Letters |-> IF l \in S THEN "removed" ELSE phase[l]]
          /\ tries' = [l \in Letters |-> IF l \in S THEN 0 ELSE tries[l]]
          /\ recorded' = recorded \ S
    /\ UNCHANGED <<claimed, touched>>

Next ==
    \/ Claim \/ Skip \/ Recover \/ Remove
    \/ \E l \in Letters : \/ Accept(l) \/ Try(l) \/ Deliver(l) \/ Fail(l)
                          \/ Retry(l) \/ Withdraw(l) \/ Return(l)

Spec == Init /\ [][Next]_vars
=============================================================================
