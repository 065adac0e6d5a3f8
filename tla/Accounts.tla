------------------------------ MODULE Accounts ------------------------------
(***************************************************************************)
(* What the violation detector, the automation engine and an operator act  *)
(* on together: the account in the Remnawave panel, its row in the         *)
(* panel-admin's own users table, and the violations table.                *)
(*                                                                         *)
(* The panel is an external service.  All that is used of it is that       *)
(* disabling a disabled account, like enabling an enabled one, is answered *)
(* with an error, and that any call may fail.                              *)
(***************************************************************************)
EXTENDS Naturals, Sequences, FiniteSets

CONSTANTS
    Users,          \* accounts
    MaxViolations,  \* bound: rows of the violations table
    MaxMoves,       \* bound: what operators, clients and other detectors do meanwhile
    MaxFaults       \* bound: calls that fail and restarts of the backend

ASSUME UsersAssumption == IsFiniteSet(Users)
ASSUME MaxViolationsAssumption == MaxViolations \in Nat
ASSUME MaxMovesAssumption == MaxMoves \in Nat
ASSUME MaxFaultsAssumption == MaxFaults \in Nat

VARIABLES
    status,      \* the account in the panel
    mirror,      \* users.status: what the last synchronisation wrote
    violations,  \* the violations table, in the order of detected_at
    whitelist,   \* users with a full entry in the whitelist
    resolving,   \* the violation an operator is closing with a block, or 0
    events,      \* violations told to the engine and not picked up yet
    moves,       \* how many moves operators, clients and other detectors have made
    faults,      \* how many calls have failed
    ban,         \* history: the decision that stands behind a block
    excused      \* history: users some call for whom failed or was cut short

accounts == <<status, mirror, violations, whitelist, resolving, ban, excused, faults>>
told == <<accounts, events, moves>>

Soft == 1  \* a score that calls for an operator
Hard == 2  \* from here on a score calls for ViolationAction.HARD_BLOCK
Top == 3   \* the highest score
Scores == {Soft, Hard, Top}
Ids == 1..MaxViolations

\* action_taken: NULL, an operator's, or the detector's; recent: a pending row whose detected_at is
\* inside the dedup window; by: the detector that saved it.
Violations ==
    [user : Users, score : Scores, recent : BOOLEAN,
     action : {"none", "operator", "hard_block"}, by : {"worker", "torrent", "traffic"}]

AccountsTypeOK ==
    /\ status \in [Users -> {"ACTIVE", "DISABLED"}]
    /\ mirror \in [Users -> {"ACTIVE", "DISABLED"}]
    /\ violations \in Seq(Violations)
    /\ Len(violations) <= MaxViolations
    /\ whitelist \subseteq Users
    /\ resolving \in 0..Len(violations)
    /\ events \subseteq DOMAIN violations
    /\ moves \in 0..MaxMoves
    /\ faults \in 0..MaxFaults
    /\ ban \in [Users -> {"none", "timed", "permanent"}]
    /\ excused \subseteq Users

AccountsInit ==
    /\ status = [u \in Users |-> "ACTIVE"]
    /\ mirror = status
    /\ violations = << >>
    /\ whitelist = {}
    /\ resolving = 0
    /\ events = {}
    /\ moves = 0
    /\ faults = 0
    /\ ban = [u \in Users |-> "none"]
    /\ excused = {}

Recorded == DOMAIN violations
Pending(v) == violations[v].action = "none"

\* A call raises, to the disadvantage of the users in S: it failed, or it was
\* carried out and its answer did not arrive.
Fault(S) ==
    /\ faults < MaxFaults
    /\ faults' = faults + 1
    /\ excused' = excused \cup S
NoFault == UNCHANGED <<faults, excused>>

----------------------------------------------------------------------------
(* Calls to the panel.                                                     *)

\* POST /api/users/<id>/actions/disable
DisableUser(u, decision) ==
    /\ status[u] = "ACTIVE"
    /\ status' = [status EXCEPT ![u] = "DISABLED"]
    /\ ban' = [ban EXCEPT ![u] = decision]
    /\ NoFault

\* POST /api/users/<id>/actions/enable
EnableUser(u) ==
    /\ status[u] = "DISABLED"
    /\ status' = [status EXCEPT ![u] = "ACTIVE"]
    /\ ban' = [ban EXCEPT ![u] = "none"]
    /\ NoFault

\* The call fails, before or after the panel has carried it out, or the panel
\* refuses it because u is in that state already.
CallFails(u, state, decision) ==
    \/ /\ Fault({u})
       /\ \/ UNCHANGED <<status, ban>>
          \/ /\ status[u] # state
             /\ status' = [status EXCEPT ![u] = state]
             /\ ban' = [ban EXCEPT ![u] = decision]
    \/ /\ status[u] = state
       /\ excused' = excused \cup {u}
       /\ UNCHANGED <<status, ban, faults>>

\* A synchronisation brings the account's status to the users table.
Sync(u) ==
    /\ mirror[u] # status[u]
    /\ mirror' = [mirror EXCEPT ![u] = status[u]]
    /\ UNCHANGED <<status, violations, whitelist, resolving, ban, excused, faults, events, moves>>

----------------------------------------------------------------------------
(* The violations table.                                                   *)

\* The row save_violation compares with: the user's newest pending one in
\* the dedup window.
Waiting(u) == {v \in Recorded : violations[v].user = u /\ violations[v].recent}
Newest(u) == CHOOSE v \in Waiting(u) : \A w \in Waiting(u) : w <= v

\* (Mutant: any pending row swallows the new one, whatever its score.)
DuplicateOfAny(u, score) == Waiting(u) # {}

\* (Mutant: an equal score gets a row of its own.)
DuplicateOfHigher(u, score) ==
    Waiting(u) # {} /\ violations[Newest(u)].score > score

Duplicate(u, score) ==
    Waiting(u) # {} /\ violations[Newest(u)].score >= score

\* save_violation, the branch that inserts; the traffic monitor asks for no
\* comparison (dedup=False).  Its transaction is one step: that two detectors
\* save for one user at the same moment and both insert is left out.
Insert(u, score, by) ==
    /\ by = "traffic" \/ ~Duplicate(u, score)
    /\ violations' = Append(violations,
           [user |-> u, score |-> score, recent |-> TRUE, action |-> "none", by |-> by])

\* update_violation_action: no condition on what the row said before.
Update(v, action) ==
    violations' = [violations EXCEPT ![v].action = action, ![v].recent = FALSE]

\* The row leaves the dedup window, the oldest first.
Age(v) ==
    /\ v \in Recorded /\ violations[v].recent
    /\ \A w \in 1..(v - 1) : ~violations[w].recent
    /\ violations' = [violations EXCEPT ![v].recent = FALSE]
    /\ UNCHANGED <<status, mirror, whitelist, resolving, ban, excused, faults, events, moves>>

----------------------------------------------------------------------------
(* The operator.                                                           *)

Move == moves < MaxMoves /\ moves' = moves + 1

\* resolve_violation with action=block, up to the panel's answer: an error
\* because the account is disabled already counts as success.
ResolveBlock(v) ==
    /\ Move
    /\ resolving = 0 /\ v \in Recorded
    /\ LET u == violations[v].user
       IN  /\ status' = [status EXCEPT ![u] = "DISABLED"]
           /\ ban' = [ban EXCEPT ![u] = "permanent"]
    /\ resolving' = v
    /\ UNCHANGED <<mirror, violations, whitelist, excused, faults, events>>

\* ... and the update of the row.
ResolveBlockEnd ==
    /\ resolving # 0
    /\ Update(resolving, "operator")
    /\ resolving' = 0
    /\ UNCHANGED <<status, mirror, whitelist, ban, excused, faults, events, moves>>

\* resolve_violation with action=ignore or dismiss, and annul_violation.
Close(v) ==
    /\ Move
    /\ v \in Recorded /\ violations[v].action # "operator"
    /\ Update(v, "operator")
    /\ UNCHANGED <<status, mirror, whitelist, resolving, ban, excused, faults, events>>

\* annul_pending_violations: every pending row of the user.
AnnulUser(u) ==
    LET rows == {v \in Recorded : violations[v].user = u /\ Pending(v)}
    IN  /\ Move
        /\ rows # {}
        /\ violations' = [v \in Recorded |->
               IF v \in rows THEN [violations[v] EXCEPT !.action = "operator", !.recent = FALSE]
               ELSE violations[v]]
        /\ UNCHANGED <<status, mirror, whitelist, resolving, ban, excused, faults, events>>

AddToWhitelist(u) ==
    /\ Move
    /\ whitelist' = whitelist \cup {u}
    /\ u \notin whitelist
    /\ UNCHANGED <<status, mirror, violations, resolving, ban, excused, faults, events>>

\* By an operator, or because expires_at has passed.
RemoveFromWhitelist(u) ==
    /\ u \in whitelist
    /\ whitelist' = whitelist \ {u}
    /\ UNCHANGED <<status, mirror, violations, resolving, ban, excused, faults, events, moves>>

AdminEnable(u) ==
    /\ Move
    /\ EnableUser(u)
    /\ UNCHANGED <<mirror, violations, whitelist, resolving, events>>

AdminNext ==
    \/ \E v \in Recorded : ResolveBlock(v) \/ Close(v) \/ Age(v)
    \/ ResolveBlockEnd
    \/ \E u \in Users : \/ AnnulUser(u) \/ AddToWhitelist(u) \/ RemoveFromWhitelist(u)
                        \/ AdminEnable(u) \/ Sync(u)
=============================================================================
