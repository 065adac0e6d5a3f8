-------------------------- MODULE EnforcementProofs -------------------------
(***************************************************************************)
(* Proofs about Enforcement for any accounts, rules, violations, moves and *)
(* faults.                                                                 *)
(***************************************************************************)
EXTENDS Enforcement, FiniteSetTheorems, SequenceTheorems, WellFoundedInduction, TLAPS

----------------------------------------------------------------------------
(* The violations table.                                                   *)

\* No step takes a row away, changes whom it is about, or makes it wait again.
RowsStay ==
    /\ violations' \in Seq(Violations)
    /\ Len(violations) <= Len(violations')
    /\ \A v \in Recorded :
           /\ violations'[v].user = violations[v].user
           /\ violations'[v].score = violations[v].score
           /\ violations'[v].by = violations[v].by
           /\ violations[v].action # "none" => violations'[v].action # "none"
           /\ violations'[v].recent =>
                  violations[v].recent /\ violations'[v].action = violations[v].action

LEMMA RowTypes ==
    ASSUME AccountsTypeOK
    PROVE  /\ Len(violations) \in Nat /\ Recorded = 1..Len(violations)
           /\ \A v \in Recorded : violations[v] \in Violations
           /\ Recorded \subseteq Ids
<1>1. /\ violations \in Seq(Violations) /\ Len(violations) <= MaxViolations
    BY DEF AccountsTypeOK
<1>2. Len(violations) \in Nat /\ DOMAIN violations = 1..Len(violations)
    BY <1>1, LenProperties
<1> QED
    BY <1>1, <1>2, ElementOfSeq, MaxViolationsAssumption DEF Recorded, Ids

\* update_violation_action, and a row that ages.
LEMMA UpdateStays ==
    ASSUME AccountsTypeOK, NEW v \in Recorded,
           NEW row \in Violations, row.user = violations[v].user, row.score = violations[v].score,
           row.by = violations[v].by, ~row.recent, violations[v].action # "none" => row.action # "none",
           violations' = [violations EXCEPT ![v] = row]
    PROVE  /\ RowsStay /\ Len(violations') = Len(violations)
           /\ violations'[v] = row
           /\ \A w \in Recorded : w # v => violations'[w] = violations[w]
<1>1. /\ violations \in Seq(Violations) /\ v \in 1..Len(violations) /\ Len(violations) \in Nat
    BY RowTypes DEF AccountsTypeOK
<1>2. /\ violations' \in Seq(Violations) /\ Len(violations') = Len(violations)
      /\ \A w \in 1..Len(violations) : violations'[w] = IF w = v THEN row ELSE violations[w]
    BY <1>1, ExceptSeq
<1> QED
    BY <1>1, <1>2, RowTypes DEF RowsStay

Closed(v, action) == [violations[v] EXCEPT !.action = action, !.recent = FALSE]

LEMMA UpdateKeeps ==
    ASSUME AccountsTypeOK, NEW v \in Recorded, NEW action \in {"operator", "hard_block"},
           Update(v, action)
    PROVE  /\ RowsStay /\ Len(violations') = Len(violations)
           /\ violations'[v] = Closed(v, action)
           /\ \A w \in Recorded : w # v => violations'[w] = violations[w]
<1>1. /\ Closed(v, action) \in Violations
      /\ Closed(v, action).user = violations[v].user /\ Closed(v, action).score = violations[v].score
      /\ Closed(v, action).by = violations[v].by
      /\ ~Closed(v, action).recent /\ Closed(v, action).action = action
    BY RowTypes DEF Violations, Closed
<1>2. violations' = [violations EXCEPT ![v] = Closed(v, action)]
    BY RowTypes DEF Update, Closed, AccountsTypeOK
<1> HIDE DEF Closed
<1> QED
    BY <1>1, <1>2, UpdateStays

\* save_violation.
LEMMA InsertKeeps ==
    ASSUME AccountsTypeOK, NEW u \in Users, NEW score \in Scores,
           NEW by \in {"worker", "torrent", "traffic"}, Insert(u, score, by)
    PROVE  /\ RowsStay /\ Len(violations') = Len(violations) + 1
           /\ violations'[Len(violations) + 1] =
                  [user |-> u, score |-> score, recent |-> TRUE, action |-> "none", by |-> by]
           /\ \A w \in Recorded : violations'[w] = violations[w]
<1> DEFINE row == [user |-> u, score |-> score, recent |-> TRUE, action |-> "none", by |-> by]
<1>1. row \in Violations /\ violations' = Append(violations, row)
    BY DEF Violations, Insert
<1>2. violations \in Seq(Violations) /\ Len(violations) \in Nat
    BY RowTypes DEF AccountsTypeOK
<1> HIDE DEF row
<1>3. /\ violations' \in Seq(Violations) /\ Len(violations') = Len(violations) + 1
      /\ \A w \in 1..Len(violations) : violations'[w] = violations[w]
      /\ violations'[Len(violations) + 1] = row
    BY <1>1, <1>2, AppendProperties
<1> QED
    BY <1>2, <1>3, RowTypes DEF RowsStay, row

\* annul_pending_violations.
LEMMA AnnulKeeps ==
    ASSUME AccountsTypeOK, NEW u \in Users, AnnulUser(u)
    PROVE  /\ RowsStay /\ Len(violations') = Len(violations)
           /\ \A w \in Recorded : \/ violations'[w] = violations[w]
                                  \/ violations'[w] = Closed(w, "operator")
<1>1. /\ DOMAIN violations' = Recorded
      /\ \A w \in Recorded : \/ violations'[w] = violations[w]
                             \/ violations'[w] = Closed(w, "operator")
      /\ violations' = [v \in Recorded |-> violations'[v]]
    BY DEF AnnulUser, Closed
<1>2. /\ Recorded = 1..Len(violations) /\ Len(violations) \in Nat
      /\ \A w \in Recorded : violations[w] \in Violations
    BY RowTypes
<1>3. \A w \in Recorded :
          /\ Closed(w, "operator") \in Violations
          /\ Closed(w, "operator").user = violations[w].user
          /\ Closed(w, "operator").score = violations[w].score
          /\ Closed(w, "operator").by = violations[w].by
          /\ ~Closed(w, "operator").recent /\ Closed(w, "operator").action = "operator"
    BY <1>2 DEF Closed, Violations
<1> HIDE DEF Closed
<1>4. violations' \in [1..Len(violations) -> Violations]
    BY <1>1, <1>2, <1>3
<1>5. violations' \in Seq(Violations) /\ Len(violations') = Len(violations)
    <2> DEFINE n == Len(violations)
    <2>1. violations' \in [1..n -> Violations] /\ n \in Nat
        BY <1>2, <1>4
    <2> HIDE DEF n
    <2>2. violations' \in Seq(Violations) /\ Len(violations') = n
        BY <2>1
    <2> QED
        BY <2>2 DEF n
<1> QED
    BY <1>1, <1>2, <1>3, <1>5 DEF RowsStay

LEMMA RowsLeftAlone ==
    ASSUME AccountsTypeOK, UNCHANGED violations
    PROVE  RowsStay
BY RowTypes DEF RowsStay, AccountsTypeOK

----------------------------------------------------------------------------
(* What the steps of each part do to the accounts.                         *)

\* The panel's answers.
LEMMA PanelKeeps ==
    ASSUME AccountsTypeOK, NEW u \in Users,
           \/ \E decision \in {"timed", "permanent"} : DisableUser(u, decision)
           \/ EnableUser(u)
           \/ \E state \in {"ACTIVE", "DISABLED"}, decision \in {"none", "timed", "permanent"} :
                  CallFails(u, state, decision)
    PROVE  /\ status' \in [Users -> {"ACTIVE", "DISABLED"}]
           /\ ban' \in [Users -> {"none", "timed", "permanent"}]
           /\ faults' \in 0..MaxFaults
           /\ excused' \subseteq Users /\ excused \subseteq excused'
BY MaxFaultsAssumption
DEF AccountsTypeOK, DisableUser, EnableUser, CallFails, Fault, NoFault

LEMMA FaultKeeps ==
    ASSUME AccountsTypeOK, NEW S \in SUBSET Users, Fault(S) \/ NoFault
    PROVE  faults' \in 0..MaxFaults /\ excused' \subseteq Users /\ excused \subseteq excused'
BY MaxFaultsAssumption DEF AccountsTypeOK, Fault, NoFault

\* What every step keeps of the accounts.
Kept ==
    /\ AccountsTypeOK'
    /\ RowsStay
    /\ excused \subseteq excused'

LEMMA AdminKeeps ==
    ASSUME AccountsTypeOK, AdminNext
    PROVE  Kept /\ Len(violations') = Len(violations)
<1> USE MaxMovesAssumption
<1>1. /\ Len(violations) \in Nat /\ Recorded = 1..Len(violations)
      /\ \A v \in Recorded : violations[v].user \in Users
    BY RowTypes DEF Violations
<1>2. ASSUME RowsStay, Len(violations') = Len(violations)
      PROVE  DOMAIN violations' = DOMAIN violations /\ Len(violations') <= MaxViolations
             /\ violations' \in Seq(Violations)
    BY <1>1, <1>2, LenProperties DEF RowsStay, AccountsTypeOK, Recorded
<1>3. ASSUME NEW v \in Recorded, ResolveBlock(v)
      PROVE  Kept /\ Len(violations') = Len(violations)
    BY <1>1, <1>3, RowsLeftAlone DEF Kept, ResolveBlock, Move, AccountsTypeOK
<1>4. ASSUME NEW v \in Recorded, Close(v)
      PROVE  Kept /\ Len(violations') = Len(violations)
    <2>1. RowsStay /\ Len(violations') = Len(violations)
        BY <1>4, UpdateKeeps DEF Close
    <2> QED
        BY <1>2, <1>4, <2>1 DEF Kept, Close, Move, AccountsTypeOK
<1>5. ASSUME NEW v \in Recorded, Age(v)
      PROVE  Kept /\ Len(violations') = Len(violations)
    <2> DEFINE row == [violations[v] EXCEPT !.recent = FALSE]
    <2>1. /\ row \in Violations /\ row.user = violations[v].user /\ row.score = violations[v].score
          /\ row.by = violations[v].by
          /\ ~row.recent /\ row.action = violations[v].action
        BY RowTypes DEF Violations
    <2>2. violations' = [violations EXCEPT ![v] = row]
        BY <1>5, RowTypes DEF Age, AccountsTypeOK
    <2> HIDE DEF row
    <2>3. RowsStay /\ Len(violations') = Len(violations)
        BY <2>1, <2>2, UpdateStays
    <2> QED
        BY <1>2, <1>5, <2>3 DEF Kept, Age, AccountsTypeOK
<1>6. ASSUME ResolveBlockEnd
      PROVE  Kept /\ Len(violations') = Len(violations)
    <2>1. resolving \in Recorded
        BY <1>1, <1>6 DEF ResolveBlockEnd, AccountsTypeOK
    <2>2. RowsStay /\ Len(violations') = Len(violations)
        BY <1>6, <2>1, UpdateKeeps DEF ResolveBlockEnd
    <2> QED
        BY <1>1, <1>2, <1>6, <2>2 DEF Kept, ResolveBlockEnd, AccountsTypeOK
<1>7. ASSUME NEW u \in Users, AnnulUser(u)
      PROVE  Kept /\ Len(violations') = Len(violations)
    <2>1. RowsStay /\ Len(violations') = Len(violations)
        BY <1>7, AnnulKeeps
    <2>2. /\ moves < MaxMoves /\ moves' = moves + 1
          /\ UNCHANGED <<status, mirror, whitelist, resolving, ban, excused, faults, events>>
        BY <1>7 DEF AnnulUser, Move
    <2> QED
        BY <1>2, <2>1, <2>2 DEF Kept, AccountsTypeOK
<1>8. ASSUME NEW u \in Users, AddToWhitelist(u) \/ RemoveFromWhitelist(u) \/ Sync(u)
      PROVE  Kept /\ Len(violations') = Len(violations)
    BY <1>8, RowsLeftAlone
    DEF Kept, AddToWhitelist, RemoveFromWhitelist, Sync, Move, AccountsTypeOK
<1>9. ASSUME NEW u \in Users, AdminEnable(u)
      PROVE  Kept /\ Len(violations') = Len(violations)
    <2>1. /\ status' \in [Users -> {"ACTIVE", "DISABLED"}]
          /\ ban' \in [Users -> {"none", "timed", "permanent"}]
          /\ faults' \in 0..MaxFaults
          /\ excused' \subseteq Users /\ excused \subseteq excused'
        BY <1>9, PanelKeeps DEF AdminEnable
    <2> QED
        BY <1>9, <2>1, RowsLeftAlone DEF Kept, AdminEnable, Move, AccountsTypeOK
<1> QED
    BY <1>3, <1>4, <1>5, <1>6, <1>7, <1>8, <1>9 DEF AdminNext

----------------------------------------------------------------------------
(* The worker.                                                             *)

\* While a batch is handled its violators have scores, and there is room for
\* the violations they may still get (the bound of CheckBatch).
InHand ==
    /\ at \in {"none", "idle"} => remaining = {}
    /\ at \in {"info", "save", "block", "mark"} =>
           /\ \A u \in remaining : verdict[u] \in Scores
           /\ Len(violations) + Cardinality(remaining) <= MaxViolations
    /\ at \in {"block", "mark"} =>
           /\ vid \in Recorded /\ user \in Users
           /\ user = violations[vid].user

DetectionInv == AccountsTypeOK /\ DetectionTypeOK /\ InHand

LEMMA Fewer ==
    ASSUME DetectionInv, NEW u \in remaining
    PROVE  /\ Cardinality(remaining) \in Nat /\ Cardinality(remaining \ {u}) \in Nat
           /\ Cardinality(remaining \ {u}) + 1 = Cardinality(remaining)
<1>1. IsFiniteSet(remaining)
    BY UsersAssumption, FS_Subset DEF DetectionInv, DetectionTypeOK
<1>2. /\ IsFiniteSet(remaining \ {u})
      /\ Cardinality(remaining \ {u}) = Cardinality(remaining) - 1
    BY <1>1, FS_RemoveElement
<1>3. Cardinality(remaining) \in Nat /\ Cardinality(remaining \ {u}) \in Nat
    BY <1>1, <1>2, FS_CardinalityType
<1> QED
    BY <1>2, <1>3

LEMMA LetGoKeeps ==
    ASSUME DetectionInv, RowsStay, NEW label \in {"none", "idle"}, LetGo(label),
           pending_violation_users' \subseteq Users, cooldown' \subseteq Users
    PROVE  DetectionTypeOK' /\ InHand'
<1>1. /\ at' = label /\ remaining' = {} /\ verdict' = NoVerdict /\ info' = {}
      /\ user' = NoUser /\ vid' = 0 /\ targets' = {} /\ blocked' = FALSE
    BY DEF LetGo
<1>2. vid' \in 0..Len(violations') /\ verdict' \in [Users -> Scores \cup {0}]
    BY <1>1, RowTypes DEF NoVerdict, RowsStay, DetectionInv
<1>3. DetectionTypeOK'
    BY <1>1, <1>2 DEF DetectionTypeOK
<1> QED
    BY <1>1, <1>3 DEF InHand

\* On to the next violator, or to none.
LEMMA NextViolatorKeeps ==
    ASSUME DetectionInv, at \in {"save", "block", "mark"}, NEW rest \in SUBSET remaining,
           RowsStay, Len(violations') + Cardinality(rest) <= MaxViolations,
           NextViolator(rest), UNCHANGED <<pending_violation_users, cooldown>>
    PROVE  DetectionTypeOK' /\ InHand'
<1>1. /\ Len(violations) \in Nat /\ Len(violations') \in Nat
      /\ Len(violations) <= Len(violations')
    BY RowTypes, LenProperties DEF RowsStay, DetectionInv
<1>2. /\ \/ at' = "idle" /\ rest = {} /\ verdict' = NoVerdict /\ info' = {}
         \/ at' = "save" /\ UNCHANGED <<verdict, info>>
      /\ remaining' = rest /\ user' = NoUser /\ vid' = 0 /\ targets' = {} /\ blocked' = FALSE
    BY DEF NextViolator, LetGo
<1>3. verdict' \in [Users -> Scores \cup {0}] /\ info' \subseteq Users
    BY <1>2 DEF DetectionInv, DetectionTypeOK, NoVerdict
<1>4. vid' \in 0..Len(violations') /\ user' \in Users \cup {NoUser}
    BY <1>1, <1>2
<1>5. /\ pending_violation_users' \subseteq Users /\ cooldown' \subseteq Users
      /\ remaining' \subseteq Users /\ targets' \subseteq Users
    BY <1>2 DEF DetectionInv, DetectionTypeOK
<1>6. DetectionTypeOK'
    BY <1>2, <1>3, <1>4, <1>5 DEF DetectionTypeOK
<1>7. InHand'
    BY <1>2 DEF InHand, DetectionInv
<1> QED
    BY <1>6, <1>7

LEMMA NothingTold ==
    ASSUME AccountsTypeOK, UNCHANGED told
    PROVE  Kept /\ Len(violations') = Len(violations)
BY RowsLeftAlone DEF Kept, told, accounts, AccountsTypeOK

\* The other parts leave the worker where it is.
LEMMA WorkerStays ==
    ASSUME DetectionInv, Kept, Len(violations') = Len(violations), UNCHANGED detection
    PROVE  DetectionInv'
<1>1. DetectionTypeOK'
    BY DEF DetectionInv, DetectionTypeOK, detection, worker
<1>2. Recorded' = Recorded
    BY RowTypes, LenProperties DEF Kept, RowsStay, Recorded, DetectionInv, AccountsTypeOK
<1>3. InHand'
    BY <1>2 DEF DetectionInv, InHand, detection, worker, Kept, RowsStay
<1> QED
    BY <1>1, <1>3 DEF Kept, DetectionInv

\* Steps before a batch is handled, and the end of one that is given up.
LEMMA BatchKeeps ==
    ASSUME DetectionInv,
           TakeBatch \/ CheckBatch \/ ReadInfo \/ BatchFails \/ \E u \in Watched : Enqueue(u)
    PROVE  Kept /\ DetectionInv' /\ Len(violations') = Len(violations)
<1> USE DEF DetectionInv
<1>1. CASE TakeBatch
    <2>1. DetectionTypeOK'
        BY <1>1 DEF TakeBatch, DetectionTypeOK, told, accounts
    <2>2. InHand'
        BY <1>1 DEF TakeBatch, InHand
    <2> QED
        BY <1>1, <2>1, <2>2, NothingTold DEF TakeBatch, Kept
<1>2. CASE CheckBatch
    <2> DEFINE Checked(checked, scores) ==
            LET violators == {u \in checked : scores[u] > 0}
            IN  /\ Len(violations) + Cardinality(violators) <= MaxViolations
                /\ cooldown' = cooldown \cup checked
                /\ IF violators = {} THEN LetGo("idle")
                   ELSE /\ verdict' = [u \in Users |-> IF u \in violators THEN scores[u] ELSE 0]
                        /\ remaining' = violators
                        /\ at' = "info"
                        /\ UNCHANGED <<info, user, vid, targets, blocked>>
    <2>0. PICK checked \in SUBSET remaining :
              \E scores \in [checked -> Scores \cup {0}] : Checked(checked, scores)
        BY <1>2 DEF CheckBatch
    <2>1. PICK scores \in [checked -> Scores \cup {0}] : Checked(checked, scores)
        BY <2>0
    <2> DEFINE violators == {u \in checked : scores[u] > 0}
    <2>2. /\ UNCHANGED <<pending_violation_users, told>>
          /\ remaining \subseteq Users /\ violators \subseteq Users
          /\ \A u \in violators : scores[u] \in Scores
        BY <1>2 DEF CheckBatch, DetectionTypeOK, Scores, Soft, Hard
    <2>3. CASE violators = {}
        <3>1. LetGo("idle") /\ cooldown' = cooldown \cup checked
            BY <2>1, <2>3
        <3>2. DetectionTypeOK' /\ InHand'
            <4>1. pending_violation_users' \subseteq Users /\ cooldown' \subseteq Users
                BY <2>2, <3>1 DEF DetectionTypeOK
            <4> QED
                BY <2>2, <3>1, <4>1, LetGoKeeps, NothingTold DEF Kept
        <3> QED
            BY <2>2, <3>2, NothingTold DEF Kept
    <2>4. CASE violators # {}
        <3>1. /\ verdict' = [u \in Users |-> IF u \in violators THEN scores[u] ELSE 0]
              /\ remaining' = violators /\ at' = "info" /\ cooldown' = cooldown \cup checked
              /\ Len(violations) + Cardinality(violators) <= MaxViolations
              /\ UNCHANGED <<info, user, vid, targets, blocked>>
            BY <2>1, <2>4
        <3> HIDE DEF violators
        <3>2. DetectionTypeOK'
            BY <2>2, <3>1 DEF DetectionTypeOK, told, accounts
        <3>3. InHand'
            BY <2>2, <3>1 DEF InHand, told, accounts
        <3> QED
            BY <2>2, <3>2, <3>3, NothingTold DEF Kept
    <2> QED
        BY <2>3, <2>4
<1>3. CASE ReadInfo
    <2>1. Kept
        <3>1. /\ faults' \in 0..MaxFaults /\ excused' \subseteq Users /\ excused \subseteq excused'
            BY <1>3, FaultKeeps DEF ReadInfo
        <3> QED
            BY <1>3, <3>1, RowsLeftAlone DEF ReadInfo, Kept, AccountsTypeOK
    <2>2. DetectionTypeOK' /\ InHand'
        BY <1>3 DEF ReadInfo, DetectionTypeOK, InHand
    <2> QED
        BY <1>3, <2>1, <2>2 DEF ReadInfo, Kept
<1>4. CASE BatchFails
    <2>1. Kept
        <3>1. /\ faults' \in 0..MaxFaults /\ excused' \subseteq Users /\ excused \subseteq excused'
            BY <1>4, FaultKeeps DEF BatchFails, DetectionTypeOK
        <3> QED
            BY <1>4, <3>1, RowsLeftAlone DEF BatchFails, Kept, AccountsTypeOK
    <2>2. DetectionTypeOK' /\ InHand'
        <3>1. pending_violation_users' \subseteq Users /\ cooldown' \subseteq Users
            BY <1>4 DEF BatchFails, DetectionTypeOK
        <3> QED
            BY <1>4, <2>1, <3>1, LetGoKeeps DEF BatchFails, Kept
    <2> QED
        BY <1>4, <2>1, <2>2 DEF BatchFails, Kept
<1>5. ASSUME NEW u \in Watched, Enqueue(u)
      PROVE  Kept /\ DetectionInv' /\ Len(violations') = Len(violations)
    <2>1. /\ pending_violation_users' = pending_violation_users \cup {u} /\ u \in Users
          /\ at' = at \/ (at = "none" /\ at' = "idle")
          /\ UNCHANGED <<remaining, verdict, info, user, vid, targets, blocked, cooldown, violations>>
        BY <1>5, WatchedAssumption DEF Enqueue, told, accounts
    <2>2. DetectionTypeOK'
        BY <2>1 DEF DetectionTypeOK
    <2>3. InHand'
        BY <2>1 DEF InHand, Recorded
    <2> QED
        BY <1>5, <2>2, <2>3, NothingTold DEF Enqueue, Kept
<1> QED
    BY <1>1, <1>2, <1>3, <1>4, <1>5

\* save_violation and the end of a handling: what a new row has room for.
LEMMA SaveKeeps ==
    ASSUME DetectionInv, Save
    PROVE  Kept /\ DetectionInv' /\ Len(violations') <= Len(violations) + 1
<1> USE DEF DetectionInv
<1>1. PICK u \in remaining :
         \/ /\ u \in info
            /\ NextViolator(remaining \ {u})
            /\ UNCHANGED <<violations, events>> /\ NoFault
         \/ /\ u \notin info
            /\ Insert(u, verdict[u], "worker")
            /\ IF verdict[u] >= Hard
               THEN /\ at' = "block"
                    /\ user' = u
                    /\ vid' = Len(violations) + 1
                    /\ \E others \in Accomplices : targets' = {u} \cup others
                    /\ remaining' = remaining \ {u}
                    /\ UNCHANGED <<verdict, info, blocked, events>>
               ELSE Broadcast(Len(violations) + 1, remaining \ {u})
            /\ NoFault
         \/ /\ u \notin info
            /\ Duplicate(u, verdict[u])
            /\ NextViolator(remaining \ {u})
            /\ UNCHANGED <<violations, events>> /\ NoFault
         \/ /\ u \notin info
            /\ NextViolator(remaining \ {u})
            /\ Insert(u, verdict[u], "worker") \/ UNCHANGED violations
            /\ UNCHANGED events /\ Fault({u})
    BY DEF Save
<1>2. /\ u \in Users /\ verdict[u] \in Scores /\ at = "save"
      /\ Len(violations) + Cardinality(remaining) <= MaxViolations
    BY DEF Save, InHand, DetectionTypeOK
<1>3. /\ Cardinality(remaining) \in Nat /\ Cardinality(remaining \ {u}) \in Nat
      /\ Cardinality(remaining \ {u}) + 1 = Cardinality(remaining)
      /\ Len(violations) \in Nat /\ Recorded = 1..Len(violations)
    BY Fewer, RowTypes
<1>4. UNCHANGED <<status, mirror, whitelist, resolving, ban, moves, pending_violation_users, cooldown>>
    BY DEF Save
<1>5. /\ faults' \in 0..MaxFaults /\ excused' \subseteq Users /\ excused \subseteq excused'
    BY <1>1, <1>2, FaultKeeps DEF NoFault
<1>6. CASE Insert(u, verdict[u], "worker")
    <2>0. /\ RowsStay /\ Len(violations') = Len(violations) + 1
          /\ violations'[Len(violations) + 1] =
                 [user |-> u, score |-> verdict[u], recent |-> TRUE, action |-> "none",
                  by |-> "worker"]
        BY <1>2, <1>6, InsertKeeps
    <2>1. /\ RowsStay /\ Len(violations') = Len(violations) + 1
          /\ violations'[Len(violations) + 1].user = u
        BY <2>0
    <2>2. Recorded' = 1..(Len(violations) + 1)
        BY <1>3, <2>1, LenProperties DEF RowsStay, Recorded
    <2>3. events' \subseteq events \cup {Len(violations) + 1}
        BY <1>1, <1>6, <2>1, <1>3 DEF Broadcast
    <2>4. Kept
        <3>1. /\ Len(violations') <= MaxViolations /\ violations' \in Seq(Violations)
              /\ resolving' \in 0..Len(violations')
            BY <1>2, <1>3, <1>4, <2>1, MaxViolationsAssumption DEF RowsStay, AccountsTypeOK
        <3>2. events' \subseteq DOMAIN violations'
            BY <1>3, <2>2, <2>3 DEF Recorded, AccountsTypeOK
        <3> QED
            BY <1>4, <1>5, <2>1, <3>1, <3>2 DEF Kept, AccountsTypeOK
    <2>5. CASE /\ at' = "block" /\ user' = u /\ vid' = Len(violations) + 1
               /\ \E others \in Accomplices : targets' = {u} \cup others
               /\ remaining' = remaining \ {u}
               /\ UNCHANGED <<verdict, info, blocked>>
        <3>2. DetectionTypeOK'
            BY <1>2, <1>3, <1>4, <2>1, <2>5, AccomplicesAssumption DEF DetectionTypeOK
        <3>3. InHand'
            BY <1>2, <1>3, <2>1, <2>2, <2>5, MaxViolationsAssumption DEF InHand
        <3> QED
            BY <1>3, <2>1, <2>4, <3>2, <3>3 DEF Kept
    <2>6. CASE NextViolator(remaining \ {u})
        <3>2. Len(violations') + Cardinality(remaining \ {u}) <= MaxViolations
            BY <1>2, <1>3, <2>1, MaxViolationsAssumption
        <3>3. DetectionTypeOK' /\ InHand'
            BY <1>2, <1>4, <2>1, <2>6, <3>2, NextViolatorKeeps
        <3> QED
            BY <1>3, <2>1, <2>4, <3>3 DEF Kept
    <2>7. violations' # violations
        BY <1>3, <2>1
    <2> QED
        BY <1>1, <2>5, <2>6, <2>7 DEF Broadcast
<1>7. CASE UNCHANGED <<violations, events>> /\ NextViolator(remaining \ {u})
    <2>1. RowsStay
        BY <1>7, RowsLeftAlone
    <2>2. Kept
        BY <1>4, <1>5, <1>7, <2>1 DEF Kept, AccountsTypeOK
    <2>3. Len(violations') + Cardinality(remaining \ {u}) <= MaxViolations
        BY <1>2, <1>3, <1>7, MaxViolationsAssumption
    <2>4. DetectionTypeOK' /\ InHand'
        BY <1>2, <1>4, <1>7, <2>1, <2>3, NextViolatorKeeps
    <2> QED
        BY <1>3, <1>7, <2>2, <2>4 DEF Kept
<1> QED
    BY <1>1, <1>6, <1>7

\* disable_user for one of those to be disabled: what it may do.
BlockedOne(u) ==
    \/ /\ DisableUser(u, "permanent") /\ blocked' = TRUE
       /\ at' = "block" \/ at' = "mark"
       /\ targets' = targets \ {u}
       /\ UNCHANGED <<events, remaining, verdict, info, user, vid>>
    \/ /\ CallFails(u, "DISABLED", "permanent") /\ UNCHANGED blocked
       /\ at' = "block" \/ (at' = "mark" /\ blocked = TRUE)
       /\ targets' = targets \ {u}
       /\ UNCHANGED <<events, remaining, verdict, info, user, vid>>
    \/ /\ CallFails(u, "DISABLED", "permanent") /\ blocked = FALSE
       /\ targets = {u}
       /\ Broadcast(vid, remaining)

LEMMA BlockOne ==
    ASSUME DetectionTypeOK, Block
    PROVE  /\ \E u \in targets : BlockedOne(u) /\ (user \in targets => u = user)
           /\ UNCHANGED <<mirror, violations, whitelist, resolving, moves,
                          pending_violation_users, cooldown>>
<1>1. PICK u \in targets :
           /\ user \in targets => u = user
           /\ \/ /\ DisableUser(u, "permanent")
                 /\ at' = IF targets = {u} THEN "mark" ELSE "block"
                 /\ targets' = targets \ {u}
                 /\ blocked' = TRUE
                 /\ UNCHANGED <<events, remaining, verdict, info, user, vid>>
              \/ /\ CallFails(u, "DISABLED", "permanent")
                 /\ targets # {u} \/ blocked
                 /\ at' = IF targets = {u} THEN "mark" ELSE "block"
                 /\ targets' = targets \ {u}
                 /\ UNCHANGED <<blocked, events, remaining, verdict, info, user, vid>>
              \/ /\ CallFails(u, "DISABLED", "permanent")
                 /\ targets = {u} /\ ~blocked
                 /\ Broadcast(vid, remaining)
    BY DEF Block
<1>2. blocked = TRUE \/ blocked = FALSE
    BY DEF DetectionTypeOK
<1>3. BlockedOne(u)
    BY <1>1, <1>2 DEF BlockedOne
<1> QED
    BY <1>1, <1>3 DEF Block

LEMMA BlockKeeps ==
    ASSUME DetectionInv, Block
    PROVE  Kept /\ DetectionInv' /\ Len(violations') = Len(violations)
<1> USE DEF DetectionInv
<1>1. PICK u \in targets : BlockedOne(u)
    BY BlockOne
<1>2. /\ UNCHANGED <<mirror, violations, whitelist, resolving, moves,
                     pending_violation_users, cooldown>>
      /\ u \in Users /\ at = "block" /\ vid \in Recorded
    BY BlockOne DEF Block, DetectionTypeOK, InHand
<1>3. /\ status' \in [Users -> {"ACTIVE", "DISABLED"}]
      /\ ban' \in [Users -> {"none", "timed", "permanent"}]
      /\ faults' \in 0..MaxFaults
      /\ excused' \subseteq Users /\ excused \subseteq excused'
    BY <1>1, <1>2, PanelKeeps DEF BlockedOne
<1>4. events' \subseteq Recorded
    BY <1>1, <1>2 DEF BlockedOne, Broadcast, AccountsTypeOK, Recorded
<1>5. RowsStay
    BY <1>2, RowsLeftAlone
<1>6. Kept
    BY <1>2, <1>3, <1>4, <1>5 DEF Kept, AccountsTypeOK, Recorded
<1>7. DetectionTypeOK' /\ InHand'
    <2>1. CASE Broadcast(vid, remaining)
        <3>1. Len(violations') + Cardinality(remaining) <= MaxViolations
            BY <1>2 DEF InHand
        <3> QED
            BY <1>2, <1>5, <2>1, <3>1, NextViolatorKeeps DEF Broadcast
    <2>2. CASE /\ UNCHANGED <<remaining, verdict, info, user, vid>>
               /\ targets' = targets \ {u} /\ at' \in {"block", "mark"}
               /\ blocked' \in BOOLEAN
        <3>1. DetectionTypeOK'
            BY <1>2, <2>2 DEF DetectionTypeOK
        <3>2. InHand'
            BY <1>2, <2>2 DEF InHand, Recorded
        <3> QED
            BY <3>1, <3>2
    <2> QED
        BY <1>1, <2>1, <2>2 DEF BlockedOne, DetectionTypeOK
<1> QED
    BY <1>2, <1>6, <1>7 DEF Kept

LEMMA MarkKeeps ==
    ASSUME DetectionInv, MarkResolved
    PROVE  Kept /\ DetectionInv' /\ Len(violations') = Len(violations)
<1> USE DEF DetectionInv
<1>1. /\ UNCHANGED <<status, mirror, whitelist, resolving, ban, pending_violation_users,
                     cooldown, moves>>
      /\ at = "mark" /\ vid \in Recorded /\ user \in Users
      /\ Broadcast(vid, remaining)
    BY DEF MarkResolved, InHand
<1>2. RowsStay /\ Len(violations') = Len(violations)
    <2>1. CASE Update(vid, "hard_block")
        BY <1>1, <2>1, UpdateKeeps
    <2>2. CASE UNCHANGED violations
        BY <2>2, RowsLeftAlone
    <2> QED
        BY <2>1, <2>2 DEF MarkResolved
<1>3. /\ faults' \in 0..MaxFaults /\ excused' \subseteq Users /\ excused \subseteq excused'
    BY <1>1, FaultKeeps DEF MarkResolved, NoFault
<1>4. Recorded' = Recorded
    BY <1>2, RowTypes, LenProperties DEF RowsStay, Recorded
<1>5. events' \subseteq Recorded'
    BY <1>1, <1>4 DEF Broadcast, AccountsTypeOK, Recorded
<1>6. Kept
    BY <1>1, <1>2, <1>3, <1>5 DEF Kept, AccountsTypeOK, RowsStay, Recorded
<1>7. Len(violations') + Cardinality(remaining) <= MaxViolations
    BY <1>1, <1>2 DEF InHand
<1>8. DetectionTypeOK' /\ InHand'
    BY <1>1, <1>2, <1>7, NextViolatorKeeps DEF Broadcast
<1> QED
    BY <1>2, <1>6, <1>8 DEF Kept

\* A violation another detector saves.
OtherSave(u) == SaveTorrent(u) \/ SaveTraffic(u)

LEMMA OtherInserts ==
    ASSUME DetectionInv, NEW u \in Watched, OtherSave(u)
    PROVE  /\ u \in Users
           /\ \E score \in Scores, by \in {"torrent", "traffic"} : Insert(u, score, by)
           /\ moves' \in 0..MaxMoves /\ Len(violations) + Cardinality(remaining) < MaxViolations
           /\ UNCHANGED <<status, mirror, whitelist, resolving, ban, excused, faults, events, detection>>
BY WatchedAssumption, MaxMovesAssumption
DEF OtherSave, SaveTorrent, SaveTraffic, Move, Room, Scores, DetectionInv, AccountsTypeOK

LEMMA OtherKeeps ==
    ASSUME DetectionInv, NEW u \in Watched, OtherSave(u)
    PROVE  Kept /\ DetectionInv'
<1> USE DEF DetectionInv
<1>1. PICK score \in Scores, by \in {"torrent", "traffic"} : Insert(u, score, by)
    BY OtherInserts
<1>2. /\ u \in Users /\ moves' \in 0..MaxMoves
      /\ Len(violations) + Cardinality(remaining) < MaxViolations
      /\ UNCHANGED <<status, mirror, whitelist, resolving, ban, excused, faults, events, detection>>
    BY OtherInserts
<1>3. /\ RowsStay /\ Len(violations') = Len(violations) + 1
      /\ Len(violations) \in Nat /\ Recorded = 1..Len(violations)
    BY <1>1, <1>2, InsertKeeps, RowTypes
<1>4. Recorded' = 1..(Len(violations) + 1)
    BY <1>3, LenProperties DEF RowsStay, Recorded
<1>5. Cardinality(remaining) \in Nat
    <2>1. IsFiniteSet(remaining)
        BY UsersAssumption, FS_Subset DEF DetectionTypeOK
    <2> QED
        BY <2>1, FS_CardinalityType
<1>6. Kept
    <2>1. /\ Len(violations') <= MaxViolations /\ violations' \in Seq(Violations)
          /\ resolving' \in 0..Len(violations')
        BY <1>2, <1>3, <1>5, MaxViolationsAssumption DEF RowsStay, AccountsTypeOK
    <2>2. events' \subseteq DOMAIN violations'
        BY <1>2, <1>3, <1>4 DEF Recorded, AccountsTypeOK
    <2> QED
        BY <1>2, <1>3, <2>1, <2>2 DEF Kept, AccountsTypeOK
<1>7. DetectionTypeOK'
    <2>1. vid' \in 0..Len(violations')
        BY <1>2, <1>3 DEF DetectionTypeOK, detection, worker
    <2> QED
        BY <1>2, <2>1 DEF DetectionTypeOK, detection, worker
<1>8. InHand'
    <2>1. /\ \A v \in Recorded : v \in Recorded' /\ violations'[v].user = violations[v].user
          /\ Len(violations') + Cardinality(remaining) <= MaxViolations
        BY <1>2, <1>3, <1>4, <1>5, MaxViolationsAssumption DEF RowsStay
    <2> QED
        BY <1>2, <2>1 DEF InHand, detection, worker
<1> QED
    BY <1>6, <1>7, <1>8 DEF Kept

LEMMA DetectionKeeps ==
    ASSUME DetectionInv, DetectionNext
    PROVE  Kept /\ DetectionInv'
BY BatchKeeps, SaveKeeps, BlockKeeps, MarkKeeps, OtherKeeps DEF DetectionNext, WorkerStep, OtherSave

----------------------------------------------------------------------------
(* The tasks and the loop.                                                 *)

\* What a step of a task or of the loop may do to the accounts.
LEMMA EngineKeeps ==
    ASSUME AccountsTypeOK,
           UNCHANGED <<mirror, violations, whitelist, resolving, moves>>,
           events' \subseteq events,
           \/ \E S \in SUBSET Users : Fault(S) /\ UNCHANGED <<status, ban>>
           \/ NoFault /\ UNCHANGED <<status, ban>>
           \/ \E u \in Users :
                  \/ \E decision \in {"timed", "permanent"} : DisableUser(u, decision)
                  \/ EnableUser(u)
                  \/ \E state \in {"ACTIVE", "DISABLED"}, decision \in {"none", "timed", "permanent"} :
                         CallFails(u, state, decision)
    PROVE  Kept /\ Len(violations') = Len(violations)
<1>1. /\ status' \in [Users -> {"ACTIVE", "DISABLED"}]
      /\ ban' \in [Users -> {"none", "timed", "permanent"}]
      /\ faults' \in 0..MaxFaults
      /\ excused' \subseteq Users /\ excused \subseteq excused'
    <2>1. CASE UNCHANGED <<status, ban>> /\ \E S \in SUBSET Users : Fault(S) \/ NoFault
        <3>1. PICK S \in SUBSET Users : Fault(S) \/ NoFault
            BY <2>1
        <3>2. faults' \in 0..MaxFaults /\ excused' \subseteq Users /\ excused \subseteq excused'
            BY <3>1, FaultKeeps
        <3> QED
            BY <2>1, <3>2 DEF AccountsTypeOK
    <2> QED
        BY <2>1, PanelKeeps
<1>2. RowsStay
    BY RowsLeftAlone
<1> QED
    BY <1>1, <1>2 DEF Kept, AccountsTypeOK

Tasks == [at : {"none", "run", "unblock"}, step : Steps, hold : BOOLEAN]

LEMMA ChainTypes ==
    ASSUME AutomationTypeOK
    PROVE  /\ Len(chain) \in Nat /\ Steps = 1..Len(chain) /\ 1 \in Steps
           /\ NoTask \in Tasks
           /\ \A k \in Steps : /\ k \in Nat /\ chain[k].act \in {"warn", "block"}
                               /\ chain[k].timed \in BOOLEAN
                               /\ Decision(k) \in {"timed", "permanent"}
<1>1. /\ chain \in Seq([act : {"warn", "block"}, delayed : BOOLEAN, timed : BOOLEAN])
      /\ chain # << >>
    BY ChainsAssumption DEF AutomationTypeOK
<1>2. /\ Len(chain) \in Nat /\ DOMAIN chain = 1..Len(chain) /\ Len(chain) # 0
      /\ \A k \in 1..Len(chain) :
             chain[k] \in [act : {"warn", "block"}, delayed : BOOLEAN, timed : BOOLEAN]
    BY <1>1, LenProperties, ElementOfSeq, EmptySeq
<1>3. 1 \in Steps
    BY <1>2 DEF Steps
<1> QED
    BY <1>2, <1>3 DEF Steps, NoTask, Tasks, Decision

\* Onward, and what an error leaves of it.
LEMMA OnwardKeeps ==
    ASSUME AutomationTypeOK, NEW v \in Ids, NEW hold \in BOOLEAN,
           Onward(v, hold) \/ OnwardAfterError(v, hold) \/ task' = [task EXCEPT ![v] = NoTask]
    PROVE  /\ task' \in [Ids -> Tasks]
           /\ \A w \in Ids \ {v} : task'[w] = task[w]
           /\ task'[v].at \in {"none", "run"}
<1>1. task \in [Ids -> Tasks]
    BY DEF AutomationTypeOK, Tasks
<1>2. PICK next :
          /\ task' = [task EXCEPT ![v] = next]
          /\ \/ next = NoTask
             \/ /\ task[v].step # Len(chain)
                /\ next = [at |-> "run", step |-> task[v].step + 1, hold |-> task[v].hold \/ hold]
    BY DEF Onward, OnwardAfterError
<1>3. task[v].step \in Steps /\ task[v].hold \in BOOLEAN
    BY <1>1 DEF Tasks
<1>4. task[v].step # Len(chain) => task[v].step + 1 \in Steps
    BY <1>3, ChainTypes
<1>5. (task[v].hold \/ hold) \in BOOLEAN
    BY <1>3
<1>6. next \in Tasks /\ next.at \in {"none", "run"}
    <2>1. CASE next = NoTask
        BY <2>1, ChainTypes DEF NoTask
    <2>2. CASE next # NoTask
        <3> DEFINE k == task[v].step + 1
                   h == task[v].hold \/ hold
        <3>1. k \in Steps /\ h \in BOOLEAN /\ next = [at |-> "run", step |-> k, hold |-> h]
            BY <1>2, <1>4, <1>5, <2>2
        <3> HIDE DEF k, h
        <3> QED
            BY <3>1 DEF Tasks
    <2> QED
        BY <2>1, <2>2
<1> QED
    BY <1>1, <1>2, <1>6

LEMMA RowIsRow ==
    ASSUME AccountsTypeOK, AutomationTypeOK, NEW v \in Recorded, NEW k \in Steps,
           NEW action \in {"chain_step", "enable_user"}
    PROVE  /\ Row(action, v, k) \in Rows
           /\ Row(action, v, k).viol = v /\ Row(action, v, k).user = violations[v].user
           /\ Row(action, v, k).action = action
           /\ Row(action, v, k).late = FALSE
BY RowTypes DEF Row, Rows, Violations

\* What the task of violation v does to the engine and to the accounts.
TaskEffect(v) ==
    /\ UNCHANGED <<chain, enabled, engine, violations>>
    /\ locks' \subseteq Users
    /\ task' \in [Ids -> Tasks]
    /\ \A w \in Ids \ {v} : task'[w] = task[w]
    /\ pending_actions \subseteq pending_actions'
    /\ \A r \in pending_actions' \ pending_actions :
           r \in Rows /\ r.viol = v /\ r.user = violations[v].user
    /\ \/ UNCHANGED events /\ task[v].at # "none"
       \/ events' = events \ {v} /\ v \in events
    /\ Kept

LEMMA TaskDoes ==
    ASSUME AccountsTypeOK, AutomationTypeOK, NEW v \in Recorded,
           HandleEvent(v) \/ TaskStep(v)
    PROVE  TaskEffect(v)
<1>1. /\ v \in Ids /\ violations[v].user \in Users /\ locks \subseteq Users
      /\ task \in [Ids -> Tasks] /\ task[v].step \in Steps /\ task[v].hold \in BOOLEAN
      /\ Decision(task[v].step) \in {"timed", "permanent"}
    <2>1. v \in Ids /\ violations[v] \in Violations
        BY RowTypes
    <2>2. task \in [Ids -> Tasks] /\ locks \subseteq Users
        BY DEF AutomationTypeOK, Tasks
    <2>3. task[v].step \in Steps /\ task[v].hold \in BOOLEAN
        BY <2>1, <2>2 DEF Tasks
    <2> QED
        BY <2>1, <2>2, <2>3, ChainTypes DEF Violations
<1>2. CASE HandleEvent(v)
    <2>1. Kept
        BY <1>2, EngineKeeps DEF HandleEvent, NoFault
    <2>2. task' \in [Ids -> Tasks] /\ \A w \in Ids \ {v} : task'[w] = task[w]
        <3>1. CASE UNCHANGED task
            BY <1>1, <3>1
        <3>2. CASE task' = [task EXCEPT ![v].at = IF enabled THEN "run" ELSE @]
            BY <1>1, <3>2 DEF Tasks
        <3> QED
            BY <1>2, <3>1, <3>2 DEF HandleEvent
    <2> QED
        BY <1>1, <1>2, <2>1, <2>2 DEF HandleEvent, TaskEffect
<1>3. CASE Warn(v)
    <2>1. Kept
        BY <1>3, NothingTold DEF Warn
    <2>2. task' \in [Ids -> Tasks] /\ \A w \in Ids \ {v} : task'[w] = task[w]
        BY <1>1, <1>3, OnwardKeeps DEF Warn
    <2>3. task[v].at = "run" /\ UNCHANGED <<chain, enabled, locks, pending_actions, engine, events, violations>>
        BY <1>3 DEF Warn, Immediate, told, accounts
    <2> QED
        BY <1>1, <2>1, <2>2, <2>3 DEF TaskEffect
<1>4. CASE BlockNow(v)
    <2>1. Kept
        BY <1>1, <1>4, EngineKeeps DEF BlockNow
    <2>2. task' \in [Ids -> Tasks] /\ \A w \in Ids \ {v} : task'[w] = task[w]
        <3>1. CASE task' = [task EXCEPT ![v].at = "unblock"]
            BY <1>1, <3>1 DEF Tasks
        <3>2. CASE Onward(v, FALSE) \/ OnwardAfterError(v, FALSE)
            BY <1>1, <3>2, OnwardKeeps
        <3> QED
            BY <1>4, <3>1, <3>2 DEF BlockNow
    <2>3. /\ task[v].at = "run"
          /\ UNCHANGED <<chain, enabled, locks, pending_actions, engine, events, violations>>
        BY <1>4 DEF BlockNow, Immediate
    <2> QED
        BY <1>1, <2>1, <2>2, <2>3 DEF TaskEffect
<1>5. CASE ScheduleUnblock(v)
    <2>1. Kept
        BY <1>1, <1>5, EngineKeeps DEF ScheduleUnblock
    <2>2. task' \in [Ids -> Tasks] /\ \A w \in Ids \ {v} : task'[w] = task[w]
        BY <1>1, <1>5, OnwardKeeps DEF ScheduleUnblock
    <2>3. /\ task[v].at = "unblock"
          /\ UNCHANGED <<chain, enabled, locks, engine, events, violations>>
          /\ \/ UNCHANGED pending_actions
             \/ pending_actions' = pending_actions \cup {Row("enable_user", v, task[v].step)}
        BY <1>5 DEF ScheduleUnblock
    <2>4. /\ pending_actions \subseteq pending_actions'
          /\ \A r \in pending_actions' \ pending_actions :
                 r \in Rows /\ r.viol = v /\ r.user = violations[v].user
        <3> DEFINE row == Row("enable_user", v, task[v].step)
        <3>1. row \in Rows /\ row.viol = v /\ row.user = violations[v].user
            BY <1>1, RowIsRow
        <3>2. pending_actions' = pending_actions \/ pending_actions' = pending_actions \cup {row}
            BY <2>3
        <3> HIDE DEF row
        <3> QED
            BY <3>1, <3>2
    <2> QED
        BY <1>1, <2>1, <2>2, <2>3, <2>4 DEF TaskEffect
<1>6. CASE ScheduleStep(v)
    <2>1. Kept
        BY <1>6, EngineKeeps DEF ScheduleStep, NoFault
    <2>2. task' \in [Ids -> Tasks] /\ \A w \in Ids \ {v} : task'[w] = task[w]
        BY <1>1, <1>6, OnwardKeeps DEF ScheduleStep
    <2>3. /\ task[v].at = "run"
          /\ UNCHANGED <<chain, enabled, locks, engine, events, violations>>
          /\ \/ UNCHANGED pending_actions
             \/ pending_actions' = pending_actions \cup {Row("chain_step", v, task[v].step)}
        BY <1>6 DEF ScheduleStep
    <2>4. /\ pending_actions \subseteq pending_actions'
          /\ \A r \in pending_actions' \ pending_actions :
                 r \in Rows /\ r.viol = v /\ r.user = violations[v].user
        <3> DEFINE row == Row("chain_step", v, task[v].step)
        <3>1. row \in Rows /\ row.viol = v /\ row.user = violations[v].user
            BY <1>1, RowIsRow
        <3>2. pending_actions' = pending_actions \/ pending_actions' = pending_actions \cup {row}
            BY <2>3
        <3> HIDE DEF row
        <3> QED
            BY <3>1, <3>2
    <2> QED
        BY <1>1, <2>1, <2>2, <2>3, <2>4 DEF TaskEffect
<1> QED
    BY <1>2, <1>3, <1>4, <1>5, <1>6 DEF TaskStep

\* Claimed rows, the one in hand included.
Claimed == claimed \cup ({item} \ {NoRow})

\* A row of automation_pending_actions is about the user of a violation that
\* exists, and keeps having been called off.
RowsInv ==
    /\ \A r \in pending_actions \cup Claimed :
           r.viol \in Recorded /\ r.user = violations[r.viol].user
    /\ \A r \in Claimed : r.late => CalledOff(r)

\* The loop has a row in hand unless it rests, and then nothing is claimed.
LoopInv ==
    /\ loop = "idle" => item = NoRow /\ claimed = {}
    /\ loop # "idle" => item \in Rows
    /\ loop \in {"check", "act", "unblock"} => item.action = "chain_step"
    /\ CalledOffHonoured

\* A violation is told to the engine once: while its task runs it waits
\* nowhere, and while the worker has it in hand it has no task yet.
TasksInv ==
    /\ \A v \in Ids : task[v].at # "none" => v \in Recorded \ events
    /\ at \in {"block", "mark"} => vid \notin events /\ task[vid].at = "none"

EngineInv == AutomationTypeOK /\ RowsInv /\ LoopInv /\ TasksInv

LEMMA ItemTypes ==
    ASSUME AutomationTypeOK
    PROVE  /\ NoRow \notin Rows
           /\ \A r \in Rows : /\ r.action \in {"chain_step", "enable_user"} /\ r.user \in Users
                              /\ r.viol \in Ids /\ r.step \in Steps
           /\ Claimed \subseteq Rows
<1>1. Steps \subseteq Nat
    BY ChainTypes
<1>2. NoRow \notin Rows
    BY <1>1, NoRowAssumption DEF Rows
<1> QED
    BY <1>2 DEF Rows, AutomationTypeOK, Claimed

\* Rows that stay stay called off, whatever becomes of the violations.
LEMMA RowsInvStays ==
    ASSUME AccountsTypeOK, AutomationTypeOK, RowsInv, Kept,
           NEW S \in SUBSET (pending_actions \cup Claimed), NEW T \in SUBSET Claimed
    PROVE  /\ \A r \in S : r.viol \in Recorded' /\ r.user = violations'[r.viol].user
           /\ \A r \in T : r.late => CalledOff(r)'
<1>1. Recorded \subseteq Recorded'
    BY RowTypes, LenProperties DEF Kept, RowsStay, Recorded, AccountsTypeOK
<1> QED
    BY <1>1 DEF RowsInv, Kept, RowsStay, CalledOff, Pending

\* The other parts change violations, never the engine's own state.
LEMMA EngineStays ==
    ASSUME AccountsTypeOK, EngineInv, Kept, UNCHANGED automation, TasksInv'
    PROVE  EngineInv'
<1> USE DEF EngineInv
<1>1. UNCHANGED <<chain, enabled, locks, task, pending_actions, loop, claimed, item>>
    BY DEF automation, engine
<1>2. AutomationTypeOK'
    BY <1>1 DEF AutomationTypeOK, Rows, Steps
<1>3. LoopInv'
    BY <1>1 DEF LoopInv, CalledOffHonoured, Rows, Steps
<1>4. RowsInv'
    <2>1. /\ \A r \in pending_actions \cup Claimed :
                 r.viol \in Recorded' /\ r.user = violations'[r.viol].user
          /\ \A r \in Claimed : r.late => CalledOff(r)'
        BY RowsInvStays
    <2> QED
        BY <1>1, <2>1 DEF RowsInv, Claimed
<1> QED
    BY <1>2, <1>3, <1>4

LEMMA TaskKeeps ==
    ASSUME DetectionInv, EngineInv, UNCHANGED detection,
           NEW v \in Recorded, TaskEffect(v)
    PROVE  EngineInv'
<1> USE DEF EngineInv
<1>1. /\ UNCHANGED <<chain, enabled, loop, claimed, item, violations, at, vid>>
      /\ \A r \in Rows : r.viol \in Ids
      /\ v \in Ids /\ Kept
    BY RowTypes DEF TaskEffect, engine, detection, worker, Rows, DetectionInv
<1>2. AutomationTypeOK'
    BY <1>1 DEF AutomationTypeOK, Rows, Steps, TaskEffect, Tasks
<1>3. LoopInv'
    BY <1>1 DEF LoopInv, CalledOffHonoured, Rows, Steps
<1>4. RowsInv'
    BY <1>1 DEF RowsInv, Claimed, TaskEffect, CalledOff, Pending, Recorded
<1>5. TasksInv'
    <2>1. at \in {"block", "mark"} => vid \in Ids
        BY RowTypes DEF DetectionInv, InHand
    <2>2. UNCHANGED Recorded
        BY <1>1 DEF Recorded
    <2>3. /\ events' \subseteq events /\ \A w \in Ids \ {v} : task'[w] = task[w]
          /\ v \notin events' /\ (task[v].at # "none" \/ v \in events)
        BY <1>1 DEF TaskEffect, TasksInv
    <2> QED
        BY <1>1, <2>1, <2>2, <2>3 DEF TasksInv
<1> QED
    BY <1>2, <1>3, <1>4, <1>5

----------------------------------------------------------------------------
(* The loop.                                                               *)

LEMMA TakeUpKeeps ==
    ASSUME NEW rows \in SUBSET Rows, TakeUp(rows)
    PROVE  /\ claimed' \subseteq rows /\ item' \in rows \cup {NoRow}
           /\ loop' \in {"idle", "check", "enable"}
           /\ loop' = "idle" => item' = NoRow /\ claimed' = {}
           /\ loop' # "idle" => item' \in rows
           /\ loop' = "check" => item'.action = "chain_step"
           /\ loop' = "enable" => item'.action = "enable_user"
           /\ \A r \in rows : (r = item' /\ loop' # "idle") \/ r \in claimed'
<1>1. \A r \in rows : r.action \in {"chain_step", "enable_user"}
    BY DEF Rows
<1> QED
    BY <1>1 DEF TakeUp, Take

LEMMA ClaimKeeps ==
    ASSUME DetectionInv, EngineInv, UNCHANGED detection, Claim
    PROVE  Kept /\ EngineInv'
<1> USE DEF EngineInv
<1>1. PICK due \in SUBSET pending_actions :
          /\ TakeUp({[r EXCEPT !.late = CalledOff(r)] : r \in due})
          /\ pending_actions' = pending_actions \ due
    BY DEF Claim
<1> DEFINE Marked(r) == [r EXCEPT !.late = CalledOff(r)]
           rows == {Marked(r) : r \in due}
<1>2. /\ UNCHANGED <<chain, enabled, locks, task, events, violations, at, vid>>
      /\ Kept
    BY NothingTold DEF Claim, detection, worker, told, accounts, DetectionInv
<1>3. \A r \in Rows :
          /\ Marked(r) \in Rows
          /\ Marked(r).viol = r.viol /\ Marked(r).user = r.user
          /\ Marked(r).late => CalledOff(Marked(r))
    BY DEF Rows, CalledOff
<1> HIDE DEF Marked
<1>4. due \subseteq Rows /\ rows \subseteq Rows
    BY <1>3 DEF AutomationTypeOK
<1>5. \A r \in rows : /\ r.viol \in Recorded /\ r.user = violations[r.viol].user
                      /\ r.late => CalledOff(r)
    BY <1>3, <1>4 DEF RowsInv
<1> HIDE DEF rows
<1>6. /\ claimed' \subseteq rows /\ item' \in rows \cup {NoRow}
      /\ loop' \in {"idle", "check", "enable"}
      /\ loop' = "idle" => item' = NoRow /\ claimed' = {}
      /\ loop' # "idle" => item' \in rows
      /\ loop' = "check" => item'.action = "chain_step"
    BY <1>1, <1>4, TakeUpKeeps DEF rows, Marked
<1>7. AutomationTypeOK'
    BY <1>1, <1>2, <1>4, <1>6 DEF AutomationTypeOK, Rows, Steps
<1>8. LoopInv'
    BY <1>2, <1>4, <1>6 DEF LoopInv, CalledOffHonoured, Rows, Steps
<1>9. RowsInv'
    BY <1>1, <1>2, <1>5, <1>6 DEF RowsInv, Claimed, CalledOff, Pending, Recorded
<1>10. TasksInv'
    BY <1>2 DEF TasksInv, Recorded
<1> QED
    BY <1>2, <1>7, <1>8, <1>9, <1>10

\* The steps with a row in hand: a row is let go of, or the next is taken up.
LEMMA LoopKeeps ==
    ASSUME DetectionInv, EngineInv, UNCHANGED detection, LoopStep
    PROVE  Kept /\ EngineInv'
<1> USE DEF EngineInv
<1>1. /\ item \in Rows /\ item.user \in Users /\ item.viol \in Recorded /\ item.step \in Steps
      /\ item.user = violations[item.viol].user /\ item # NoRow
      /\ Decision(item.step) \in {"timed", "permanent"}
    <2>1. item \in Rows /\ item # NoRow
        BY ItemTypes DEF LoopStep, CheckStep, Act, ActSchedulesUnblock, Enable, Finish, LoopInv
    <2> QED
        BY <2>1, ItemTypes, ChainTypes DEF RowsInv, Claimed
<1>2. /\ UNCHANGED <<chain, enabled, locks, task, events, violations, mirror, whitelist,
                     resolving, moves, at, vid>>
      /\ \/ UNCHANGED pending_actions
         \/ pending_actions' = pending_actions \cup {Row("enable_user", item.viol, item.step)}
    BY DEF LoopStep, CheckStep, Act, ActSchedulesUnblock, Enable, Finish, detection, worker
<1>3. Kept
    <2>1. {r.user : r \in claimed} \in SUBSET Users
        BY ItemTypes DEF AutomationTypeOK
    <2>2. \/ \E S \in SUBSET Users : Fault(S) /\ UNCHANGED <<status, ban>>
          \/ NoFault /\ UNCHANGED <<status, ban>>
          \/ \E decision \in {"timed", "permanent"} : DisableUser(item.user, decision)
          \/ EnableUser(item.user)
          \/ \E state \in {"ACTIVE", "DISABLED"}, decision \in {"none", "timed", "permanent"} :
                 CallFails(item.user, state, decision)
        BY <1>1, <2>1
        DEF LoopStep, CheckStep, Act, ActSchedulesUnblock, Enable, Finish, NoFault
    <2> QED
        BY <1>1, <1>2, <2>2, EngineKeeps DEF DetectionInv
<1>4. /\ claimed' \subseteq claimed
      /\ \/ UNCHANGED <<item, claimed>>
            /\ \/ loop' = "finish"
               \/ loop' = "act" /\ loop = "check" /\ ~StepBlocker(item)
               \/ loop' = "unblock" /\ loop = "act"
         \/ /\ item' \in claimed \cup {NoRow}
            /\ loop' \in {"idle", "check", "enable"}
            /\ loop' = "idle" => item' = NoRow /\ claimed' = {}
            /\ loop' # "idle" => item' \in claimed
            /\ loop' = "check" => item'.action = "chain_step"
    <2>1. CASE Finish
        <3>1. claimed \subseteq Rows
            BY DEF AutomationTypeOK
        <3>2. CASE TakeUp(claimed)
            BY <3>1, <3>2, TakeUpKeeps
        <3>3. CASE Take("idle", NoRow) /\ claimed' = {}
            BY <3>3 DEF Take
        <3> QED
            BY <2>1, <3>2, <3>3 DEF Finish
    <2>2. CASE CheckStep \/ Act \/ ActSchedulesUnblock \/ Enable
        BY <2>2 DEF CheckStep, Act, ActSchedulesUnblock, Enable, Take
    <2> QED
        BY <2>1, <2>2 DEF LoopStep
<1>5. /\ pending_actions' \subseteq Rows
      /\ \A r \in pending_actions' : r.viol \in Recorded /\ r.user = violations[r.viol].user
    <2> DEFINE row == Row("enable_user", item.viol, item.step)
    <2>1. row \in Rows /\ row.viol = item.viol /\ row.user = violations[item.viol].user
        BY <1>1, RowIsRow DEF DetectionInv
    <2>2. pending_actions' \subseteq pending_actions \cup {row}
        BY <1>2
    <2> HIDE DEF row
    <2> QED
        BY <1>1, <2>1, <2>2 DEF AutomationTypeOK, RowsInv
<1>6. AutomationTypeOK'
    BY <1>2, <1>4, <1>5 DEF AutomationTypeOK, Rows, Steps
<1>7. LoopInv'
    <2>1. ~StepBlocker(item) /\ item.late => ~CalledOff(item)
        BY <1>1 DEF StepBlocker, CalledOff
    <2>2. item.late => CalledOff(item)
        BY <1>1 DEF RowsInv, Claimed
    <2>3. claimed \subseteq Rows /\ UNCHANGED Rows
        BY <1>2 DEF AutomationTypeOK, Rows, Steps
    <2> QED
        BY <1>1, <1>4, <2>1, <2>2, <2>3 DEF LoopInv, CalledOffHonoured
<1>8. RowsInv'
    <2>1. Claimed' \subseteq Claimed
        BY <1>1, <1>4 DEF Claimed
    <2> QED
        BY <1>2, <1>5, <2>1 DEF RowsInv, CalledOff, Pending, Recorded
<1>9. TasksInv'
    BY <1>2 DEF TasksInv, Recorded
<1> QED
    BY <1>3, <1>6, <1>7, <1>8, <1>9

LEMMA MoveKeeps ==
    ASSUME AccountsTypeOK, Move, UNCHANGED <<accounts, events>>
    PROVE  Kept /\ Len(violations') = Len(violations)
BY RowsLeftAlone, MaxMovesAssumption DEF Kept, Move, accounts, AccountsTypeOK

LEMMA ClientKeeps ==
    ASSUME DetectionInv, EngineInv, UNCHANGED detection, NEW u \in Users, ClientWrites(u)
    PROVE  Kept /\ EngineInv'
<1> USE DEF EngineInv
<1> DEFINE Seen(r) == IF r.action = "chain_step" /\ r.user = u
                      THEN [r EXCEPT !.answered = TRUE] ELSE r
<1>1. /\ Kept
      /\ UNCHANGED <<chain, enabled, locks, task, loop, events, violations, at, vid>>
    BY MoveKeeps DEF ClientWrites, detection, worker, accounts, DetectionInv
<1>2. /\ pending_actions' = {Seen(r) : r \in pending_actions}
      /\ claimed' = {Seen(r) : r \in claimed}
      /\ item' = IF item = NoRow THEN NoRow ELSE Seen(item)
    BY DEF ClientWrites
<1>3. \A r \in Rows :
          /\ Seen(r) \in Rows
          /\ Seen(r).viol = r.viol /\ Seen(r).user = r.user
          /\ Seen(r).action = r.action /\ Seen(r).late = r.late
          /\ CalledOff(r) => CalledOff(Seen(r))
    BY DEF Rows, CalledOff
<1> HIDE DEF Seen
<1>4. /\ pending_actions \subseteq Rows /\ claimed \subseteq Rows
      /\ item \in Rows \cup {NoRow} /\ UNCHANGED Rows
      /\ item # NoRow => item \in Rows
      /\ NoRow \notin Rows
    BY <1>1, ItemTypes DEF AutomationTypeOK, Rows, Steps
<1>5. AutomationTypeOK'
    BY <1>1, <1>2, <1>3, <1>4 DEF AutomationTypeOK, Rows, Steps
<1>6. LoopInv'
    BY <1>1, <1>2, <1>3, <1>4 DEF LoopInv, CalledOffHonoured
<1>7. \A r \in Claimed' : \E q \in Claimed : r = Seen(q)
    BY <1>2, <1>3, <1>4 DEF Claimed
<1>8. RowsInv'
    <2>1. ASSUME NEW r \in (pending_actions \cup Claimed)'
          PROVE  r.viol \in Recorded /\ r.user = violations[r.viol].user
        <3>1. PICK q \in pending_actions \cup Claimed : r = Seen(q)
            BY <1>2, <1>7
        <3> QED
            BY <1>3, <1>4, <3>1, ItemTypes DEF RowsInv
    <2>2. ASSUME NEW r \in Claimed', r.late
          PROVE  CalledOff(r)'
        <3>1. PICK q \in Claimed : r = Seen(q)
            BY <1>7
        <3>2. CalledOff(r)
            BY <1>3, <2>2, <3>1, ItemTypes DEF RowsInv
        <3> QED
            BY <1>1, <3>2 DEF CalledOff, Pending
    <2> QED
        BY <1>1, <2>1, <2>2 DEF RowsInv, Recorded
<1>9. TasksInv'
    BY <1>1 DEF TasksInv, Recorded
<1> QED
    BY <1>1, <1>5, <1>6, <1>8, <1>9

LEMMA ToggleKeeps ==
    ASSUME DetectionInv, EngineInv, UNCHANGED detection, ToggleRule
    PROVE  Kept /\ EngineInv'
<1> USE DEF EngineInv
<1>1. /\ UNCHANGED <<chain, locks, task, pending_actions, loop, claimed, item>>
      /\ UNCHANGED <<events, violations, at, vid>> /\ enabled' \in BOOLEAN /\ Kept
    BY MoveKeeps DEF ToggleRule, engine, detection, worker, accounts, DetectionInv
<1>2. AutomationTypeOK'
    BY <1>1 DEF AutomationTypeOK, Rows, Steps
<1>3. LoopInv' /\ RowsInv' /\ TasksInv'
    BY <1>1 DEF LoopInv, CalledOffHonoured, Rows, Steps, RowsInv, Claimed, CalledOff, Pending,
                TasksInv, Recorded
<1> QED
    BY <1>1, <1>2, <1>3

LEMMA AutomationKeeps ==
    ASSUME DetectionInv, EngineInv, UNCHANGED detection, AutomationNext
    PROVE  Kept /\ Len(violations') = Len(violations) /\ EngineInv'
<1>1. Len(violations') = Len(violations)
    BY DEF AutomationNext, HandleEvent, TaskStep, Warn, BlockNow, ScheduleUnblock, ScheduleStep,
           Claim, LoopStep, CheckStep, Act, ActSchedulesUnblock, Enable, Finish, ToggleRule,
           ClientWrites, told, accounts
<1>2. CASE \E v \in Recorded : HandleEvent(v) \/ TaskStep(v)
    <2>1. PICK v \in Recorded : HandleEvent(v) \/ TaskStep(v)
        BY <1>2
    <2>2. TaskEffect(v)
        BY <2>1, TaskDoes DEF DetectionInv, EngineInv
    <2> QED
        BY <1>1, <2>2, TaskKeeps DEF TaskEffect
<1> QED
    BY <1>1, <1>2, ClaimKeeps, LoopKeeps, ToggleKeeps, ClientKeeps DEF AutomationNext

----------------------------------------------------------------------------
(* All together.                                                           *)

Inv == DetectionInv /\ EngineInv

\* A violation the worker comes to tell is not known to the engine.
LEMMA DetectionTells ==
    ASSUME Inv, DetectionNext, UNCHANGED automation
    PROVE  TasksInv'
<1> USE DEF Inv
<1>1. Kept /\ DetectionInv'
    BY DetectionKeeps
<1>2. /\ UNCHANGED task /\ Len(violations) \in Nat
      /\ Recorded = 1..Len(violations) /\ Recorded \subseteq Recorded'
      /\ Recorded' \subseteq Ids
    <2>1. /\ Len(violations) \in Nat /\ Recorded = 1..Len(violations) /\ Len(violations') \in Nat
          /\ Recorded' = 1..Len(violations') /\ Len(violations) <= Len(violations')
          /\ Len(violations') <= MaxViolations
        BY <1>1, RowTypes, LenProperties DEF Kept, RowsStay, Recorded, AccountsTypeOK, DetectionInv
    <2> QED
        BY <2>1, MaxViolationsAssumption DEF Ids, automation
<1>3. /\ \A v \in events' \ events :
             \/ v = vid /\ at \in {"block", "mark"}
             \/ v = Len(violations) + 1
      /\ at' \in {"block", "mark"} =>
             /\ UNCHANGED events
             /\ (vid' = vid /\ at \in {"block", "mark"}) \/ vid' = Len(violations) + 1
    <2>1. CASE TakeBatch \/ CheckBatch \/ ReadInfo \/ BatchFails \/ \E u \in Watched : Enqueue(u)
        BY <2>1 DEF TakeBatch, CheckBatch, ReadInfo, BatchFails, Enqueue, LetGo, told
    <2>2. CASE Save
        BY <2>2 DEF Save, Broadcast, NextViolator, LetGo
    <2>3. CASE Block
        <3>1. PICK u \in targets : BlockedOne(u)
            BY <2>3, BlockOne DEF DetectionInv
        <3> QED
            BY <2>3, <3>1 DEF Block, BlockedOne, Broadcast, NextViolator, LetGo
    <2>4. CASE MarkResolved
        BY <2>4 DEF MarkResolved, Broadcast, NextViolator, LetGo
    <2>5. CASE \E u \in Watched : OtherSave(u)
        BY <2>5, OtherInserts DEF detection, worker
    <2> QED
        BY <2>1, <2>2, <2>3, <2>4, <2>5 DEF DetectionNext, WorkerStep, OtherSave
<1>4. Len(violations) + 1 \notin Recorded
    BY <1>2
<1>5. \A v \in Ids : task[v].at # "none" => v # Len(violations) + 1
    BY <1>4 DEF EngineInv, TasksInv
<1>6. \A v \in Ids : task[v].at # "none" => v \in Recorded' \ events'
    BY <1>2, <1>3, <1>5 DEF EngineInv, TasksInv
<1>7. at' \in {"block", "mark"} => vid' \notin events' /\ task[vid'].at = "none"
    <2>1. Len(violations) + 1 \notin events
        BY <1>4 DEF DetectionInv, AccountsTypeOK, Recorded
    <2>2. at' \in {"block", "mark"} => vid' \in Ids
        BY <1>1, <1>2 DEF DetectionInv, InHand
    <2> QED
        BY <1>3, <1>5, <2>1, <2>2 DEF EngineInv, TasksInv
<1> QED
    BY <1>2, <1>6, <1>7 DEF TasksInv

LEMMA CrashKeeps ==
    ASSUME Inv, Crash
    PROVE  Kept /\ Len(violations') = Len(violations) /\ Inv'
<1> USE DEF Inv, DetectionInv, EngineInv
<1>1. Held \cup InTasks \cup InLoop \subseteq Users
    <2>1. Held \subseteq Users
        BY DEF Held, DetectionTypeOK
    <2>2. InTasks \subseteq Users
        BY RowTypes DEF InTasks, AccountsTypeOK, Violations, Recorded
    <2>3. InLoop \subseteq Users
        BY ItemTypes DEF InLoop, Claimed
    <2> QED
        BY <2>1, <2>2, <2>3
<1>2. faults' \in 0..MaxFaults /\ excused' \subseteq Users /\ excused \subseteq excused'
    BY <1>1, FaultKeeps DEF Crash
<1>3. /\ events' = {} /\ resolving' = 0
      /\ UNCHANGED <<status, mirror, violations, whitelist, ban, moves>>
      /\ UNCHANGED <<chain, enabled, locks, pending_actions>>
      /\ task' = [v \in Ids |-> NoTask]
      /\ claimed' = {} /\ loop' = "idle" /\ item' = NoRow
    BY DEF Crash, Take
<1>4. Kept
    BY <1>2, <1>3, RowsLeftAlone, RowTypes DEF Kept, AccountsTypeOK
<1>5. DetectionTypeOK' /\ InHand'
    BY <1>4, LetGoKeeps DEF Crash, Kept
<1>6. at' = "none"
    BY DEF Crash, LetGo
<1>7. AutomationTypeOK'
    <2>1. task' \in [Ids -> [at : {"none", "run", "unblock"}, step : Steps, hold : BOOLEAN]]
        BY <1>3, ChainTypes DEF Tasks
    <2> QED
        BY <1>3, <2>1 DEF AutomationTypeOK, Rows, Steps
<1>8. LoopInv'
    BY <1>3 DEF LoopInv, CalledOffHonoured
<1>9. RowsInv'
    BY <1>3 DEF RowsInv, Claimed, Recorded
<1>10. TasksInv'
    BY <1>3, <1>6 DEF TasksInv, NoTask
<1> QED
    BY <1>3, <1>4, <1>5, <1>7, <1>8, <1>9, <1>10 DEF Kept

LEMMA AdminStep ==
    ASSUME Inv, AdminNext, UNCHANGED <<detection, automation>>
    PROVE  Kept /\ Inv'
<1>1. Kept /\ Len(violations') = Len(violations)
    BY AdminKeeps DEF Inv, DetectionInv
<1>2. DetectionInv'
    BY <1>1, WorkerStays DEF Inv
<1>3. events' = events
    BY DEF AdminNext, ResolveBlock, Close, Age, ResolveBlockEnd, AnnulUser, AddToWhitelist,
           RemoveFromWhitelist, AdminEnable, Sync
<1>4. Recorded \subseteq Recorded'
    BY <1>1, RowTypes, LenProperties DEF Kept, RowsStay, Recorded, AccountsTypeOK, Inv, DetectionInv
<1>5. TasksInv'
    BY <1>3, <1>4 DEF Inv, EngineInv, TasksInv, automation, detection, worker
<1> QED
    BY <1>1, <1>2, <1>5, EngineStays DEF Inv, DetectionInv

LEMMA NextKeeps ==
    ASSUME Inv, Next
    PROVE  Kept /\ Inv'
<1>1. CASE AdminNext /\ UNCHANGED <<detection, automation>>
    BY <1>1, AdminStep
<1>2. CASE DetectionNext /\ UNCHANGED automation
    <2>1. Kept /\ DetectionInv' /\ TasksInv'
        BY <1>2, DetectionKeeps, DetectionTells DEF Inv
    <2> QED
        BY <1>2, <2>1, EngineStays DEF Inv, DetectionInv
<1>3. CASE AutomationNext /\ UNCHANGED detection
    <2>1. Kept /\ Len(violations') = Len(violations) /\ EngineInv'
        BY <1>3, AutomationKeeps DEF Inv
    <2> QED
        BY <1>3, <2>1, WorkerStays DEF Inv
<1>4. CASE Crash
    BY <1>4, CrashKeeps
<1> QED
    BY <1>1, <1>2, <1>3, <1>4 DEF Next

LEMMA Begins ==
    ASSUME Init
    PROVE  Inv
<1>1. AccountsTypeOK
    <2>1. violations = << >> /\ violations \in Seq(Violations) /\ Len(violations) = 0
        BY EmptySeq DEF Init, AccountsInit
    <2> QED
        BY <2>1, MaxViolationsAssumption, MaxMovesAssumption, MaxFaultsAssumption
        DEF Init, AccountsInit, AccountsTypeOK
<1>2. DetectionTypeOK /\ InHand
    <2>1. 0 \in 0..Len(violations) /\ NoVerdict \in [Users -> Scores \cup {0}]
        BY <1>1, RowTypes DEF NoVerdict
    <2> QED
        BY <2>1 DEF Init, DetectionInit, WorkerInit, DetectionTypeOK, InHand
<1>3. AutomationTypeOK
    <2>1. 1 \in Steps
        <3>1. /\ chain \in Seq([act : {"warn", "block"}, delayed : BOOLEAN, timed : BOOLEAN])
              /\ chain # << >>
            BY ChainsAssumption DEF Init, AutomationInit
        <3> QED
            BY <3>1, LenProperties, EmptySeq DEF Steps
    <2> QED
        BY <2>1 DEF Init, AutomationInit, AutomationTypeOK, NoTask
<1>4. RowsInv /\ LoopInv /\ TasksInv
    BY DEF Init, AutomationInit, DetectionInit, WorkerInit, RowsInv, Claimed, LoopInv,
           CalledOffHonoured, TasksInv, NoTask
<1> QED
    BY <1>1, <1>2, <1>3, <1>4 DEF Inv, DetectionInv, EngineInv

LEMMA Invariance == Spec => []Inv
<1>1. Init => Inv
    BY Begins
<1>2. Inv /\ [Next]_vars => Inv'
    <2> SUFFICES ASSUME Inv, UNCHANGED vars
                 PROVE  Inv'
        BY NextKeeps
    <2>1. Kept /\ Len(violations') = Len(violations) /\ UNCHANGED <<detection, automation, events>>
        BY NothingTold DEF vars, told, Inv, DetectionInv
    <2>2. DetectionInv' /\ UNCHANGED violations
        BY <2>1, WorkerStays DEF Inv, vars, told, accounts
    <2>3. TasksInv'
        BY <2>1, <2>2 DEF Inv, EngineInv, TasksInv, detection, worker, automation, Recorded
    <2> QED
        BY <2>1, <2>2, <2>3, EngineStays DEF Inv, DetectionInv
<1> QED
    BY <1>1, <1>2, PTL DEF Spec

\* Every variable has its type, whatever the accounts, the rules and the bounds.
THEOREM TypeCorrect == Spec => []TypeOK
<1>1. Inv => TypeOK
    BY DEF Inv, DetectionInv, EngineInv, TypeOK
<1> QED
    BY <1>1, Invariance, PTL

\* The loop never carries out a delayed step that had been called off, by an
\* operator's decision or by the client's letter, before the loop claimed it
\* (_step_blocker), however the steps of the operators, of the detector and of
\* other tasks fall between the claim, the check and the action.
THEOREM CalledOffStays == Spec => []CalledOffHonoured
<1>1. Inv => CalledOffHonoured
    BY DEF Inv, EngineInv, LoopInv
<1> QED
    BY <1>1, Invariance, PTL

----------------------------------------------------------------------------
(* Blocks for a time.                                                      *)

\* The enabling of u is ahead.
Ahead(u) ==
    \/ \E r \in pending_actions \cup claimed : r.action = "enable_user" /\ r.user = u
    \/ loop \in {"unblock", "enable"} /\ item.user = u
    \/ \E v \in Recorded : task[v].at = "unblock" /\ violations[v].user = u
    \/ u \in excused

LEMMA AheadStays ==
    ASSUME Inv, Kept, NEW u \in Users, Ahead(u),
           \/ UNCHANGED automation
           \/ UNCHANGED <<pending_actions, claimed, loop, item, task>>
    PROVE  Ahead(u)'
<1>1. /\ UNCHANGED <<pending_actions, claimed, loop, item, task>>
      /\ Recorded \subseteq Recorded'
    BY RowTypes, LenProperties
    DEF automation, engine, Kept, RowsStay, Recorded, AccountsTypeOK, Inv, DetectionInv
<1> QED
    BY <1>1 DEF Ahead, Kept, RowsStay

\* A step of the task of v: what was ahead stays ahead.
LEMMA TaskLeavesAhead ==
    ASSUME Inv, TimedBlockHasEnd, NEW v \in Recorded, HandleEvent(v) \/ TaskStep(v)
    PROVE  TimedBlockHasEnd'
<1>1. /\ TaskEffect(v) /\ v \in Ids /\ Recorded \subseteq Ids
      /\ v \in events => task[v].at = "none"
    BY TaskDoes, RowTypes DEF Inv, DetectionInv, EngineInv, TasksInv
<1>2. /\ UNCHANGED <<violations, claimed, loop, item>> /\ pending_actions \subseteq pending_actions'
      /\ \A w \in Recorded \ {v} : task'[w] = task[w]
      /\ excused \subseteq excused' /\ Recorded' = Recorded
    <2>1. UNCHANGED violations
        BY <1>1 DEF TaskEffect
    <2>2. Recorded' = Recorded
        BY <2>1 DEF Recorded
    <2> QED
        BY <1>1, <2>1, <2>2 DEF TaskEffect, engine, Kept
<1>3. ASSUME NEW u \in Users, Ahead(u), task[v].at # "unblock" \/ violations[v].user # u
      PROVE  Ahead(u)'
    BY <1>2, <1>3 DEF Ahead
<1>4. CASE HandleEvent(v) \/ Warn(v) \/ ScheduleStep(v)
    <2>1. UNCHANGED ban /\ task[v].at # "unblock"
        BY <1>1, <1>4 DEF HandleEvent, Warn, ScheduleStep, Immediate, told, accounts
    <2> QED
        BY <1>3, <2>1 DEF TimedBlockHasEnd, Ahead
<1>5. CASE BlockNow(v)
    <2> DEFINE k == task[v].step
    <2>1. task[v].at # "unblock" /\ k \in Steps /\ task \in [Ids -> Tasks]
        BY <1>1, <1>5 DEF BlockNow, Immediate, Inv, EngineInv, AutomationTypeOK, Tasks
    <2>2. ASSUME NEW u \in Users, ban'[u] = "timed"
          PROVE  Ahead(u)'
        <3>1. CASE ban'[u] = ban[u]
            BY <1>3, <2>1, <2>2, <3>1 DEF TimedBlockHasEnd, Ahead
        <3>2. CASE ban'[u] # ban[u]
            <4>1. /\ ban' = [ban EXCEPT ![violations[v].user] = Decision(k)]
                  /\ u = violations[v].user
                BY <1>5, <3>2 DEF BlockNow, DisableUser, CallFails, Inv, DetectionInv, AccountsTypeOK
            <4>2. Decision(k) = "timed"
                BY <2>2, <4>1 DEF Inv, DetectionInv, AccountsTypeOK
            <4>3. chain[k].timed
                BY <4>2 DEF Decision
            <4>4. CASE CallFails(violations[v].user, "DISABLED", Decision(k))
                <5>1. u \in excused'
                    BY <4>1, <4>4 DEF CallFails, Fault
                <5> QED
                    BY <5>1 DEF Ahead
            <4>5. CASE task' = [task EXCEPT ![v].at = "unblock"]
                <5>1. task'[v].at = "unblock"
                    BY <1>1, <2>1, <4>5 DEF Tasks
                <5> QED
                    BY <1>2, <4>1, <5>1 DEF Ahead
            <4> QED
                BY <1>5, <4>3, <4>4, <4>5 DEF BlockNow
        <3> QED
            BY <3>1, <3>2
    <2> QED
        BY <2>2 DEF TimedBlockHasEnd, Ahead
<1>6. CASE ScheduleUnblock(v)
    <2>1. UNCHANGED ban
        BY <1>6 DEF ScheduleUnblock
    <2>2. Ahead(violations[v].user)'
        <3>1. CASE Fault({violations[v].user})
            BY <1>2, <3>1 DEF Fault, Ahead
        <3>2. CASE pending_actions' = pending_actions \cup {Row("enable_user", v, task[v].step)}
            <4>1. /\ Row("enable_user", v, task[v].step).action = "enable_user"
                  /\ Row("enable_user", v, task[v].step).user = violations[v].user
                BY DEF Row
            <4> QED
                BY <1>2, <3>2, <4>1 DEF Ahead
        <3> QED
            BY <1>6, <3>1, <3>2 DEF ScheduleUnblock
    <2>3. ASSUME NEW u \in Users, ban'[u] = "timed"
          PROVE  Ahead(u)'
        <3>1. Ahead(u)
            BY <2>1, <2>3 DEF TimedBlockHasEnd, Ahead
        <3>2. CASE u = violations[v].user
            BY <1>2, <2>2, <3>2
        <3> QED
            BY <1>3, <3>1, <3>2
    <2> QED
        BY <2>3 DEF TimedBlockHasEnd, Ahead
<1> QED
    BY <1>4, <1>5, <1>6 DEF TaskStep

\* A step of the loop: the row leaves the table for the claim, the claim for
\* the loop's hand, and the hand when the enabling was answered.
LEMMA LoopLeavesAhead ==
    ASSUME Inv, TimedBlockHasEnd, Claim \/ LoopStep, Kept
    PROVE  TimedBlockHasEnd'
<1>1. /\ UNCHANGED <<violations, task, chain>> /\ Recorded' = Recorded
      /\ excused \subseteq excused' /\ pending_actions \subseteq Rows /\ claimed \subseteq Rows
    <2>1. UNCHANGED <<violations, task, chain>>
        BY DEF Claim, LoopStep, CheckStep, Act, ActSchedulesUnblock, Enable, Finish, told, accounts
    <2> QED
        BY <2>1 DEF Recorded, Kept, Inv, EngineInv, AutomationTypeOK
<1>2. ASSUME NEW u \in Users, ban'[u] = ban[u], ban[u] = "timed",
             \A r \in pending_actions \cup claimed :
                 r.action = "enable_user" /\ r.user = u =>
                     \/ r \in pending_actions' \cup claimed'
                     \/ \E q \in claimed' : q.action = "enable_user" /\ q.user = u
                     \/ loop' = "enable" /\ item'.user = u
                     \/ u \in excused',
             loop \in {"unblock", "enable"} /\ item.user = u => Ahead(u)'
      PROVE  Ahead(u)'
    BY <1>1, <1>2 DEF TimedBlockHasEnd, Ahead
<1>3. CASE Claim
    <2>1. PICK due \in SUBSET pending_actions :
              /\ TakeUp({[r EXCEPT !.late = CalledOff(r)] : r \in due})
              /\ pending_actions' = pending_actions \ due
        BY <1>3 DEF Claim
    <2> DEFINE Marked(r) == [r EXCEPT !.late = CalledOff(r)]
               rows == {Marked(r) : r \in due}
    <2>2. \A r \in due : Marked(r).action = r.action /\ Marked(r).user = r.user /\ Marked(r) \in Rows
        <3>1. \A r \in Rows : Marked(r).action = r.action /\ Marked(r).user = r.user /\ Marked(r) \in Rows
            BY DEF Rows, CalledOff
        <3> HIDE DEF Marked
        <3> QED
            BY <1>1, <3>1
    <2>3. rows \subseteq Rows
        BY <2>2
    <2>4. \A r \in rows : (r = item' /\ loop' # "idle") \/ r \in claimed'
        BY <2>1, <2>3, TakeUpKeeps
    <2>5. loop' = "check" => item'.action = "chain_step"
        BY <2>1, <2>3, TakeUpKeeps
    <2>6. loop' \in {"idle", "check", "enable"}
        BY <2>1, <2>3, TakeUpKeeps
    <2>7. /\ \A r \in due : Marked(r) \in rows
          /\ ban' = ban /\ loop = "idle" /\ claimed = {}
        BY <1>3 DEF Claim, told, accounts, Inv, EngineInv, LoopInv
    <2> HIDE DEF Marked, rows
    <2>8. ASSUME NEW u \in Users, NEW r \in pending_actions, r.action = "enable_user", r.user = u
          PROVE  \/ r \in pending_actions'
                 \/ \E q \in claimed' : q.action = "enable_user" /\ q.user = u
                 \/ loop' = "enable" /\ item'.user = u
        BY <2>1, <2>2, <2>4, <2>5, <2>6, <2>7, <2>8
    <2> QED
        BY <1>2, <2>7, <2>8 DEF TimedBlockHasEnd, Ahead
<1>4. CASE Finish
    <2>1. /\ UNCHANGED <<ban, pending_actions>> /\ loop = "finish"
        BY <1>4 DEF Finish
    <2>2. CASE TakeUp(claimed)
        <3>1. /\ \A r \in claimed : (r = item' /\ loop' # "idle") \/ r \in claimed'
              /\ loop' = "check" => item'.action = "chain_step"
              /\ loop' \in {"idle", "check", "enable"}
            BY <1>1, <2>2, TakeUpKeeps
        <3>2. ASSUME NEW u \in Users, NEW r \in claimed, r.action = "enable_user", r.user = u
              PROVE  r \in claimed' \/ (loop' = "enable" /\ item'.user = u)
            BY <3>1, <3>2
        <3> QED
            BY <1>2, <2>1, <3>2 DEF TimedBlockHasEnd, Ahead
    <2>3. CASE Fault({r.user : r \in claimed})
        <3>1. \A r \in claimed : r.user \in excused'
            BY <2>3 DEF Fault
        <3> QED
            BY <1>2, <2>1, <3>1 DEF TimedBlockHasEnd, Ahead
    <2> QED
        BY <1>4, <2>2, <2>3 DEF Finish
<1>5. CASE CheckStep
    <2>1. UNCHANGED <<ban, pending_actions, claimed>> /\ loop = "check"
        BY <1>5 DEF CheckStep
    <2> QED
        BY <1>2, <2>1 DEF TimedBlockHasEnd, Ahead
<1>6. CASE Act
    <2>1. UNCHANGED <<pending_actions, claimed>> /\ loop = "act"
        BY <1>6 DEF Act
    <2>2. ASSUME NEW u \in Users, ban'[u] # ban[u], ban'[u] = "timed"
          PROVE  Ahead(u)'
        <3>1. ban' = [ban EXCEPT ![item.user] = Decision(item.step)] /\ u = item.user
            BY <1>6, <2>2 DEF Act, DisableUser, CallFails, Inv, DetectionInv, AccountsTypeOK
        <3>2. Decision(item.step) = "timed"
            BY <2>2, <3>1 DEF Inv, DetectionInv, AccountsTypeOK
        <3>3. CASE CallFails(item.user, "DISABLED", Decision(item.step))
            BY <3>1, <3>3 DEF CallFails, Fault, Ahead
        <3>4. CASE loop' = "unblock" /\ item' = item
            BY <3>1, <3>4 DEF Ahead
        <3> QED
            BY <1>6, <2>2, <3>2, <3>3, <3>4 DEF Act, Take, Decision
    <2> QED
        BY <1>2, <2>1, <2>2 DEF TimedBlockHasEnd, Ahead
<1>7. CASE ActSchedulesUnblock
    <2>1. UNCHANGED <<ban, claimed>> /\ loop = "unblock" /\ pending_actions \subseteq pending_actions'
        BY <1>7 DEF ActSchedulesUnblock
    <2>2. ASSUME NEW u \in Users, u = item.user
          PROVE  Ahead(u)'
        <3>1. CASE Fault({item.user})
            BY <2>2, <3>1 DEF Fault, Ahead
        <3>2. CASE pending_actions' = pending_actions \cup {Row("enable_user", item.viol, item.step)}
            <4> DEFINE row == Row("enable_user", item.viol, item.step)
            <4>1. item \in Rows /\ item # NoRow
                BY <2>1, ItemTypes DEF Inv, EngineInv, LoopInv
            <4>2. item.user = violations[item.viol].user
                BY <4>1 DEF Inv, EngineInv, RowsInv, Claimed
            <4>3. row.action = "enable_user" /\ row.user = u
                BY <2>2, <4>2 DEF Row
            <4>4. row \in pending_actions'
                BY <3>2
            <4> HIDE DEF row
            <4> QED
                BY <4>3, <4>4 DEF Ahead
        <3> QED
            BY <1>7, <3>1, <3>2 DEF ActSchedulesUnblock
    <2> QED
        BY <1>2, <2>1, <2>2 DEF TimedBlockHasEnd, Ahead
<1>8. CASE Enable
    <2>1. UNCHANGED <<pending_actions, claimed>> /\ loop = "enable"
        BY <1>8 DEF Enable
    <2>2. \/ ban' = [ban EXCEPT ![item.user] = "none"]
          \/ UNCHANGED ban /\ item.user \in excused'
        BY <1>8 DEF Enable, EnableUser, CallFails, Fault
    <2>3. ASSUME NEW u \in Users, ban'[u] = "timed"
          PROVE  ban'[u] = ban[u] /\ (item.user = u => u \in excused')
        BY <2>2, <2>3 DEF Inv, DetectionInv, AccountsTypeOK
    <2> QED
        BY <1>2, <2>1, <2>3 DEF TimedBlockHasEnd, Ahead
<1> QED
    BY <1>3, <1>4, <1>5, <1>6, <1>7, <1>8 DEF LoopStep

LEMMA NextLeavesAhead ==
    ASSUME Inv, TimedBlockHasEnd, Next
    PROVE  TimedBlockHasEnd'
<1>1. Kept /\ Inv'
    BY NextKeeps
<1>2. ASSUME \A u \in Users : ban'[u] = "timed" => ban[u] = "timed",
             \/ UNCHANGED automation
             \/ UNCHANGED <<pending_actions, claimed, loop, item, task>>
      PROVE  TimedBlockHasEnd'
    BY <1>1, <1>2, AheadStays DEF TimedBlockHasEnd, Ahead
<1>3. CASE AdminNext /\ UNCHANGED <<detection, automation>>
    <2>1. \A u \in Users : ban'[u] = "timed" => ban[u] = "timed"
        BY <1>3 DEF AdminNext, ResolveBlock, Close, Age, ResolveBlockEnd, AnnulUser, AddToWhitelist,
                    RemoveFromWhitelist, AdminEnable, EnableUser, Sync, Inv, DetectionInv, AccountsTypeOK
    <2> QED
        BY <1>2, <1>3, <2>1
<1>4. CASE DetectionNext /\ UNCHANGED automation
    <2>1. CASE Block
        <3>1. \E u \in targets : ban' = [ban EXCEPT ![u] = "permanent"] \/ UNCHANGED ban
            BY <2>1, BlockOne DEF BlockedOne, DisableUser, CallFails, Inv, DetectionInv
        <3> QED
            BY <1>2, <1>4, <3>1 DEF Inv, DetectionInv, AccountsTypeOK
    <2>2. CASE ~Block
        <3>1. UNCHANGED ban
            BY <1>4, <2>2 DEF DetectionNext, WorkerStep, TakeBatch, CheckBatch, ReadInfo, Save,
                              MarkResolved, BatchFails, Enqueue, SaveTorrent, SaveTraffic,
                              told, accounts
        <3> QED
            BY <1>2, <1>4, <3>1
    <2> QED
        BY <2>1, <2>2
<1>5. CASE \E v \in Recorded : HandleEvent(v) \/ TaskStep(v)
    BY <1>5, TaskLeavesAhead
<1>6. CASE Claim \/ LoopStep
    BY <1>1, <1>6, LoopLeavesAhead
<1>7. CASE ToggleRule
    BY <1>2, <1>7 DEF ToggleRule, engine, accounts
<1>8. ASSUME NEW u \in Users, ClientWrites(u)
      PROVE  TimedBlockHasEnd'
    <2> DEFINE Seen(r) == IF r.action = "chain_step" /\ r.user = u
                          THEN [r EXCEPT !.answered = TRUE] ELSE r
    <2>1. /\ pending_actions' = {Seen(r) : r \in pending_actions}
          /\ claimed' = {Seen(r) : r \in claimed}
          /\ item' = IF item = NoRow THEN NoRow ELSE Seen(item)
          /\ UNCHANGED <<loop, task, ban, violations, excused>>
        BY <1>8 DEF ClientWrites, accounts
    <2>2. \A r \in Rows : Seen(r).action = r.action /\ Seen(r).user = r.user
        BY DEF Rows
    <2>3. /\ pending_actions \subseteq Rows /\ claimed \subseteq Rows
          /\ loop # "idle" => item \in Rows /\ item # NoRow
        BY ItemTypes DEF Inv, EngineInv, AutomationTypeOK, LoopInv
    <2> HIDE DEF Seen
    <2>4. ASSUME NEW w \in Users, ban'[w] = "timed"
          PROVE  Ahead(w)'
        <3>1. Ahead(w)
            BY <2>1, <2>4 DEF TimedBlockHasEnd, Ahead
        <3>2. CASE \E r \in pending_actions \cup claimed : r.action = "enable_user" /\ r.user = w
            <4>1. PICK r \in pending_actions \cup claimed : r.action = "enable_user" /\ r.user = w
                BY <3>2
            <4>2. /\ Seen(r) \in (pending_actions \cup claimed)'
                  /\ Seen(r).action = "enable_user" /\ Seen(r).user = w
                BY <2>1, <2>2, <2>3, <4>1
            <4> QED
                BY <4>2 DEF Ahead
        <3>3. CASE loop \in {"unblock", "enable"} /\ item.user = w
            BY <2>1, <2>2, <2>3, <3>3 DEF Ahead
        <3> QED
            BY <2>1, <3>1, <3>2, <3>3 DEF Ahead, Recorded
    <2> QED
        BY <2>4 DEF TimedBlockHasEnd, Ahead
<1>9. CASE Crash
    <2>1. /\ UNCHANGED <<ban, pending_actions>>
          /\ \A u \in InTasks \cup InLoop : u \in excused'
        BY <1>9 DEF Crash, Fault
    <2>2. loop # "idle" => item # NoRow
        BY ItemTypes DEF Inv, EngineInv, LoopInv
    <2>3. ASSUME NEW u \in Users, Ahead(u)
          PROVE  Ahead(u)'
        <3>1. CASE u \in excused
            BY <1>1, <3>1 DEF Kept, Ahead
        <3>2. CASE \E r \in pending_actions : r.action = "enable_user" /\ r.user = u
            BY <2>1, <3>2 DEF Ahead
        <3>3. CASE \/ \E r \in claimed : r.user = u
                   \/ loop \in {"unblock", "enable"} /\ item.user = u
                   \/ \E v \in Recorded : task[v].at = "unblock" /\ violations[v].user = u
            <4>1. u \in InTasks \cup InLoop
                BY <2>2, <3>3 DEF InTasks, InLoop
            <4> QED
                BY <2>1, <4>1 DEF Ahead
        <3> QED
            BY <2>3, <3>1, <3>2, <3>3 DEF Ahead
    <2> QED
        BY <2>1, <2>3 DEF TimedBlockHasEnd, Ahead
<1> QED
    BY <1>3, <1>4, <1>5, <1>6, <1>7, <1>8, <1>9 DEF Next, AutomationNext

\* Nobody is left blocked who was blocked for a time: the enabling is stored,
\* claimed, in the loop's hand or about to be stored by the task that blocked
\* (_schedule_unblock, _run_pending_actions), unless a call for that user
\* failed or was cut short.
THEOREM TimedBlocksEnd == Spec => []TimedBlockHasEnd
<1>1. Init => TimedBlockHasEnd
    BY DEF Init, AccountsInit, TimedBlockHasEnd
<1>2. Inv /\ TimedBlockHasEnd /\ [Next]_vars => TimedBlockHasEnd'
    <2> SUFFICES ASSUME TimedBlockHasEnd, UNCHANGED vars
                 PROVE  TimedBlockHasEnd'
        BY NextLeavesAhead
    <2> QED
        BY DEF vars, told, accounts, automation, engine, TimedBlockHasEnd, Recorded
<1> QED
    BY <1>1, <1>2, Invariance, PTL DEF Spec

----------------------------------------------------------------------------
(* Violations that wait.                                                   *)

\* What waits in the dedup window is pending.
RecentPending == \A v \in Recorded : violations[v].recent => Pending(v)

\* Since v no row of its user was saved without a comparison, up to w.
Compared(v, w) ==
    \A x \in (v + 1)..w : violations[x].user = violations[v].user => violations[x].by # "traffic"

\* The rows that wait escalate from one that was not compared to the next.
Escalates ==
    \A v, w \in Recorded :
        /\ v < w
        /\ violations[v].user = violations[w].user
        /\ violations[v].recent /\ violations[w].recent
        /\ Compared(v, w)
        => violations[v].score < violations[w].score

WaitingInv == Escalates /\ RecentPending

\* A set of rows has a last one.
LEMMA LastOne ==
    ASSUME NEW n \in Nat, NEW S \in SUBSET (1..n), S # {}
    PROVE  \E v \in S : \A w \in S : w <= v
<1> DEFINE T == {n - v : v \in S}
<1>0. \A v \in S : v \in 1..n /\ n - v \in Nat
    OBVIOUS
<1>1. T \subseteq Nat /\ T # {}
    BY <1>0
<1> HIDE DEF T
<1>2. PICK x \in T : \A y \in T : <<y, x>> \notin OpToRel(<, Nat)
    BY <1>1, WFMin, NatLessThanWellFounded
<1>3. \A y \in T : ~(y < x)
    BY <1>1, <1>2 DEF OpToRel
<1>4. PICK v \in S : x = n - v
    BY DEF T
<1>5. \A w \in S : n - w \in T
    BY DEF T
<1>6. \A w \in S : w <= v
    BY <1>0, <1>3, <1>4, <1>5
<1> QED
    BY <1>4, <1>6

LEMMA NewestIsLast ==
    ASSUME AccountsTypeOK, NEW u \in Users, Waiting(u) # {}
    PROVE  /\ Newest(u) \in Waiting(u)
           /\ \A w \in Waiting(u) : w <= Newest(u)
<1>1. \E v \in Waiting(u) : \A w \in Waiting(u) : w <= v
    BY RowTypes, LastOne DEF Waiting
<1> QED
    BY <1>1 DEF Newest

\* What is inserted after a comparison has a higher score than all that wait,
\* back to the last row that was not compared.
LEMMA InsertEscalates ==
    ASSUME AccountsTypeOK, WaitingInv, NEW u \in Users, NEW score \in Scores,
           NEW by \in {"worker", "torrent", "traffic"}, Insert(u, score, by)
    PROVE  WaitingInv'
<1>0. PICK n \in Nat \ {0} : n = Len(violations) + 1
    BY RowTypes
<1>1. /\ RowsStay /\ Len(violations') = n
      /\ violations'[n] = [user |-> u, score |-> score, recent |-> TRUE, action |-> "none", by |-> by]
      /\ \A w \in Recorded : violations'[w] = violations[w]
    BY <1>0, InsertKeeps
<1>2. /\ violations'[n].user = u /\ violations'[n].score = score
      /\ violations'[n].action = "none" /\ violations'[n].by = by
    BY <1>1
<1>3. Recorded = 1..(n - 1) /\ Recorded' = 1..n
    BY <1>0, <1>1, RowTypes, LenProperties DEF RowsStay, Recorded
<1>4. Recorded' = Recorded \cup {n} /\ \A w \in Recorded : w < n
    BY <1>3
<1>5. ASSUME NEW v \in Recorded, NEW w \in Recorded, Compared(v, w)'
      PROVE  Compared(v, w)
    <2>1. \A x \in (v + 1)..w : violations'[x] = violations[x]
        BY <1>1, <1>3
    <2> QED
        BY <1>1, <1>5, <2>1 DEF Compared
<1>6. \A v \in Waiting(u) : Compared(v, n)' => violations[v].score < score
    <2> SUFFICES ASSUME NEW v \in Waiting(u), Compared(v, n)'
                 PROVE  violations[v].score < score
        OBVIOUS
    <2>1. v \in Recorded /\ violations'[v] = violations[v] /\ violations[v].user = u
        BY <1>1 DEF Waiting
    <2>2. by # "traffic"
        <3>1. n \in (v + 1)..n
            BY <1>3, <2>1
        <3> QED
            BY <1>2, <2>1, <3>1 DEF Compared
    <2>3. Newest(u) \in Waiting(u) /\ v <= Newest(u)
        BY NewestIsLast
    <2>4. ~(violations[Newest(u)].score >= score)
        BY <2>2 DEF Insert, Duplicate
    <2>5. /\ Newest(u) \in Recorded /\ violations[Newest(u)].user = u
          /\ violations[Newest(u)].recent /\ violations[v].recent
        BY <2>3 DEF Waiting
    <2>6. violations[v].score \in 1..3 /\ violations[Newest(u)].score \in 1..3 /\ score \in 1..3
        BY <2>1, <2>5, RowTypes DEF Violations, Scores, Soft, Hard, Top
    <2>7. CASE v < Newest(u)
        <3>1. Compared(v, Newest(u))
            <4>1. \A x \in (v + 1)..Newest(u) : x \in (v + 1)..n /\ violations'[x] = violations[x]
                BY <1>1, <1>3, <2>1, <2>5
            <4> QED
                BY <2>1, <4>1 DEF Compared
        <3>2. violations[v].score < violations[Newest(u)].score
            BY <2>1, <2>5, <2>7, <3>1 DEF WaitingInv, Escalates
        <3> QED
            BY <2>4, <2>6, <3>2
    <2>8. CASE v = Newest(u)
        BY <2>4, <2>6, <2>8
    <2> QED
        BY <1>3, <2>1, <2>3, <2>5, <2>7, <2>8
<1>7. Escalates'
    <2>1. ASSUME NEW v \in Recorded', NEW w \in Recorded', v < w,
                 violations'[v].user = violations'[w].user,
                 violations'[v].recent, violations'[w].recent, Compared(v, w)'
          PROVE  violations'[v].score < violations'[w].score
        <3>1. v \in Recorded
            BY <1>3, <1>4, <2>1
        <3>2. CASE w = n
            BY <1>1, <1>2, <1>6, <2>1, <3>1, <3>2 DEF Waiting
        <3>3. CASE w # n
            BY <1>1, <1>4, <1>5, <2>1, <3>1, <3>3 DEF WaitingInv, Escalates
        <3> QED
            BY <3>2, <3>3
    <2> QED
        BY <2>1 DEF Escalates
<1>8. RecentPending'
    BY <1>1, <1>2, <1>4 DEF WaitingInv, RecentPending, Pending
<1> QED
    BY <1>7, <1>8 DEF WaitingInv

\* Only the detectors make rows.
LEMMA RowsComeFromSaves ==
    ASSUME Inv, Next, Len(violations') # Len(violations)
    PROVE  Save \/ \E u \in Watched : OtherSave(u)
BY BatchKeeps, BlockKeeps, MarkKeeps, AdminKeeps, AutomationKeeps, CrashKeeps
DEF Inv, DetectionInv, Next, DetectionNext, WorkerStep, OtherSave

LEMMA NextEscalates ==
    ASSUME Inv, WaitingInv, Next
    PROVE  WaitingInv'
<1>1. Kept
    BY NextKeeps
<1>2. CASE Len(violations') = Len(violations)
    <2>1. Recorded' = Recorded /\ Recorded = 1..Len(violations) /\ Len(violations) \in Nat
        BY <1>1, <1>2, RowTypes, LenProperties DEF Kept, RowsStay, Recorded, Inv, DetectionInv
    <2>2. ASSUME NEW v \in Recorded, NEW w \in Recorded, Compared(v, w)'
          PROVE  Compared(v, w)
        <3>1. \A x \in (v + 1)..w : x \in Recorded
            BY <2>1
        <3> QED
            BY <1>1, <2>2, <3>1 DEF Compared, Kept, RowsStay
    <2> QED
        BY <1>1, <2>1, <2>2 DEF Kept, RowsStay, WaitingInv, Escalates, RecentPending, Pending
<1>3. CASE Save /\ Len(violations') # Len(violations)
    <2>1. PICK u \in remaining : Insert(u, verdict[u], "worker")
        BY <1>3 DEF Save
    <2>2. u \in Users /\ verdict[u] \in Scores
        BY <1>3 DEF Save, Inv, DetectionInv, DetectionTypeOK, InHand
    <2> QED
        BY <2>1, <2>2, InsertEscalates DEF Inv, DetectionInv
<1>4. CASE \E u \in Watched : OtherSave(u)
    <2>1. PICK u \in Users, score \in Scores, by \in {"torrent", "traffic"} : Insert(u, score, by)
        BY <1>4, OtherInserts DEF Inv
    <2> QED
        BY <2>1, InsertEscalates DEF Inv, DetectionInv
<1> QED
    BY <1>2, <1>3, <1>4, RowsComeFromSaves

LEMMA WaitingInvariance == Spec => []WaitingInv
<1>1. Init => WaitingInv
    BY DEF Init, AccountsInit, WaitingInv, Escalates, RecentPending, Recorded
<1>2. Inv /\ WaitingInv /\ [Next]_vars => WaitingInv'
    <2> SUFFICES ASSUME WaitingInv, UNCHANGED vars
                 PROVE  WaitingInv'
        BY NextEscalates
    <2> QED
        BY DEF vars, told, accounts, WaitingInv, Escalates, Compared, RecentPending, Recorded, Pending
<1> QED
    BY <1>1, <1>2, Invariance, PTL DEF Spec

\* In the dedup window the pending violations the worker has saved of one user
\* are an escalation (save_violation): a verdict that is no worse than one that
\* waits gets no row, unless the traffic monitor has saved one in between.
THEOREM PendingIsEscalation == Spec => []PendingEscalates
<1>1. Inv /\ WaitingInv => PendingEscalates
    <2>1. ASSUME Inv, NEW v \in Recorded, NEW w \in Recorded,
                 \A x \in v..w : violations[x].user = violations[v].user => violations[x].by # "traffic"
          PROVE  Compared(v, w)
        BY <2>1, RowTypes DEF Compared, Inv, DetectionInv
    <2> QED
        BY <2>1 DEF WaitingInv, Escalates, PendingEscalates
<1> QED
    BY <1>1, Invariance, WaitingInvariance, PTL

----------------------------------------------------------------------------
(* Hard verdicts.                                                          *)

\* The violator is disabled before the accomplices: either that is to come,
\* or it, or the block of another, was answered, or the call failed.
BlockInv == at = "block" => user \in targets \cup excused \/ blocked = TRUE

HardInv == NoHardLeftPending /\ BlockInv

\* A row that calls for a block was pending before, unless it is new.
HardRow(v) == Pending(v) /\ violations[v].by = "worker" /\ violations[v].score >= Hard

LEMMA PendingBefore ==
    ASSUME Kept, NEW v \in Recorded, HardRow(v)'
    PROVE  HardRow(v) /\ violations'[v].user = violations[v].user
BY DEF Kept, RowsStay, Pending, HardRow

\* Steps that let the worker keep what it has in hand.
LEMMA HandStays ==
    ASSUME Inv, HardInv, Kept, Len(violations') = Len(violations),
           at \in {"block", "mark"} \/ at' = "block" => UNCHANGED <<at, user, vid, targets, blocked>>
    PROVE  HardInv'
<1>1. Recorded' = Recorded
    BY RowTypes, LenProperties DEF Kept, RowsStay, Recorded, Inv, DetectionInv
<1>2. NoHardLeftPending'
    BY <1>1, PendingBefore DEF HardInv, NoHardLeftPending, HardRow, Kept
<1>3. BlockInv'
    BY DEF HardInv, BlockInv, Kept
<1> QED
    BY <1>2, <1>3 DEF HardInv

\* The violation in hand is let go of, when its user is excused or it is closed.
LEMMA HandLetsGo ==
    ASSUME Inv, HardInv, Kept, Len(violations') = Len(violations),
           at \in {"block", "mark"} => user \in excused' \/ violations'[vid].action # "none",
           at' # "block"
    PROVE  HardInv'
<1>1. Recorded' = Recorded
    BY RowTypes, LenProperties DEF Kept, RowsStay, Recorded, Inv, DetectionInv
<1>2. NoHardLeftPending'
    <2>1. ASSUME NEW v \in Recorded', HardRow(v)'
          PROVE  violations'[v].user \in excused'
        <3>1. HardRow(v) /\ violations'[v].user = violations[v].user
            BY <1>1, <2>1, PendingBefore
        <3>2. CASE v = vid /\ at \in {"block", "mark"}
            BY <2>1, <3>1, <3>2 DEF Inv, DetectionInv, InHand, Pending, HardRow
        <3>3. CASE violations[v].user \in excused
            BY <3>1, <3>3 DEF Kept
        <3> QED
            BY <1>1, <3>1, <3>2, <3>3 DEF HardInv, NoHardLeftPending, HardRow
    <2> QED
        BY <2>1 DEF NoHardLeftPending, HardRow
<1>3. BlockInv'
    BY DEF BlockInv
<1> QED
    BY <1>2, <1>3 DEF HardInv

\* Another violator is saved: a hard verdict's row is in hand from the start.
LEMMA SaveTakesInHand ==
    ASSUME Inv, HardInv, Save
    PROVE  HardInv'
<1>1. Kept
    BY SaveKeeps DEF Inv
<1>2. at = "save"
    BY DEF Save
<1>3. PICK u \in remaining :
         \/ NextViolator(remaining \ {u}) /\ UNCHANGED violations
         \/ /\ Insert(u, verdict[u], "worker")
            /\ \/ /\ at' = "block"
                  /\ user' = u
                  /\ vid' = Len(violations) + 1
                  /\ \E others \in Accomplices : targets' = {u} \cup others
               \/ /\ NextViolator(remaining \ {u})
                  /\ verdict[u] >= Hard => Fault({u})
    BY DEF Save, Broadcast
<1>4. CASE NextViolator(remaining \ {u}) /\ UNCHANGED violations
    <2>1. at' # "block"
        BY <1>4 DEF NextViolator, LetGo
    <2> QED
        BY <1>1, <1>2, <1>4, <2>1, HandLetsGo
<1>5. CASE /\ Insert(u, verdict[u], "worker")
           /\ \/ /\ at' = "block"
                 /\ user' = u
                 /\ vid' = Len(violations) + 1
                 /\ \E others \in Accomplices : targets' = {u} \cup others
              \/ /\ NextViolator(remaining \ {u})
                 /\ verdict[u] >= Hard => Fault({u})
    <2> DEFINE n == Len(violations) + 1
    <2>1. u \in Users /\ verdict[u] \in Scores
        BY <1>2 DEF Inv, DetectionInv, DetectionTypeOK, InHand
    <2>2. /\ RowsStay /\ Len(violations') = n
          /\ violations'[n] = [user |-> u, score |-> verdict[u], recent |-> TRUE, action |-> "none",
                  by |-> "worker"]
        BY <1>5, <2>1, InsertKeeps DEF Inv, DetectionInv
    <2>3. violations'[n].score = verdict[u] /\ violations'[n].user = u
        BY <2>2
    <2>4. Recorded' = Recorded \cup {n}
        BY <2>2, RowTypes, LenProperties DEF RowsStay, Recorded, Inv, DetectionInv
    <2>5. \/ at' = "block" /\ vid' = n /\ user' \in targets'
          \/ at' # "block" /\ (verdict[u] >= Hard => u \in excused')
        BY <1>5 DEF NextViolator, LetGo, Fault
    <2> HIDE DEF n
    <2>6. \A v \in Recorded : HardRow(v)' => violations'[v].user \in excused'
        BY <1>1, <1>2, PendingBefore DEF HardInv, NoHardLeftPending, HardRow, Kept
    <2>7. NoHardLeftPending'
        BY <2>3, <2>4, <2>5, <2>6 DEF NoHardLeftPending, HardRow
    <2>8. BlockInv'
        BY <2>5 DEF BlockInv
    <2> QED
        BY <2>7, <2>8 DEF HardInv
<1> QED
    BY <1>3, <1>4, <1>5

LEMMA BlockKeepsInHand ==
    ASSUME Inv, HardInv, Block
    PROVE  HardInv'
<1>1. Kept /\ Len(violations') = Len(violations)
    BY BlockKeeps DEF Inv
<1>2. PICK u \in targets : BlockedOne(u) /\ (user \in targets => u = user)
    BY BlockOne DEF Inv, DetectionInv
<1>3. at = "block" /\ excused \subseteq excused'
    BY <1>1 DEF Block, Kept
<1>4. CallFails(u, "DISABLED", "permanent") => u \in excused'
    BY DEF CallFails, Fault
<1>5. CASE Broadcast(vid, remaining) /\ CallFails(u, "DISABLED", "permanent") /\ blocked = FALSE
    <2>1. at' # "block"
        BY <1>5 DEF Broadcast, NextViolator, LetGo
    <2>2. user \in excused'
        BY <1>2, <1>3, <1>4, <1>5 DEF HardInv, BlockInv
    <2> QED
        BY <1>1, <2>1, <2>2, HandLetsGo
<1>6. CASE /\ at' \in {"block", "mark"} /\ UNCHANGED <<user, vid>>
           /\ targets' = targets \ {u}
           /\ \/ blocked' = TRUE
              \/ CallFails(u, "DISABLED", "permanent") /\ UNCHANGED blocked
    <2>1. Recorded' = Recorded
        BY <1>1, RowTypes, LenProperties DEF Kept, RowsStay, Recorded, Inv, DetectionInv
    <2>2. NoHardLeftPending'
        BY <1>1, <1>3, <1>6, <2>1, PendingBefore DEF HardInv, NoHardLeftPending, HardRow
    <2>3. BlockInv'
        BY <1>2, <1>3, <1>4, <1>6 DEF HardInv, BlockInv
    <2> QED
        BY <2>2, <2>3 DEF HardInv
<1> QED
    BY <1>2, <1>5, <1>6 DEF BlockedOne

\* What another detector saves is none of the worker's.
LEMMA OtherTakesNothing ==
    ASSUME Inv, HardInv, Kept, NEW u \in Watched, OtherSave(u)
    PROVE  HardInv'
<1> DEFINE n == Len(violations) + 1
<1>1. PICK score \in Scores, by \in {"torrent", "traffic"} : Insert(u, score, by)
    BY OtherInserts DEF Inv
<1>2. u \in Users /\ UNCHANGED <<excused, detection>>
    BY OtherInserts DEF Inv
<1>3. /\ RowsStay /\ Len(violations') = n
      /\ violations'[n] = [user |-> u, score |-> score, recent |-> TRUE, action |-> "none", by |-> by]
    BY <1>1, <1>2, InsertKeeps DEF Inv, DetectionInv
<1>4. violations'[n].by # "worker"
    BY <1>3
<1>5. Recorded' = Recorded \cup {n}
    BY <1>3, RowTypes, LenProperties DEF RowsStay, Recorded, Inv, DetectionInv
<1> HIDE DEF n
<1>6. NoHardLeftPending'
    BY <1>2, <1>4, <1>5, PendingBefore
    DEF HardInv, NoHardLeftPending, HardRow, detection, worker
<1>7. BlockInv'
    BY <1>2 DEF HardInv, BlockInv, detection, worker
<1> QED
    BY <1>6, <1>7 DEF HardInv

LEMMA NextKeepsHard ==
    ASSUME Inv, HardInv, Next
    PROVE  HardInv'
<1>1. Kept
    BY NextKeeps
<1>2. CASE (AdminNext \/ AutomationNext) /\ UNCHANGED detection
    <2>1. Len(violations') = Len(violations)
        BY <1>2, AdminKeeps, AutomationKeeps DEF Inv, DetectionInv
    <2> QED
        BY <1>1, <1>2, <2>1, HandStays DEF detection, worker
<1>3. CASE TakeBatch \/ CheckBatch \/ ReadInfo \/ BatchFails \/ \E u \in Watched : Enqueue(u)
    <2>1. Len(violations') = Len(violations)
        BY <1>3, BatchKeeps DEF Inv
    <2>2. at \in {"block", "mark"} \/ at' = "block" => UNCHANGED <<at, user, vid, targets, blocked>>
        BY <1>3 DEF TakeBatch, CheckBatch, ReadInfo, BatchFails, Enqueue, LetGo
    <2> QED
        BY <1>1, <2>1, <2>2, HandStays
<1>4. CASE MarkResolved
    <2>1. Len(violations') = Len(violations) /\ at' # "block"
        BY <1>4, MarkKeeps DEF MarkResolved, Broadcast, NextViolator, LetGo, Inv
    <2>2. user \in excused' \/ violations'[vid].action # "none"
        <3>1. CASE Update(vid, "hard_block")
            <4>1. vid \in Recorded
                BY <1>4 DEF MarkResolved, Inv, DetectionInv, InHand
            <4>2. violations'[vid] = Closed(vid, "hard_block")
                BY <3>1, <4>1, UpdateKeeps DEF Inv, DetectionInv
            <4> QED
                BY <4>1, <4>2, RowTypes DEF Closed, Violations, Inv, DetectionInv
        <3>2. CASE Fault({user})
            BY <3>2 DEF Fault
        <3> QED
            BY <1>4, <3>1, <3>2 DEF MarkResolved
    <2> QED
        BY <1>1, <2>1, <2>2, HandLetsGo
<1>5. CASE Crash
    <2>1. Len(violations') = Len(violations) /\ at' # "block"
        BY <1>5, CrashKeeps DEF Crash, LetGo
    <2>2. at \in {"block", "mark"} => user \in excused'
        BY <1>5, NoUserAssumption DEF Crash, Fault, Held, Inv, DetectionInv, InHand
    <2> QED
        BY <1>1, <2>1, <2>2, HandLetsGo
<1>6. CASE \E u \in Watched : OtherSave(u)
    BY <1>1, <1>6, OtherTakesNothing
<1> QED
    BY <1>2, <1>3, <1>4, <1>5, <1>6, SaveTakesInHand, BlockKeepsInHand
    DEF Next, DetectionNext, WorkerStep, OtherSave

LEMMA HardInvariance == Spec => []HardInv
<1>1. Init => HardInv
    BY DEF Init, AccountsInit, DetectionInit, WorkerInit, HardInv, NoHardLeftPending, BlockInv, Recorded
<1>2. Inv /\ HardInv /\ [Next]_vars => HardInv'
    <2> SUFFICES ASSUME HardInv, UNCHANGED vars
                 PROVE  HardInv'
        BY NextKeepsHard
    <2> QED
        BY DEF vars, told, accounts, detection, worker, HardInv, NoHardLeftPending, BlockInv,
               Recorded, Pending
<1> QED
    BY <1>1, <1>2, Invariance, PTL DEF Spec

\* A violation of the worker's that calls for a hard block is pending only
\* while the worker has it in hand (_handle_violation), unless a call for the
\* user failed or was cut short: the row is closed, or the failure is on record,
\* before the worker turns to the next violator, and a restart excuses whom it
\* interrupts.  What the other detectors save is left to an operator.
THEOREM HardIsNotLeft == Spec => []NoHardLeftPending
<1>1. HardInv => NoHardLeftPending
    BY DEF HardInv
<1> QED
    BY <1>1, HardInvariance, PTL

\* What a violation of another detector's, at least as bad, stands in the way of.
HeldByAnother(u) ==
    \E v \in Waiting(u) : violations[v].by # "worker" /\ violations[v].score >= verdict[u]

LEMMA VerdictCounts ==
    ASSUME Inv, HardInv, WaitingInv, Next,
           NEW u \in remaining \ info, at = "save", u \notin remaining', verdict[u] >= Hard
    PROVE  Len(violations') > Len(violations) \/ u \in excused' \/ HeldByAnother(u)
<1>1. Kept /\ u \in Users
    BY NextKeeps DEF Inv, DetectionInv, DetectionTypeOK
<1>2. CASE Save
    <2>1. PICK w \in remaining :
             \/ w \in info /\ NextViolator(remaining \ {w})
             \/ Insert(w, verdict[w], "worker")
             \/ Duplicate(w, verdict[w]) /\ NextViolator(remaining \ {w})
             \/ NextViolator(remaining \ {w}) /\ Fault({w})
        BY <1>2 DEF Save
    <2>2. CASE Insert(w, verdict[w], "worker")
        <3>1. w \in Users /\ verdict[w] \in Scores
            BY <1>2 DEF Save, Inv, DetectionInv, DetectionTypeOK, InHand
        <3>2. Len(violations') = Len(violations) + 1 /\ Len(violations) \in Nat
            BY <2>2, <3>1, InsertKeeps, RowTypes DEF Inv, DetectionInv
        <3> QED
            BY <3>2
    <2>3. CASE NextViolator(remaining \ {w})
        <3>1. u = w
            BY <2>3 DEF NextViolator, LetGo
        <3>2. CASE Duplicate(u, verdict[u])
            <4>1. /\ Newest(u) \in Waiting(u)
                  /\ violations[Newest(u)].score >= verdict[u]
                BY <1>1, <3>2, NewestIsLast DEF Duplicate, Inv, DetectionInv
            <4>2. /\ Pending(Newest(u)) /\ Newest(u) \in Recorded
                  /\ violations[Newest(u)].user = u
                BY <4>1 DEF Waiting, WaitingInv, RecentPending
            <4>3. violations[Newest(u)].score >= Hard
                <5>1. violations[Newest(u)].score \in 1..3 /\ verdict[u] \in 0..3
                    BY <1>1, <4>2, RowTypes
                    DEF Inv, DetectionInv, DetectionTypeOK, Violations, Scores, Soft, Hard, Top
                <5> QED
                    BY <4>1, <5>1 DEF Hard
            <4>4. CASE violations[Newest(u)].by = "worker"
                <5>1. u \in excused
                    BY <4>2, <4>3, <4>4 DEF HardInv, NoHardLeftPending
                <5> QED
                    BY <1>1, <5>1 DEF Kept
            <4>5. CASE violations[Newest(u)].by # "worker"
                BY <4>1, <4>5 DEF HeldByAnother
            <4> QED
                BY <4>4, <4>5
        <3>3. CASE Fault({w})
            BY <3>1, <3>3 DEF Fault
        <3> QED
            BY <2>1, <2>2, <3>1, <3>2, <3>3
    <2> QED
        BY <2>1, <2>2, <2>3
<1>3. CASE Crash
    BY <1>3 DEF Crash, Fault, Held
<1>4. CASE UNCHANGED remaining
    BY <1>4
<1> QED
    BY <1>2, <1>3, <1>4
    DEF Next, DetectionNext, WorkerStep, TakeBatch, CheckBatch, ReadInfo, Block, MarkResolved,
        BatchFails, Enqueue, SaveTorrent, SaveTraffic, detection, worker

\* When the worker comes to a hard verdict it is recorded as a violation, or a
\* call for the user had failed (save_violation, _handle_violation), or dedup
\* holds it for one another detector saved and no operator has dealt with: it
\* never lets one fall for a violation of the worker's own.
THEOREM HardCounts == Spec => HardVerdictCounts
<1>1. Inv /\ HardInv /\ WaitingInv /\ [Next]_vars =>
          [\A u \in remaining \ info :
               /\ at = "save" /\ u \notin remaining' /\ verdict[u] >= Hard
               => \/ Len(violations') > Len(violations)
                  \/ u \in excused'
                  \/ \E v \in Waiting(u) : /\ violations[v].by # "worker"
                                           /\ violations[v].score >= verdict[u]]_vars
    BY VerdictCounts DEF HeldByAnother
<1> QED
    BY <1>1, Invariance, HardInvariance, WaitingInvariance, PTL DEF Spec, HardVerdictCounts
=============================================================================
