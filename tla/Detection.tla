----------------------------- MODULE Detection ------------------------------
(***************************************************************************)
(* The violation worker of the collector (web/backend/api/v2/collector.py):*)
(* users whose connections arrived wait in a set, one worker takes them in *)
(* batches, scores them and handles each violator: it saves the violation, *)
(* disables the account (and those of accomplices) on a hard score, marks  *)
(* the violation as resolved and tells the automation engine.  Every await *)
(* lets an operator or the engine in; each is a step of its own.           *)
(*                                                                         *)
(* Two other detectors save violations of their own, and leave them to an  *)
(* operator: the torrent check of the collector and the traffic monitor.   *)
(*                                                                         *)
(* The scores are the analysers' and may be anything.  Settings are at     *)
(* their defaults: violation_auto_hard_block on, violation_auto_soft_      *)
(* throttle and the blacklists off, torrents and traffic only notified.    *)
(***************************************************************************)
EXTENDS Accounts

CONSTANTS
    Watched,      \* accounts whose connections the nodes report
    ChunkSize,    \* violation_chunk_size
    Accomplices,  \* sets of accounts an analyser may name as accomplices
    NoUser        \* the worker handles nobody

ASSUME WatchedAssumption == Watched \subseteq Users
ASSUME ChunkSizeAssumption == ChunkSize \in Nat \ {0}
ASSUME AccomplicesAssumption == Accomplices \subseteq SUBSET Users
ASSUME NoUserAssumption == NoUser \notin Users

VARIABLES
    pending_violation_users,  \* waiting for a check
    cooldown,                 \* users with an entry in _violation_check_cooldown
    at,                       \* where the worker stands
    remaining,                \* the batch, then the violators left to handle
    verdict,                  \* scores of the violators of the batch (0: none)
    info,                     \* violators whose row said DISABLED when read
    user,                     \* the violator in hand
    vid,                      \* its violation, once saved
    targets,                  \* accounts left to disable for it
    blocked                   \* blocked_count is positive

worker == <<at, remaining, verdict, info, user, vid, targets, blocked>>
detection == <<pending_violation_users, cooldown, worker>>

NoVerdict == [u \in Users |-> 0]

DetectionTypeOK ==
    /\ pending_violation_users \subseteq Users
    /\ cooldown \subseteq Users
    /\ at \in {"none", "idle", "check", "info", "save", "block", "mark"}
    /\ remaining \subseteq Users
    /\ verdict \in [Users -> Scores \cup {0}]
    /\ info \subseteq Users
    /\ user \in Users \cup {NoUser}
    /\ vid \in 0..Len(violations)
    /\ targets \subseteq Users
    /\ blocked \in BOOLEAN

WorkerInit(label) ==
    /\ at = label
    /\ remaining = {}
    /\ verdict = NoVerdict
    /\ info = {}
    /\ user = NoUser
    /\ vid = 0
    /\ targets = {}
    /\ blocked = FALSE

DetectionInit ==
    /\ pending_violation_users = {}
    /\ cooldown = {}
    /\ WorkerInit("none")

\* The worker lets go of everything it holds.
LetGo(label) ==
    /\ at' = label
    /\ remaining' = {}
    /\ verdict' = NoVerdict
    /\ info' = {}
    /\ user' = NoUser
    /\ vid' = 0
    /\ targets' = {}
    /\ blocked' = FALSE

\* On to the next violator of the batch, of whom rest are left.
NextViolator(rest) ==
    IF rest = {} THEN LetGo("idle")
    ELSE /\ at' = "save"
         /\ remaining' = rest
         /\ user' = NoUser
         /\ vid' = 0
         /\ targets' = {}
         /\ blocked' = FALSE
         /\ UNCHANGED <<verdict, info>>

----------------------------------------------------------------------------

\* receive_connections stored some connections of u: _enqueue_violation_users,
\* which starts the worker unless it runs.
Enqueue(u) ==
    /\ u \notin pending_violation_users
    /\ pending_violation_users' = pending_violation_users \cup {u}
    /\ at' = IF at = "none" THEN "idle" ELSE at
    /\ UNCHANGED <<remaining, verdict, info, user, vid, targets, blocked, cooldown, told>>

TakeBatch ==
    /\ at = "idle"
    /\ \E batch \in SUBSET pending_violation_users \ {{}} :
           /\ \/ Cardinality(batch) = ChunkSize
              \/ Cardinality(batch) < ChunkSize /\ batch = pending_violation_users
           /\ remaining' = batch
           /\ pending_violation_users' = pending_violation_users \ batch
    /\ at' = "check"
    /\ UNCHANGED <<verdict, info, user, vid, targets, blocked, cooldown, told>>

\* Users whose last check is too recent, which is left open, and users in the
\* whitelist are left out; check_users_batch scores the others, and they go on
\* cooldown before anything is done about the violators.  The analysers change
\* nothing the others see.  (Bound: there is room for the violations.)
CheckBatch ==
    /\ at = "check"
    /\ \E skipped \in SUBSET (remaining \cap cooldown) :
           LET checked == (remaining \ skipped) \ whitelist
           IN  \E scores \in [checked -> Scores \cup {0}] :
                   LET violators == {u \in checked : scores[u] > 0}
                   IN  /\ Len(violations) + Cardinality(violators) <= MaxViolations
                       /\ cooldown' = cooldown \cup checked
                       /\ IF violators = {} THEN LetGo("idle")
                          ELSE /\ verdict' = [u \in Users |->
                                      IF u \in violators THEN scores[u] ELSE 0]
                               /\ remaining' = violators
                               /\ at' = "info"
                               /\ UNCHANGED <<info, user, vid, targets, blocked>>
    /\ UNCHANGED <<pending_violation_users, told>>

\* batch_get_users_info: on an error no user has a status.
ReadInfo ==
    /\ at = "info"
    /\ \/ info' = {u \in remaining : mirror[u] = "DISABLED"} /\ NoFault
       \/ info' = {} /\ Fault({})
    /\ at' = "save"
    /\ UNCHANGED <<status, mirror, violations, whitelist, resolving, ban, events, moves,
                   remaining, verdict, user, vid, targets, blocked,
                   pending_violation_users, cooldown>>

\* An exception between the pop and the violators: the batch is given up.
BatchFails ==
    /\ at \in {"check", "info"}
    /\ LetGo("idle")
    /\ Fault(remaining)
    /\ UNCHANGED <<status, mirror, violations, whitelist, resolving, ban,
                   pending_violation_users, cooldown, events, moves>>

\* broadcast_violation, which ends the handling of violation v: a task for the
\* engine, not awaited.
Broadcast(v, rest) ==
    /\ events' = events \cup {v}
    /\ NextViolator(rest)

\* _handle_violation: a violator whose row said DISABLED is left alone; for
\* another save_violation inserts a row, or does not, and a hard score is a
\* case for the block, with the accomplices the analyser named.
Save ==
    /\ at = "save"
    /\ \E u \in remaining :
           \/ /\ u \in info
              /\ NextViolator(remaining \ {u})
              /\ UNCHANGED <<violations, events>> /\ NoFault
           \/ /\ u \notin info
              /\ Insert(u, verdict[u], "worker")
              /\ IF verdict[u] >= Hard
                 THEN /\ at' = "block"
                      /\ user' = u
                      /\ vid' = Len(violations) + 1
                      /\ \E others \in Accomplices : targets' = {u} \cup others
                      /\ remaining' = remaining \ {u}
                      /\ UNCHANGED <<verdict, info, blocked, events>>
                 ELSE Broadcast(Len(violations) + 1, remaining \ {u})
              /\ NoFault
           \/ /\ u \notin info
              /\ Duplicate(u, verdict[u])
              /\ NextViolator(remaining \ {u})
              /\ UNCHANGED <<violations, events>> /\ NoFault
           \/ \* the database fails: (None, False), whether or not the row is there
              /\ u \notin info
              /\ NextViolator(remaining \ {u})
              /\ Insert(u, verdict[u], "worker") \/ UNCHANGED violations
              /\ UNCHANGED events /\ Fault({u})
    /\ UNCHANGED <<status, mirror, whitelist, resolving, ban, moves,
                   pending_violation_users, cooldown>>

\* (Mutant: the violation is not closed after the block.)
BlockWithoutMark ==
    /\ at = "block"
    /\ \E u \in targets :
           /\ user \in targets => u = user
           /\ DisableUser(u, "permanent") \/ CallFails(u, "DISABLED", "permanent")
           /\ IF targets = {u} THEN Broadcast(vid, remaining)
              ELSE /\ targets' = targets \ {u}
                   /\ UNCHANGED <<at, blocked, events, remaining, verdict, info, user, vid>>
    /\ UNCHANGED <<mirror, violations, whitelist, resolving, moves,
                   pending_violation_users, cooldown>>

\* disable_user for the violator, then for each accomplice; a failure is
\* logged.  After the last one the violation is closed if anybody was disabled.
Block ==
    /\ at = "block"
    /\ \E u \in targets :
           /\ user \in targets => u = user
           /\ \/ /\ DisableUser(u, "permanent")
                 /\ at' = IF targets = {u} THEN "mark" ELSE "block"
                 /\ targets' = targets \ {u}
                 /\ blocked' = TRUE
                 /\ UNCHANGED <<events, remaining, verdict, info, user, vid>>
              \/ /\ CallFails(u, "DISABLED", "permanent")
                 /\ targets # {u} \/ blocked
                 /\ at' = IF targets = {u} THEN "mark" ELSE "block"
                 /\ targets' = targets \ {u}
                 /\ UNCHANGED <<blocked, events, remaining, verdict, info, user, vid>>
              \/ /\ CallFails(u, "DISABLED", "permanent")
                 /\ targets = {u} /\ ~blocked
                 /\ Broadcast(vid, remaining)
    /\ UNCHANGED <<mirror, violations, whitelist, resolving, moves,
                   pending_violation_users, cooldown>>

\* The violation is marked as dealt with, whatever an operator made of it
\* meanwhile; a failure is logged.
MarkResolved ==
    /\ at = "mark"
    /\ \/ Update(vid, "hard_block") /\ NoFault
       \/ Fault({user}) /\ (Update(vid, "hard_block") \/ UNCHANGED violations)
    /\ Broadcast(vid, remaining)
    /\ UNCHANGED <<status, mirror, whitelist, resolving, ban, pending_violation_users,
                   cooldown, moves>>

WorkerStep == TakeBatch \/ CheckBatch \/ ReadInfo \/ Save \/ Block \/ MarkResolved

\* (Bound: the other detectors leave room for the violators in hand.)
Room == Len(violations) + Cardinality(remaining) < MaxViolations

\* _process_torrent_violations: enough torrent events of a user the whitelist
\* did not exclude when it looked; its own pauses of minutes are left out.  The
\* engine is told under another name.
SaveTorrent(u) ==
    /\ Move
    /\ Room
    /\ Insert(u, Top, "torrent")
    /\ UNCHANGED <<status, mirror, whitelist, resolving, ban, excused, faults, events, detection>>

\* TrafficRateMonitor: the score is the rate, and only webhooks are told.
SaveTraffic(u) ==
    /\ Move
    /\ Room
    /\ \E score \in Scores : Insert(u, score, "traffic")
    /\ UNCHANGED <<status, mirror, whitelist, resolving, ban, excused, faults, events, detection>>

DetectionNext ==
    \/ WorkerStep
    \/ BatchFails
    \/ \E u \in Watched : Enqueue(u) \/ SaveTorrent(u) \/ SaveTraffic(u)

\* Everyone in the worker's hands or waiting for it.
Held == pending_violation_users \cup remaining \cup targets \cup ({user} \ {NoUser})
=============================================================================
