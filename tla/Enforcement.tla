---------------------------- MODULE Enforcement -----------------------------
(***************************************************************************)
(* The detector, the automation engine and the operators together, each    *)
(* deciding about the same accounts.  The panel-admin backend may die at   *)
(* any moment: the tables and the panel survive, the queue of users, the   *)
(* worker, the tasks and the claimed rows do not.                          *)
(***************************************************************************)
EXTENDS Detection, Automation

vars == <<told, detection, automation>>

TypeOK ==
    /\ AccountsTypeOK
    /\ DetectionTypeOK
    /\ AutomationTypeOK

Init ==
    /\ AccountsInit
    /\ DetectionInit
    /\ AutomationInit

\* Users of tasks that run, and of rows the loop has claimed.
InTasks == {violations[v].user : v \in events \cup {w \in Recorded : task[w].at # "none"}}
InLoop == {r.user : r \in claimed \cup ({item} \ {NoRow})}

Crash ==
    /\ pending_violation_users' = {}
    /\ cooldown' = {}
    /\ LetGo("none")
    /\ events' = {}
    /\ task' = [v \in Ids |-> NoTask]
    /\ claimed' = {}
    /\ Take("idle", NoRow)
    /\ resolving' = 0
    /\ Fault(Held \cup InTasks \cup InLoop)
    /\ UNCHANGED <<status, mirror, violations, whitelist, ban, moves, chain, enabled, locks, pending_actions>>

Next ==
    \/ AdminNext /\ UNCHANGED <<detection, automation>>
    \/ DetectionNext /\ UNCHANGED automation
    \/ AutomationNext /\ UNCHANGED detection
    \/ Crash

Spec == Init /\ [][Next]_vars

----------------------------------------------------------------------------

\* Pending rows the worker has saved of one user in the dedup window are an
\* escalation, each with a higher score than the one before, through operators
\* who close rows between them and torrents; unless the traffic monitor, whose
\* rows are not compared, has saved one in between (save_violation).
PendingEscalates ==
    \A v, w \in Recorded :
        /\ v < w
        /\ violations[v].user = violations[w].user
        /\ violations[v].recent /\ violations[w].recent
        /\ violations[v].by = "worker"
        /\ violations[w].by = "worker"
        /\ \A x \in v..w : violations[x].user = violations[v].user => violations[x].by # "traffic"
        => violations[v].score < violations[w].score

\* A row of the worker's that calls for a hard block is pending only while the
\* worker has it in hand, unless a call for that user failed or was cut short:
\* otherwise dedup would let every later verdict fall (_handle_violation).
NoHardLeftPending ==
    \A v \in Recorded :
        Pending(v) /\ violations[v].by = "worker" /\ violations[v].score >= Hard =>
            \/ v = vid /\ at \in {"block", "mark"}
            \/ violations[v].user \in excused

\* A hard verdict the worker comes to is recorded, unless a call for the user
\* has failed, or dedup holds it for one with a torrent or with traffic that
\* an operator has not dealt with: a verdict of the worker's own never stands
\* in its way (save_violation, _handle_violation).
HardVerdictCounts ==
    [][\A u \in remaining \ info :
           /\ at = "save" /\ u \notin remaining' /\ verdict[u] >= Hard
           => \/ Len(violations') > Len(violations)
              \/ u \in excused'
              \/ \E v \in Waiting(u) : /\ violations[v].by # "worker"
                                       /\ violations[v].score >= verdict[u]]_vars

\* Whoever is blocked for a time has the enabling ahead: stored, claimed, or
\* about to be stored (_schedule_unblock, _run_pending_actions).
TimedBlockHasEnd ==
    \A u \in Users : ban[u] = "timed" =>
        \/ \E r \in pending_actions \cup claimed : r.action = "enable_user" /\ r.user = u
        \/ loop \in {"unblock", "enable"} /\ item.user = u
        \/ \E v \in Recorded : task[v].at = "unblock" /\ violations[v].user = u
        \/ u \in excused

\* A delayed step is not carried out when its violation had been closed, or
\* its client had written to support, before the loop claimed it (_step_blocker).
CalledOffHonoured ==
    loop \in {"act", "unblock"} => ~item.late

\* What is enabled when a timed block is over is that block: a decision to
\* block for good stands (_run_pending_actions; the purpose of _measure_state).
BanStands ==
    [][\A u \in Users : loop = "enable" /\ ban[u] = "permanent" => ban'[u] = "permanent"]_vars
=============================================================================
