----------------------------- MODULE Automation -----------------------------
(***************************************************************************)
(* One automation rule on violation.detected                               *)
(* (web/backend/core/automation_engine.py, web/backend/core/automation.py):*)
(* the task that a violation starts, which carries out the rule's chain of *)
(* actions or puts delayed ones into automation_pending_actions, and the   *)
(* engine's loop, which claims the rows that are due and carries them out. *)
(* Rules are independent but for the accounts they act on; one is enough   *)
(* for the hazards here.  Its steps are warnings and blocks, for good or   *)
(* for a time.  A row may become due at any moment after it was stored.    *)
(***************************************************************************)
EXTENDS Accounts

CONSTANTS
    Chains,  \* rules: the main action and extra_actions, in order
    NoRow    \* the loop has no row in hand

ASSUME ChainsAssumption ==
    \A c \in Chains :
        /\ c \in Seq([act : {"warn", "block"}, delayed : BOOLEAN, timed : BOOLEAN])
        /\ c # << >>
        /\ ~c[1].delayed
ASSUME NoRowAssumption ==
    NoRow \notin [action : {"chain_step", "enable_user"}, user : Users, viol : Ids, step : Nat,
                  answered : BOOLEAN, late : BOOLEAN]

VARIABLES
    chain,            \* the rule's chain
    enabled,          \* the rule's is_enabled
    locks,            \* users with a row in automation_trigger_locks
    task,             \* what each violation's task does
    pending_actions,  \* rows of automation_pending_actions not done
    loop,             \* where the engine's loop stands
    claimed,          \* rows claimed (done_at is set) and not taken up yet
    item              \* the row in hand

engine == <<loop, claimed, item>>
automation == <<chain, enabled, locks, task, pending_actions, engine>>

Steps == DOMAIN chain

\* answered: the client has written to support since the row was stored.
\* history: late: the step was called off before the loop claimed it.
Rows == [action : {"chain_step", "enable_user"}, user : Users, viol : Ids, step : Steps,
         answered : BOOLEAN, late : BOOLEAN]
NoTask == [at |-> "none", step |-> 1, hold |-> FALSE]

AutomationTypeOK ==
    /\ chain \in Chains
    /\ enabled \in BOOLEAN
    /\ locks \subseteq Users
    /\ task \in [Ids -> [at : {"none", "run", "unblock"}, step : Steps, hold : BOOLEAN]]
    /\ pending_actions \subseteq Rows
    /\ loop \in {"idle", "check", "act", "unblock", "enable", "finish"}
    /\ claimed \subseteq Rows
    /\ item \in Rows \cup {NoRow}

AutomationInit ==
    /\ chain \in Chains
    /\ enabled = TRUE
    /\ locks = {}
    /\ task = [v \in Ids |-> NoTask]
    /\ pending_actions = {}
    /\ loop = "idle"
    /\ claimed = {}
    /\ item = NoRow

Row(action, v, k) ==
    [action |-> action, user |-> violations[v].user, viol |-> v, step |-> k,
     answered |-> FALSE, late |-> FALSE]

Decision(k) == IF chain[k].timed THEN "timed" ELSE "permanent"

----------------------------------------------------------------------------
(* The task of a violation: handle_event, _process_event_rule,             *)
(* _execute_action.                                                        *)

\* try_acquire_target takes the user's lock unless it is held, which a lock
\* taken before may still be; for nothing if the rule has been switched off.
\* Without the rule, the lock or the database nothing happens.
HandleEvent(v) ==
    LET u == violations[v].user
    IN  /\ v \in events
        /\ events' = events \ {v}
        /\ \/ /\ locks' = locks \cup {u}
              /\ task' = [task EXCEPT ![v].at = IF enabled THEN "run" ELSE @]
              /\ NoFault
           \/ /\ ~enabled \/ u \in locks
              /\ UNCHANGED <<locks, task>>
              /\ NoFault
           \/ /\ Fault({})
              /\ UNCHANGED <<locks, task>>
        /\ UNCHANGED <<chain, enabled, pending_actions, engine, moves, status, mirror, violations,
                       whitelist, resolving, ban>>

\* (Mutant: the end of the chain is missed.)
OnwardPastTheEnd(v, hold) ==
    task' = [task EXCEPT ![v] =
        IF @.step > Len(chain) THEN NoTask
        ELSE [at |-> "run", step |-> @.step + 1, hold |-> @.hold \/ hold]]

\* On to the next step of the chain, or the end.
Onward(v, hold) ==
    task' = [task EXCEPT ![v] =
        IF @.step = Len(chain) THEN NoTask
        ELSE [at |-> "run", step |-> @.step + 1, hold |-> @.hold \/ hold]]

\* After an error: the extra actions are dropped when the main one failed.
OnwardAfterError(v, hold) ==
    IF task[v].step = 1 THEN task' = [task EXCEPT ![v] = NoTask] ELSE Onward(v, hold)

Immediate(v) == task[v].at = "run" /\ (task[v].step = 1 \/ ~chain[task[v].step].delayed)

\* warn_user: delivered (now or before), not delivered, or failed.
Warn(v) ==
    /\ Immediate(v) /\ chain[task[v].step].act = "warn"
    /\ Onward(v, FALSE) \/ Onward(v, TRUE) \/ OnwardAfterError(v, TRUE)
    /\ UNCHANGED <<chain, enabled, locks, pending_actions, engine, told>>

\* disable_user and block_user: no look at the account, and then the row that
\* is to enable it again.
BlockNow(v) ==
    /\ Immediate(v) /\ chain[task[v].step].act = "block"
    /\ \/ /\ DisableUser(violations[v].user, Decision(task[v].step))
          /\ IF chain[task[v].step].timed
             THEN task' = [task EXCEPT ![v].at = "unblock"]
             ELSE Onward(v, FALSE)
       \/ /\ CallFails(violations[v].user, "DISABLED", Decision(task[v].step))
          /\ OnwardAfterError(v, FALSE)
    /\ UNCHANGED <<mirror, violations, whitelist, resolving, events, moves, chain, enabled, locks,
                   pending_actions, engine>>

\* _schedule_unblock
ScheduleUnblock(v) ==
    /\ task[v].at = "unblock"
    /\ \/ /\ pending_actions' = pending_actions \cup {Row("enable_user", v, task[v].step)}
          /\ Onward(v, FALSE)
          /\ NoFault
       \/ /\ Fault({violations[v].user})
          /\ OnwardAfterError(v, FALSE)
          /\ \/ UNCHANGED pending_actions
             \/ pending_actions' = pending_actions \cup {Row("enable_user", v, task[v].step)}
    /\ UNCHANGED <<status, mirror, violations, whitelist, resolving, ban, events, moves, chain, enabled,
                   locks, engine>>

\* _schedule_step: not after a failed warning, and one row of this step for
\* the user at a time (the unique index).  A database error ends the task.
ScheduleStep(v) ==
    LET k == task[v].step
        already == \E r \in pending_actions : /\ r.action = "chain_step"
                                              /\ r.user = violations[v].user
                                              /\ r.step = k
    IN  /\ task[v].at = "run" /\ ~Immediate(v)
        /\ \/ /\ pending_actions' = IF task[v].hold \/ already THEN pending_actions
                                    ELSE pending_actions \cup {Row("chain_step", v, k)}
              /\ Onward(v, FALSE)
              /\ NoFault
           \/ /\ ~task[v].hold
              /\ Fault({})
              /\ task' = [task EXCEPT ![v] = NoTask]
              /\ UNCHANGED pending_actions
        /\ UNCHANGED <<chain, enabled, locks, engine, events, moves, status, mirror, violations,
                       whitelist, resolving, ban>>

----------------------------------------------------------------------------
(* The loop: _run_pending_actions.                                         *)

Take(label, row) == loop' = label /\ item' = row

CalledOff(r) ==
    r.action = "chain_step" /\ (~Pending(r.viol) \/ r.answered)

\* The loop takes up one of rows, which it has claimed, or rests.
TakeUp(rows) ==
    \/ rows = {} /\ Take("idle", NoRow) /\ claimed' = {}
    \/ \E r \in rows :
           /\ claimed' = rows \ {r}
           /\ Take(IF r.action = "chain_step" THEN "check" ELSE "enable", r)

\* claim_due_actions: the rows are marked done before anything is done.
Claim ==
    /\ loop = "idle"
    /\ \E due \in SUBSET pending_actions \ {{}} :
           /\ TakeUp({[r EXCEPT !.late = CalledOff(r)] : r \in due})
           /\ pending_actions' = pending_actions \ due
    /\ UNCHANGED <<chain, enabled, locks, task, told>>

\* (Mutant: the violation is not looked at again.)
BlockerForgetsViolation(r) ==
    \/ chain[r.step].act = "block" /\ mirror[r.user] = "DISABLED"
    \/ r.user \in whitelist
    \/ r.answered

\* _step_blocker: reasons for which a delayed step is not carried out.
StepBlocker(r) ==
    \/ ~Pending(r.viol)
    \/ chain[r.step].act = "block" /\ mirror[r.user] = "DISABLED"
    \/ r.user \in whitelist
    \/ r.answered

\* _run_chain_step, the checks; an error in them is a skip as well.
CheckStep ==
    /\ loop = "check"
    /\ \/ enabled /\ ~StepBlocker(item) /\ Take("act", item) /\ NoFault
       \/ (~enabled \/ StepBlocker(item)) /\ Take("finish", item) /\ NoFault
       \/ Take("finish", item) /\ Fault({})
    /\ UNCHANGED <<chain, enabled, locks, task, pending_actions, claimed, events, moves, status,
                   mirror, violations, whitelist, resolving, ban>>

\* (Mutant: a delayed block is never given an end.)
ActWithoutEnd ==
    /\ loop = "act"
    /\ IF chain[item.step].act = "block"
       THEN \/ DisableUser(item.user, Decision(item.step))
            \/ CallFails(item.user, "DISABLED", Decision(item.step))
       ELSE UNCHANGED <<status, ban>> /\ NoFault
    /\ Take("finish", item)
    /\ UNCHANGED <<mirror, violations, whitelist, resolving, events, moves, chain, enabled, locks, task,
                   pending_actions, claimed>>

\* _execute_single of a delayed step.
Act ==
    /\ loop = "act"
    /\ \/ /\ chain[item.step].act = "block"
          /\ DisableUser(item.user, Decision(item.step))
          /\ Take(IF chain[item.step].timed THEN "unblock" ELSE "finish", item)
       \/ /\ chain[item.step].act = "block"
          /\ CallFails(item.user, "DISABLED", Decision(item.step))
          /\ Take("finish", item)
       \/ /\ chain[item.step].act = "warn"
          /\ Take("finish", item)
          /\ NoFault \/ Fault({})
          /\ UNCHANGED <<status, ban>>
    /\ UNCHANGED <<mirror, violations, whitelist, resolving, events, moves, chain, enabled, locks, task,
                   pending_actions, claimed>>

ActSchedulesUnblock ==
    /\ loop = "unblock"
    /\ \/ /\ pending_actions' = pending_actions \cup {Row("enable_user", item.viol, item.step)}
          /\ NoFault
       \/ /\ Fault({item.user})
          /\ \/ UNCHANGED pending_actions
             \/ pending_actions' = pending_actions \cup {Row("enable_user", item.viol, item.step)}
    /\ Take("finish", item)
    /\ UNCHANGED <<status, mirror, violations, whitelist, resolving, ban, events, moves, chain, enabled,
                   locks, task, claimed>>

\* enable_user: whoever has blocked the account since.
Enable ==
    /\ loop = "enable"
    /\ EnableUser(item.user) \/ CallFails(item.user, "ACTIVE", "none")
    /\ Take("finish", item)
    /\ UNCHANGED <<mirror, violations, whitelist, resolving, events, moves, chain, enabled, locks, task,
                   pending_actions, claimed>>

\* finish_pending_action; an error leaves the loop with the rest of the claim.
Finish ==
    /\ loop = "finish"
    /\ \/ TakeUp(claimed) /\ NoFault
       \/ /\ Take("idle", NoRow)
          /\ claimed' = {}
          /\ Fault({r.user : r \in claimed})
    /\ UNCHANGED <<status, mirror, violations, whitelist, resolving, ban, events, moves, chain, enabled,
                   locks, task, pending_actions>>

----------------------------------------------------------------------------

\* An operator switches the rule off or on.
ToggleRule ==
    /\ Move
    /\ enabled' = ~enabled
    /\ UNCHANGED <<chain, locks, task, pending_actions, engine, accounts, events>>

\* The client writes to support: support_contact_since sees it for the steps
\* stored before.
ClientWrites(u) ==
    LET Seen(r) == IF r.action = "chain_step" /\ r.user = u
                   THEN [r EXCEPT !.answered = TRUE] ELSE r
    IN  /\ Move
        /\ pending_actions' = {Seen(r) : r \in pending_actions}
        /\ claimed' = {Seen(r) : r \in claimed}
        /\ item' = IF item = NoRow THEN NoRow ELSE Seen(item)
        /\ <<pending_actions, claimed, item>>' # <<pending_actions, claimed, item>>
        /\ UNCHANGED <<chain, enabled, locks, task, loop, accounts, events>>

TaskStep(v) == Warn(v) \/ BlockNow(v) \/ ScheduleUnblock(v) \/ ScheduleStep(v)

LoopStep == \/ CheckStep \/ Act \/ ActSchedulesUnblock \/ Enable \/ Finish

AutomationNext ==
    \/ \E v \in Recorded : HandleEvent(v) \/ TaskStep(v)
    \/ Claim \/ LoopStep
    \/ ToggleRule
    \/ \E u \in Users : ClientWrites(u)
=============================================================================
