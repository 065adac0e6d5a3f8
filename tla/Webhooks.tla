------------------------------ MODULE Webhooks ------------------------------
(***************************************************************************)
(* Delivery of events to the subscribed webhooks                           *)
(* (web/backend/core/webhook_security.py): the tasks of dispatch_event,    *)
(* the rows of webhook_retry_queue, the retry worker that deletes the due  *)
(* ones and tries them at once, the count of failures that switches a      *)
(* webhook off, the API that switches it on again or deletes it, and the   *)
(* events other processes put into the queue (shared/webhook_outbox.py).   *)
(***************************************************************************)
EXTENDS Naturals, FiniteSets

CONSTANTS
    Hooks,         \* webhook_subscriptions
    Events,        \* events, each fired once
    MaxAttempts,   \* WEBHOOK_MAX_ATTEMPTS
    DisableAfter,  \* WEBHOOK_AUTO_DISABLE_AFTER
    BatchSize,     \* LIMIT of the worker's query
    MaxMoves,      \* bound: operations of the API
    MaxFaults      \* bound: failures of the database and deaths of the backend

ASSUME EventsAssumption == IsFiniteSet(Events) /\ IsFiniteSet(Hooks)
ASSUME MaxAttemptsAssumption == MaxAttempts \in Nat \ {0}
ASSUME DisableAfterAssumption == DisableAfter \in Nat \ {0}
ASSUME BatchSizeAssumption == BatchSize \in Nat \ {0}
ASSUME BoundsAssumption == MaxMoves \in Nat /\ MaxFaults \in Nat

VARIABLES
    hook,                  \* "active", "disabled" or "deleted"
    consecutive_failures,  \* of each webhook
    at,                    \* where each delivery stands
    attempt,               \* its attempt: under way, or next
    batch,                 \* deliveries the worker gathers
    moves, faults,
    harmed,                \* history: deliveries that met a fault
    off,                   \* history: deliveries whose webhook was switched off meanwhile
    undecided              \* history: webhooks a fault kept from being disabled

subscriptions == <<hook, consecutive_failures>>
history == <<harmed, off, undecided>>
vars == <<subscriptions, at, attempt, batch, moves, faults, history>>

Deliveries == Hooks \X Events
HookOf(d) == d[1]

\* In the queue and in the hands of a task: from the re-read of the subscription
\* to the last write.  Ended: delivered, over after an attempt, or skipped before.
InHand == {"claimed", "sending", "answered", "failed", "disabling", "retry"}
Ended == {"delivered", "over", "skipped"}

TypeOK ==
    /\ hook \in [Hooks -> {"active", "disabled", "deleted"}]
    /\ consecutive_failures \in [Hooks -> Nat]
    /\ at \in [Deliveries -> {"none", "queued"} \cup InHand \cup Ended]
    /\ attempt \in [Deliveries -> 1..MaxAttempts]
    /\ batch \subseteq {d \in Deliveries : at[d] \in InHand}
    /\ moves \in 0..MaxMoves
    /\ faults \in 0..MaxFaults
    /\ harmed \subseteq Deliveries
    /\ off \subseteq Deliveries
    /\ undecided \subseteq Hooks

Init ==
    /\ hook = [h \in Hooks |-> "active"]
    /\ consecutive_failures = [h \in Hooks |-> 0]
    /\ at = [d \in Deliveries |-> "none"]
    /\ attempt = [d \in Deliveries |-> 1]
    /\ batch = {}
    /\ moves = 0
    /\ faults = 0
    /\ harmed = {}
    /\ off = {}
    /\ undecided = {}

NoFault == UNCHANGED <<faults, harmed>>

\* A call to the database raises, at the cost of the deliveries in S.  It may
\* have been carried out all the same.
Fault(S) ==
    /\ faults < MaxFaults
    /\ faults' = faults + 1
    /\ harmed' = harmed \cup S

\* d goes on to a place, leaving the worker's batch if that is not in its hands.
MoveTo(d, place) ==
    /\ at' = [at EXCEPT ![d] = place]
    /\ batch' = IF place \in InHand THEN batch ELSE batch \ {d}

\* The deliveries of webhooks that are being switched off.
SwitchedOff(h) == off' = off \cup {d \in Deliveries : HookOf(d) = h /\ at[d] # "none"}

----------------------------------------------------------------------------

\* The active subscriptions get e, each starting in the given place; an error
\* of the query loses the event for all.
Start(e, place) ==
    LET due == {<<h, e>> : h \in {g \in Hooks : hook[g] = "active"}}
    IN  /\ \A h \in Hooks : at[<<h, e>>] = "none"
        /\ \/ /\ due # {}
              /\ at' = [d \in Deliveries |-> IF d \in due THEN place ELSE at[d]]
              /\ NoFault
           \/ /\ at' = [d \in Deliveries |-> IF d \in due THEN "skipped" ELSE at[d]]
              /\ Fault(due)
        /\ UNCHANGED <<subscriptions, attempt, batch, moves, off, undecided>>

\* fire_event, dispatch_event: the first attempts are tasks of this process.
Fire(e) == Start(e, "sending")

\* enqueue_event of another process.
Enqueue(e) == Start(e, "queued")

\* deliver_once.  Whatever became of it, what counts is the answer.
Attempt(d) ==
    /\ at[d] = "sending"
    /\ \E outcome \in {"answered", "failed"} : MoveTo(d, outcome)
    /\ UNCHANGED <<subscriptions, attempt, moves, faults, history>>

\* _mark_success
MarkSuccess(d) ==
    /\ at[d] = "answered"
    /\ MoveTo(d, "delivered")
    /\ \/ /\ consecutive_failures' = [consecutive_failures EXCEPT ![HookOf(d)] = 0]
          /\ undecided' = undecided \ {HookOf(d)}
          /\ NoFault \/ Fault({})
       \/ UNCHANGED <<consecutive_failures, undecided>> /\ Fault({})
    /\ UNCHANGED <<hook, attempt, moves, off>>

\* _bump_failure, the first UPDATE: the row it returns decides whether the
\* webhook is to be disabled.
Bump(d) ==
    LET h == HookOf(d)
        count == consecutive_failures[h] + 1
    IN  /\ at[d] = "failed"
        /\ \/ /\ hook[h] = "deleted"
              /\ MoveTo(d, "retry")
              /\ UNCHANGED <<consecutive_failures, undecided>>
              /\ NoFault
           \/ /\ hook[h] # "deleted"
              /\ consecutive_failures' = [consecutive_failures EXCEPT ![h] = count]
              /\ MoveTo(d, IF hook[h] = "active" /\ count >= DisableAfter
                           THEN "disabling" ELSE "retry")
              /\ NoFault
              /\ UNCHANGED undecided
           \/ /\ MoveTo(d, "over")
              /\ UNCHANGED <<consecutive_failures, undecided>>
              /\ Fault({d})
           \/ /\ hook[h] # "deleted"
              /\ consecutive_failures' = [consecutive_failures EXCEPT ![h] = count]
              /\ MoveTo(d, "over")
              /\ Fault({d})
              /\ undecided' = IF count >= DisableAfter THEN undecided \cup {h} ELSE undecided
        /\ UNCHANGED <<hook, attempt, moves, off>>

\* ... and the second, with no condition on what the row says by then.
Disable(d) ==
    LET h == HookOf(d)
    IN  /\ at[d] = "disabling"
        /\ MoveTo(d, "over")
        /\ \/ /\ hook' = [hook EXCEPT ![h] = IF @ = "deleted" THEN @ ELSE "disabled"]
              /\ SwitchedOff(h)
              /\ NoFault \/ Fault({d})
              /\ UNCHANGED undecided
           \/ /\ Fault({d})
              /\ undecided' = undecided \cup {h}
              /\ UNCHANGED <<hook, off>>
        /\ UNCHANGED <<consecutive_failures, attempt, moves>>

\* (Mutant: one attempt too many.)
RetryTooOften(d) ==
    /\ at[d] = "retry"
    /\ IF attempt[d] > MaxAttempts
       THEN MoveTo(d, "over") /\ UNCHANGED attempt
       ELSE MoveTo(d, "queued") /\ attempt' = [attempt EXCEPT ![d] = @ + 1]
    /\ NoFault
    /\ UNCHANGED <<subscriptions, moves, off, undecided>>

\* _enqueue_retry; the row of a deleted webhook violates the foreign key.
Retry(d) ==
    /\ at[d] = "retry"
    /\ \/ /\ attempt[d] >= MaxAttempts \/ hook[HookOf(d)] = "deleted"
          /\ MoveTo(d, "over")
          /\ UNCHANGED attempt
          /\ NoFault
       \/ /\ attempt[d] < MaxAttempts /\ hook[HookOf(d)] # "deleted"
          /\ MoveTo(d, "queued")
          /\ attempt' = [attempt EXCEPT ![d] = @ + 1]
          /\ NoFault \/ Fault({d})
       \/ /\ attempt[d] < MaxAttempts
          /\ MoveTo(d, "over")
          /\ UNCHANGED attempt
          /\ Fault({d})
    /\ UNCHANGED <<subscriptions, moves, off, undecided>>

----------------------------------------------------------------------------

Queued == {d \in Deliveries : at[d] = "queued"}

\* (Mutant: every due row is deleted, and only BatchSize of them are tried.)
ClaimTooMany ==
    /\ batch = {}
    /\ \E due \in SUBSET Queued \ {{}} :
           \E taken \in SUBSET due \ {{}} :
               /\ Cardinality(taken) <= BatchSize
               /\ batch' = taken
               /\ at' = [d \in Deliveries |-> IF d \in taken THEN "claimed"
                                              ELSE IF d \in due THEN "skipped" ELSE at[d]]
    /\ UNCHANGED <<subscriptions, attempt, moves, faults, history>>

\* _process_retry_batch: rows that are due, which any may be by now, leave the
\* queue before they are tried, and the worker waits for all of them.
Claim ==
    /\ batch = {}
    /\ \E due \in SUBSET Queued \ {{}} :
           /\ Cardinality(due) <= BatchSize
           /\ batch' = due
           /\ at' = [d \in Deliveries |-> IF d \in due THEN "claimed" ELSE at[d]]
    /\ UNCHANGED <<subscriptions, attempt, moves, faults, history>>

\* (Mutant: the delivery of a webhook that is off goes back into the queue.)
RereadPutsBack(d) ==
    /\ at[d] = "claimed"
    /\ \/ hook[HookOf(d)] = "active" /\ MoveTo(d, "sending")
       \/ hook[HookOf(d)] # "active" /\ MoveTo(d, "queued")
    /\ NoFault
    /\ UNCHANGED <<subscriptions, attempt, moves, off, undecided>>

\* _one reads the subscription again.
Reread(d) ==
    /\ at[d] = "claimed"
    /\ \/ hook[HookOf(d)] = "active" /\ MoveTo(d, "sending") /\ NoFault
       \/ hook[HookOf(d)] # "active" /\ MoveTo(d, "skipped") /\ NoFault
       \/ MoveTo(d, "skipped") /\ Fault({d})
    /\ UNCHANGED <<subscriptions, attempt, moves, off, undecided>>

----------------------------------------------------------------------------
(* The API.                                                                *)

Move == moves < MaxMoves /\ moves' = moves + 1

\* (Mutant: the count is not reset.)
SwitchOnOnly(h) ==
    /\ Move
    /\ hook[h] = "disabled"
    /\ hook' = [hook EXCEPT ![h] = "active"]
    /\ UNCHANGED <<consecutive_failures, at, attempt, batch, faults, history>>

\* update_webhook with is_active
SwitchOn(h) ==
    /\ Move
    /\ hook[h] # "deleted"
    /\ hook' = [hook EXCEPT ![h] = "active"]
    /\ consecutive_failures' = [consecutive_failures EXCEPT ![h] = 0]
    /\ undecided' = undecided \ {h}
    /\ UNCHANGED <<at, attempt, batch, faults, harmed, off>>

SwitchOff(h) ==
    /\ Move
    /\ hook[h] = "active"
    /\ hook' = [hook EXCEPT ![h] = "disabled"]
    /\ SwitchedOff(h)
    /\ UNCHANGED <<consecutive_failures, at, attempt, batch, faults, harmed, undecided>>

\* delete_webhook; ON DELETE CASCADE takes its rows in the queue along.
Delete(h) ==
    /\ Move
    /\ hook[h] # "deleted"
    /\ hook' = [hook EXCEPT ![h] = "deleted"]
    /\ at' = [d \in Deliveries |-> IF HookOf(d) = h /\ at[d] = "queued" THEN "skipped" ELSE at[d]]
    /\ SwitchedOff(h)
    /\ UNCHANGED <<consecutive_failures, attempt, batch, faults, harmed, undecided>>

\* An attempt of d is in webhook_deliveries.
Logged(d) ==
    attempt[d] > 1 \/ at[d] \in {"answered", "failed", "disabling", "retry", "delivered", "over"}

\* redeliver, answered with success: an attempt outside the count.
Redeliver(d) ==
    LET h == HookOf(d)
    IN  /\ Move
        /\ hook[h] # "deleted"
        /\ Logged(d)
        /\ consecutive_failures' = [consecutive_failures EXCEPT ![h] = 0]
        /\ undecided' = undecided \ {h}
        /\ UNCHANGED <<hook, at, attempt, batch, faults, harmed, off>>

----------------------------------------------------------------------------

\* The backend dies: what its tasks hold is gone, the queue is not.
Crash ==
    LET held == {d \in Deliveries : at[d] \in InHand}
    IN  /\ held # {}
        /\ Fault(held)
        /\ at' = [d \in Deliveries |->
               IF d \notin held THEN at[d]
               ELSE CASE at[d] \in {"claimed", "sending"} -> "skipped"
                      [] at[d] = "answered" -> "delivered"
                      [] OTHER -> "over"]
        /\ undecided' = undecided \cup {HookOf(d) : d \in {x \in held : at[x] = "disabling"}}
        /\ batch' = {}
        /\ UNCHANGED <<subscriptions, attempt, moves, off>>

Step(d) == Attempt(d) \/ MarkSuccess(d) \/ Bump(d) \/ Disable(d) \/ Retry(d) \/ Reread(d)

Next ==
    \/ \E e \in Events : Fire(e) \/ Enqueue(e)
    \/ \E d \in Deliveries : Step(d) \/ Redeliver(d)
    \/ Claim
    \/ \E h \in Hooks : SwitchOn(h) \/ SwitchOff(h) \/ Delete(h)
    \/ Crash

\* The event loop runs every task, every request ends (its timeout is for each
\* read and write, so a receiver must not answer without end), every row comes
\* due and the worker sleeps for seconds only.
Fairness ==
    /\ \A d \in Deliveries : WF_vars(Step(d))
    /\ WF_vars(Claim)

Spec == Init /\ [][Next]_vars /\ Fairness

----------------------------------------------------------------------------

\* A webhook that has reached the limit is not left active, however many
\* deliveries count at once: somebody is about to switch it off, or a fault
\* kept him from it (_bump_failure, update_webhook).
NoneAtLimit ==
    \A h \in Hooks :
        hook[h] = "active" /\ consecutive_failures[h] >= DisableAfter =>
            \/ \E d \in Deliveries : HookOf(d) = h /\ at[d] = "disabling"
            \/ h \in undecided

\* An event is not dropped unless all its attempts failed, its webhook was
\* switched off or deleted meanwhile, or a fault met it (_attempt_and_handle,
\* _process_retry_batch).
DroppedForAReason ==
    \A d \in Deliveries :
        at[d] \in {"over", "skipped"} =>
            \/ at[d] = "over" /\ attempt[d] = MaxAttempts
            \/ d \in off
            \/ d \in harmed

\* Deliveries as BoundedDelivery sees them.
Phase(d) ==
    CASE at[d] = "none" -> "none"
      [] at[d] \in {"answered", "delivered"} -> "delivered"
      [] at[d] \in {"over", "skipped"} -> "dropped"
      [] OTHER -> "open"
Tries(d) ==
    IF at[d] \in {"none", "queued", "claimed", "sending", "skipped"}
    THEN attempt[d] - 1 ELSE attempt[d]

Promise == INSTANCE BoundedDelivery WITH
    Items <- Deliveries,
    MaxTries <- MaxAttempts,
    phase <- [d \in Deliveries |-> Phase(d)],
    tries <- [d \in Deliveries |-> Tries(d)]

\* Each delivery is tried at most MaxAttempts times, not again once it was
\* answered or dropped, and it does not stay in the queue or in the hands of a
\* task for ever (the retry worker and _attempt_and_handle together).
KeepsPromise == Promise!Spec
=============================================================================
