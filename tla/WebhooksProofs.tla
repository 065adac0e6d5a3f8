--------------------------- MODULE WebhooksProofs ---------------------------
(***************************************************************************)
(* Proofs about Webhooks for any webhooks, events, attempts, limits and    *)
(* faults: its types, its two invariants, and that every step of it is one *)
(* BoundedDelivery allows.                                                 *)
(***************************************************************************)
EXTENDS Webhooks, TLAPS

Places == {"none", "queued"} \cup InHand \cup Ended

\* What DroppedForAReason rests on: a delivery under way whose webhook is not
\* active is known to have been switched off.
OffIsKnown ==
    \A d \in Deliveries : at[d] # "none" /\ hook[HookOf(d)] # "active" => d \in off

Inv == TypeOK /\ OffIsKnown /\ DroppedForAReason

\* Init establishes the types.
LEMMA InitType == Init => TypeOK
    BY EventsAssumption, MaxAttemptsAssumption, BoundsAssumption
    DEF Init, TypeOK, Deliveries, InHand, Ended

\* A delivery that goes on to a place keeps the types of at and batch.
LEMMA MoveToType ==
    ASSUME TypeOK, NEW d \in Deliveries, NEW place \in Places, MoveTo(d, place)
    PROVE  /\ at' \in [Deliveries -> Places]
           /\ batch' \subseteq {x \in Deliveries : at'[x] \in InHand}
           /\ at'[d] = place
           /\ \A x \in Deliveries : x # d => at'[x] = at[x]
    BY DEF TypeOK, MoveTo, Places

\* The deliveries an event starts.
Due(e) == {<<h, e>> : h \in {g \in Hooks : hook[g] = "active"}}

\* What Start does to the deliveries: those of e to active webhooks leave
\* "none", for the given place or for "skipped", and nothing else moves.
LEMMA StartMoves ==
    ASSUME TypeOK, NEW e \in Events, NEW place \in {"sending", "queued"}, Start(e, place)
    PROVE  /\ Due(e) \subseteq Deliveries
           /\ \A d \in Due(e) : at[d] = "none" /\ hook[HookOf(d)] = "active"
           /\ \/ /\ at' = [d \in Deliveries |-> IF d \in Due(e) THEN place ELSE at[d]]
                 /\ NoFault
              \/ /\ at' = [d \in Deliveries |-> IF d \in Due(e) THEN "skipped" ELSE at[d]]
                 /\ Fault(Due(e))
    BY DEF Start, Due, Deliveries, HookOf

\* Every step keeps the types.
LEMMA NextType == TypeOK /\ [Next]_vars => TypeOK'
<1> SUFFICES ASSUME TypeOK, [Next]_vars PROVE TypeOK'
    OBVIOUS
<1> USE MaxAttemptsAssumption, BoundsAssumption DEF Fault, NoFault, Places
<1>1. ASSUME NEW e \in Events, Fire(e) \/ Enqueue(e) PROVE TypeOK'
    <2>1. PICK place \in {"sending", "queued"} : Start(e, place)
        BY <1>1 DEF Fire, Enqueue
    <2>2. /\ at' \in [Deliveries -> Places]
          /\ batch \subseteq {d \in Deliveries : at'[d] \in InHand}
        BY <2>1, StartMoves DEF TypeOK, InHand, Ended
    <2>3. harmed' \subseteq Deliveries /\ faults' \in 0..MaxFaults
        BY <2>1, StartMoves DEF TypeOK
    <2> QED
        BY <2>1, <2>2, <2>3 DEF Start, TypeOK, subscriptions
<1>2. ASSUME NEW d \in Deliveries, Attempt(d) PROVE TypeOK'
    <2>1. PICK outcome \in {"answered", "failed"} : MoveTo(d, outcome)
        BY <1>2 DEF Attempt
    <2>2. outcome \in Places
        BY DEF InHand
    <2> QED
        BY <1>2, <2>1, <2>2, MoveToType DEF Attempt, TypeOK, history, subscriptions
<1>3. ASSUME NEW d \in Deliveries, MarkSuccess(d) PROVE TypeOK'
    <2>1. "delivered" \in Places /\ HookOf(d) \in Hooks
        BY DEF Ended, Deliveries, HookOf
    <2> QED
        BY <1>3, <2>1, MoveToType DEF MarkSuccess, TypeOK
<1>4. ASSUME NEW d \in Deliveries, Bump(d) PROVE TypeOK'
    <2>1. {"retry", "disabling", "over"} \subseteq Places /\ HookOf(d) \in Hooks
        BY DEF InHand, Ended, Deliveries, HookOf
    <2>2. PICK place \in {"retry", "disabling", "over"} : MoveTo(d, place)
        BY <1>4 DEF Bump
    <2> QED
        BY <1>4, <2>1, <2>2, MoveToType DEF Bump, TypeOK
<1>5. ASSUME NEW d \in Deliveries, Disable(d) PROVE TypeOK'
    <2>1. "over" \in Places /\ HookOf(d) \in Hooks
        BY DEF Ended, Deliveries, HookOf
    <2> QED
        BY <1>5, <2>1, MoveToType DEF Disable, SwitchedOff, TypeOK
<1>6. ASSUME NEW d \in Deliveries, Retry(d) PROVE TypeOK'
    <2>1. {"queued", "over"} \subseteq Places
        BY DEF Ended
    <2>2. PICK place \in {"queued", "over"} : MoveTo(d, place)
        BY <1>6 DEF Retry
    <2>3. attempt' \in [Deliveries -> 1..MaxAttempts]
        BY <1>6 DEF Retry, TypeOK
    <2> QED
        BY <1>6, <2>1, <2>2, <2>3, MoveToType DEF Retry, TypeOK, subscriptions
<1>7. ASSUME NEW d \in Deliveries, Reread(d) PROVE TypeOK'
    <2>1. {"sending", "skipped"} \subseteq Places
        BY DEF InHand, Ended
    <2>2. PICK place \in {"sending", "skipped"} : MoveTo(d, place)
        BY <1>7 DEF Reread
    <2> QED
        BY <1>7, <2>1, <2>2, MoveToType DEF Reread, TypeOK, subscriptions
<1>8. ASSUME NEW d \in Deliveries, Redeliver(d) PROVE TypeOK'
    BY <1>8 DEF Redeliver, Move, TypeOK, Deliveries, HookOf
<1>9. CASE Claim
    BY <1>9 DEF Claim, Queued, TypeOK, InHand, subscriptions, history
<1>10. ASSUME NEW h \in Hooks, SwitchOn(h) \/ SwitchOff(h) \/ Delete(h) PROVE TypeOK'
    BY <1>10 DEF SwitchOn, SwitchOff, Delete, Move, SwitchedOff, TypeOK, InHand, Ended
<1>11. CASE Crash
    BY <1>11 DEF Crash, TypeOK, InHand, Ended, Deliveries, HookOf, subscriptions
<1>12. CASE UNCHANGED vars
    BY <1>12 DEF vars, subscriptions, history, TypeOK
<1> QED
    BY <1>1, <1>2, <1>3, <1>4, <1>5, <1>6, <1>7, <1>8, <1>9, <1>10, <1>11, <1>12
    DEF Next, Step

\* All variables keep their types (webhook_subscriptions, webhook_retry_queue
\* and the tasks of webhook_security.py).
THEOREM TypeCorrect == Spec => []TypeOK
    BY InitType, NextType, PTL DEF Spec

----------------------------------------------------------------------------

\* Somebody is about to switch h off.
Switching(h) == \E d \in Deliveries : HookOf(d) = h /\ at[d] = "disabling"

\* A delivery that moves from somewhere else leaves those alone that are about
\* to switch their webhook off.
LEMMA SwitchingKept ==
    ASSUME TypeOK, NEW d \in Deliveries, NEW place, MoveTo(d, place),
           NEW h \in Hooks, Switching(h), at[d] # "disabling" \/ HookOf(d) # h
    PROVE  Switching(h)'
    BY DEF TypeOK, Switching, MoveTo

\* Every step keeps NoneAtLimit.
LEMMA NextLimit == TypeOK /\ NoneAtLimit /\ [Next]_vars => NoneAtLimit'
<1> SUFFICES ASSUME TypeOK, NoneAtLimit, [Next]_vars,
                    NEW h \in Hooks, hook'[h] = "active", consecutive_failures'[h] >= DisableAfter
             PROVE  Switching(h)' \/ h \in undecided'
    BY DEF NoneAtLimit, Switching
<1> USE DisableAfterAssumption DEF Fault, NoFault
<1>0. hook[h] = "active" /\ consecutive_failures[h] >= DisableAfter
          => Switching(h) \/ h \in undecided
    BY DEF NoneAtLimit, Switching
<1>1. ASSUME NEW e \in Events, Fire(e) \/ Enqueue(e) PROVE Switching(h)' \/ h \in undecided'
    <2>1. PICK place \in {"sending", "queued"} : Start(e, place)
        BY <1>1 DEF Fire, Enqueue
    <2>2. Switching(h) => Switching(h)'
        BY <2>1, StartMoves DEF Switching
    <2> QED
        BY <1>0, <2>1, <2>2 DEF Start, subscriptions
<1>2. ASSUME NEW d \in Deliveries, Attempt(d) PROVE Switching(h)' \/ h \in undecided'
    BY <1>0, <1>2, SwitchingKept DEF Attempt, subscriptions, history
<1>3. ASSUME NEW d \in Deliveries, MarkSuccess(d) PROVE Switching(h)' \/ h \in undecided'
    <2>1. CASE consecutive_failures' = [consecutive_failures EXCEPT ![HookOf(d)] = 0]
               /\ undecided' = undecided \ {HookOf(d)}
        <3>1. HookOf(d) # h
            BY <2>1 DEF TypeOK
        <3> QED
            BY <1>0, <1>3, <2>1, <3>1, SwitchingKept DEF MarkSuccess, TypeOK
    <2>2. CASE UNCHANGED <<consecutive_failures, undecided>>
        BY <1>0, <1>3, <2>2, SwitchingKept DEF MarkSuccess
    <2> QED
        BY <1>3, <2>1, <2>2 DEF MarkSuccess
<1>4. ASSUME NEW d \in Deliveries, Bump(d) PROVE Switching(h)' \/ h \in undecided'
    <2>1. CASE UNCHANGED consecutive_failures
        BY <1>0, <1>4, <2>1, SwitchingKept DEF Bump
    <2>2. CASE HookOf(d) # h
        BY <1>0, <1>4, <2>2, SwitchingKept DEF Bump, TypeOK
    <2>3. CASE HookOf(d) = h /\ consecutive_failures' # consecutive_failures
        <3>1. MoveTo(d, "disabling") \/ h \in undecided'
            BY <1>4, <2>3 DEF Bump, TypeOK
        <3> QED
            BY <2>3, <3>1 DEF MoveTo, Switching, TypeOK
    <2> QED
        BY <2>1, <2>2, <2>3
<1>5. ASSUME NEW d \in Deliveries, Disable(d) PROVE Switching(h)' \/ h \in undecided'
    <2>1. CASE HookOf(d) = h
        BY <1>5, <2>1 DEF Disable, TypeOK
    <2>2. CASE HookOf(d) # h
        BY <1>0, <1>5, <2>2, SwitchingKept DEF Disable, TypeOK
    <2> QED
        BY <2>1, <2>2
<1>6. ASSUME NEW d \in Deliveries, Retry(d) PROVE Switching(h)' \/ h \in undecided'
    BY <1>0, <1>6, SwitchingKept DEF Retry, subscriptions
<1>7. ASSUME NEW d \in Deliveries, Reread(d) PROVE Switching(h)' \/ h \in undecided'
    BY <1>0, <1>7, SwitchingKept DEF Reread, subscriptions
<1>8. ASSUME NEW d \in Deliveries, Redeliver(d) PROVE Switching(h)' \/ h \in undecided'
    BY <1>0, <1>8 DEF Redeliver, Switching, TypeOK
<1>9. CASE Claim
    BY <1>0, <1>9 DEF Claim, Queued, Switching, TypeOK, subscriptions, history
<1>10. ASSUME NEW g \in Hooks, SwitchOn(g) \/ SwitchOff(g) PROVE Switching(h)' \/ h \in undecided'
    BY <1>0, <1>10 DEF SwitchOn, SwitchOff, Switching, TypeOK
<1>11. ASSUME NEW g \in Hooks, Delete(g) PROVE Switching(h)' \/ h \in undecided'
    BY <1>0, <1>11 DEF Delete, Switching, TypeOK
<1>12. CASE Crash
    <2>1. Switching(h) => h \in undecided'
        BY <1>12 DEF Crash, Switching, InHand
    <2> QED
        BY <1>0, <1>12, <2>1 DEF Crash, subscriptions
<1>13. CASE UNCHANGED vars
    BY <1>0, <1>13 DEF vars, subscriptions, history, Switching
<1> QED
    BY <1>1, <1>2, <1>3, <1>4, <1>5, <1>6, <1>7, <1>8, <1>9, <1>10, <1>11, <1>12, <1>13
    DEF Next, Step

\* A webhook at its limit is not left active, however many deliveries fail at
\* once and whatever the API does meanwhile (_bump_failure, update_webhook).
THEOREM LimitHolds == Spec => []NoneAtLimit
<1>1. Init => NoneAtLimit
    BY DisableAfterAssumption DEF Init, NoneAtLimit
<1> QED
    BY <1>1, InitType, NextType, NextLimit, PTL DEF Spec
----------------------------------------------------------------------------

\* Every step keeps what is known of deliveries that have been switched off.
LEMMA NextOff == TypeOK /\ OffIsKnown /\ [Next]_vars => OffIsKnown'
<1> SUFFICES ASSUME TypeOK, OffIsKnown, [Next]_vars,
                    NEW x \in Deliveries, at'[x] # "none", hook'[HookOf(x)] # "active"
             PROVE  x \in off'
    BY DEF OffIsKnown
<1> USE DEF Fault, NoFault
<1>0. HookOf(x) \in Hooks /\ (at[x] # "none" /\ hook[HookOf(x)] # "active" => x \in off)
    BY DEF OffIsKnown, Deliveries, HookOf
<1>1. ASSUME NEW e \in Events, Fire(e) \/ Enqueue(e) PROVE x \in off'
    <2>1. PICK place \in {"sending", "queued"} : Start(e, place)
        BY <1>1 DEF Fire, Enqueue
    <2>2. hook' = hook /\ off' = off
        BY <2>1 DEF Start, subscriptions
    <2>3. at[x] # "none"
        BY <2>1, <2>2, StartMoves
    <2> QED
        BY <1>0, <2>2, <2>3
<1>2. ASSUME NEW d \in Deliveries, Attempt(d) \/ MarkSuccess(d) \/ Bump(d) \/ Retry(d) \/ Reread(d)
      PROVE  x \in off'
    <2>1. hook' = hook /\ off' = off /\ at[d] # "none"
        BY <1>2 DEF Attempt, MarkSuccess, Bump, Retry, Reread, subscriptions, history
    <2>2. at[x] # "none"
        BY <1>2, <2>1 DEF Attempt, MarkSuccess, Bump, Retry, Reread, MoveTo, TypeOK
    <2> QED
        BY <1>0, <2>1, <2>2
<1>3. ASSUME NEW d \in Deliveries, Disable(d) PROVE x \in off'
    BY <1>0, <1>3 DEF Disable, MoveTo, SwitchedOff, TypeOK
<1>4. ASSUME NEW d \in Deliveries, Redeliver(d) PROVE x \in off'
    BY <1>0, <1>4 DEF Redeliver
<1>5. CASE Claim
    BY <1>0, <1>5 DEF Claim, Queued, TypeOK, subscriptions, history
<1>6. ASSUME NEW h \in Hooks, SwitchOn(h) \/ SwitchOff(h) PROVE x \in off'
    BY <1>0, <1>6 DEF SwitchOn, SwitchOff, SwitchedOff, TypeOK
<1>7. ASSUME NEW h \in Hooks, Delete(h) PROVE x \in off'
    BY <1>0, <1>7 DEF Delete, SwitchedOff, TypeOK
<1>8. CASE Crash
    BY <1>0, <1>8 DEF Crash, InHand, subscriptions
<1>9. CASE UNCHANGED vars
    BY <1>0, <1>9 DEF vars, subscriptions, history
<1> QED
    BY <1>1, <1>2, <1>3, <1>4, <1>5, <1>6, <1>7, <1>8, <1>9 DEF Next, Step

\* What DroppedForAReason says of one delivery.
Excused(d) == (at[d] = "over" /\ attempt[d] = MaxAttempts) \/ d \in off \/ d \in harmed

\* Every step keeps DroppedForAReason.
LEMMA NextDropped == Inv /\ [Next]_vars => DroppedForAReason'
<1> SUFFICES ASSUME Inv, [Next]_vars, NEW x \in Deliveries, at'[x] \in {"over", "skipped"}
             PROVE  Excused(x)'
    BY DEF DroppedForAReason, Excused
<1> USE MaxAttemptsAssumption DEF Inv, Fault, NoFault, Excused
<1>0. /\ at[x] \in {"over", "skipped"} => Excused(x)
      /\ at[x] # "none" /\ hook[HookOf(x)] # "active" => x \in off
      /\ HookOf(x) \in Hooks
    BY DEF DroppedForAReason, OffIsKnown, Deliveries, HookOf
<1>1. ASSUME NEW e \in Events, Fire(e) \/ Enqueue(e) PROVE Excused(x)'
    <2>1. PICK place \in {"sending", "queued"} : Start(e, place)
        BY <1>1 DEF Fire, Enqueue
    <2>2. attempt' = attempt /\ off' = off
        BY <2>1 DEF Start
    <2> QED
        BY <1>0, <2>1, <2>2, StartMoves
<1>2. ASSUME NEW d \in Deliveries, Attempt(d) \/ MarkSuccess(d) \/ Bump(d) PROVE Excused(x)'
    BY <1>0, <1>2 DEF Attempt, MarkSuccess, Bump, MoveTo, TypeOK, subscriptions, history
<1>3. ASSUME NEW d \in Deliveries, Disable(d) PROVE Excused(x)'
    BY <1>0, <1>3 DEF Disable, MoveTo, SwitchedOff, TypeOK
<1>4. ASSUME NEW d \in Deliveries, Retry(d) PROVE Excused(x)'
    <2>1. CASE x # d
        BY <1>0, <1>4, <2>1 DEF Retry, MoveTo, TypeOK
    <2>2. CASE x = d
        <3>1. attempt[d] \in 1..MaxAttempts
            BY DEF TypeOK
        <3> QED
            BY <1>0, <1>4, <2>2, <3>1 DEF Retry, MoveTo, TypeOK
    <2> QED
        BY <2>1, <2>2
<1>5. ASSUME NEW d \in Deliveries, Reread(d) PROVE Excused(x)'
    BY <1>0, <1>5 DEF Reread, MoveTo, TypeOK
<1>6. ASSUME NEW d \in Deliveries, Redeliver(d) PROVE Excused(x)'
    BY <1>0, <1>6 DEF Redeliver
<1>7. CASE Claim
    BY <1>0, <1>7 DEF Claim, Queued, TypeOK, history
<1>8. ASSUME NEW h \in Hooks, SwitchOn(h) \/ SwitchOff(h) PROVE Excused(x)'
    BY <1>0, <1>8 DEF SwitchOn, SwitchOff, SwitchedOff
<1>9. ASSUME NEW h \in Hooks, Delete(h) PROVE Excused(x)'
    BY <1>0, <1>9 DEF Delete, SwitchedOff, TypeOK
<1>10. CASE Crash
    BY <1>0, <1>10 DEF Crash, InHand
<1>11. CASE UNCHANGED vars
    BY <1>0, <1>11 DEF vars, history
<1> QED
    BY <1>1, <1>2, <1>3, <1>4, <1>5, <1>6, <1>7, <1>8, <1>9, <1>10, <1>11 DEF Next, Step

\* No event is dropped but after all its attempts, with its webhook switched
\* off or deleted, or for a fault (_attempt_and_handle, _process_retry_batch).
THEOREM DropsAreJustified == Spec => []DroppedForAReason
<1>1. Init => Inv
    <2>1. Init => OffIsKnown /\ DroppedForAReason
        BY DEF Init, OffIsKnown, DroppedForAReason
    <2> QED
        BY <2>1, InitType DEF Inv
<1>2. Inv /\ [Next]_vars => Inv'
    BY NextType, NextOff, NextDropped DEF Inv
<1>3. Inv => DroppedForAReason
    BY DEF Inv
<1> QED
    BY <1>1, <1>2, <1>3, PTL DEF Spec
----------------------------------------------------------------------------
(* Every step is one of BoundedDelivery, or leaves what it sees unchanged.  *)

\* The deliveries in S are given up, and no other changes for the abstraction.
GivesUp(S) ==
    /\ S \subseteq Deliveries
    /\ \A d \in S : Phase(d) \in {"none", "open"}
    /\ \A d \in Deliveries : Phase(d)' = (IF d \in S THEN "dropped" ELSE Phase(d))
    /\ \A d \in Deliveries : Tries(d)' = Tries(d)

\* Giving up is a step of BoundedDelivery.
LEMMA GivingUp ==
    ASSUME NEW S, GivesUp(S)
    PROVE  Promise!Next
<1>1. S \in SUBSET {d \in Deliveries : [x \in Deliveries |-> Phase(x)][d] \in {"none", "open"}}
    BY DEF GivesUp
<1>2. [d \in Deliveries |-> Phase(d)]'
          = [d \in Deliveries |-> IF d \in S THEN "dropped" ELSE [x \in Deliveries |-> Phase(x)][d]]
    BY DEF GivesUp
<1>3. [d \in Deliveries |-> Tries(d)]' = [d \in Deliveries |-> Tries(d)]
    BY DEF GivesUp
<1>4. Promise!Drop
    BY <1>1, <1>2, <1>3 DEF Promise!Drop
<1> QED
    BY <1>4 DEF Promise!Next

\* A step that changes neither the phase nor the tries of a delivery.
SameToPromise == \A d \in Deliveries : Phase(d)' = Phase(d) /\ Tries(d)' = Tries(d)

LEMMA Stutters ==
    ASSUME SameToPromise
    PROVE  UNCHANGED Promise!vars
<1>1. /\ [d \in Deliveries |-> Phase(d)]' = [d \in Deliveries |-> Phase(d)]
      /\ [d \in Deliveries |-> Tries(d)]' = [d \in Deliveries |-> Tries(d)]
    BY DEF SameToPromise
<1> QED
    BY <1>1 DEF Promise!vars
\* A delivery that moves is the only one whose phase or tries may change.
LEMMA OthersSame ==
    ASSUME TypeOK, NEW d \in Deliveries, NEW place \in Places, MoveTo(d, place),
           \A x \in Deliveries : x # d => attempt'[x] = attempt[x]
    PROVE  \A x \in Deliveries : x # d => Phase(x)' = Phase(x) /\ Tries(x)' = Tries(x)
    BY MoveToType DEF Phase, Tries

\* An attempt is a try.
LEMMA AttemptTries ==
    ASSUME TypeOK, NEW d \in Deliveries, Attempt(d)
    PROVE  Promise!Next
<1>1. PICK outcome \in {"answered", "failed"} : MoveTo(d, outcome)
    BY DEF Attempt
<1>2. outcome \in Places
    BY DEF Places, InHand
<1>3. /\ at[d] = "sending" /\ at'[d] = outcome
      /\ attempt' = attempt /\ attempt[d] \in 1..MaxAttempts
    BY <1>1, <1>2, MoveToType DEF Attempt, TypeOK
<1>4. \A x \in Deliveries : x # d => Phase(x)' = Phase(x) /\ Tries(x)' = Tries(x)
    BY <1>1, <1>2, <1>3, OthersSame
<1>5. Phase(d) = "open" /\ Phase(d)' \in {"open", "delivered"}
    BY <1>3 DEF Phase
<1>6. Tries(d) = attempt[d] - 1 /\ Tries(d)' = attempt[d]
    BY <1>3 DEF Tries
<1>7. PICK p \in {"open", "delivered"} : Phase(d)' = p
    BY <1>5
<1>8. [x \in Deliveries |-> Phase(x)]' = [[x \in Deliveries |-> Phase(x)] EXCEPT ![d] = p]
    BY <1>4, <1>7
<1>9. [x \in Deliveries |-> Tries(x)]' = [[x \in Deliveries |-> Tries(x)] EXCEPT ![d] = @ + 1]
    <2>1. Tries(d)' = Tries(d) + 1
        BY <1>3, <1>6, MaxAttemptsAssumption
    <2> QED
        BY <1>4, <2>1
<1>10. Tries(d) < MaxAttempts
    BY <1>3, <1>6, MaxAttemptsAssumption
<1>11. Promise!Try(d)
    BY <1>5, <1>7, <1>8, <1>9, <1>10 DEF Promise!Try
<1> QED
    BY <1>11 DEF Promise!Next

\* An event that starts is accepted, or given up at once.
LEMMA StartAccepts ==
    ASSUME TypeOK, NEW e \in Events, NEW place \in {"sending", "queued"}, Start(e, place)
    PROVE  Promise!Next
<1> DEFINE S == Due(e)
<1>1. attempt' = attempt /\ S \subseteq Deliveries /\ \A d \in S : at[d] = "none"
    BY StartMoves DEF Start
<1>2. \A d \in S : Phase(d) = "none"
    BY <1>1 DEF Phase
<1>3. CASE at' = [d \in Deliveries |-> IF d \in S THEN place ELSE at[d]]
    <2>1. \A d \in Deliveries : Phase(d)' = (IF d \in S THEN "open" ELSE Phase(d))
        BY <1>1, <1>3 DEF Phase
    <2>2. \A d \in Deliveries : Tries(d)' = Tries(d)
        BY <1>1, <1>3 DEF Tries
    <2>3. S \in SUBSET {d \in Deliveries : [x \in Deliveries |-> Phase(x)][d] = "none"}
        BY <1>1, <1>2
    <2>4. [d \in Deliveries |-> Phase(d)]'
              = [d \in Deliveries |-> IF d \in S THEN "open" ELSE [x \in Deliveries |-> Phase(x)][d]]
        BY <2>1
    <2>5. [d \in Deliveries |-> Tries(d)]' = [d \in Deliveries |-> Tries(d)]
        BY <2>2
    <2>6. Promise!Accept
        BY <2>3, <2>4, <2>5 DEF Promise!Accept
    <2> QED
        BY <2>6 DEF Promise!Next
<1>4. CASE at' = [d \in Deliveries |-> IF d \in S THEN "skipped" ELSE at[d]]
    <2>1. \A d \in Deliveries : Phase(d)' = (IF d \in S THEN "dropped" ELSE Phase(d))
        BY <1>1, <1>4 DEF Phase
    <2>2. \A d \in Deliveries : Tries(d)' = Tries(d)
        BY <1>1, <1>4 DEF Tries
    <2>3. GivesUp(S)
        BY <1>1, <1>2, <2>1, <2>2 DEF GivesUp
    <2> QED
        BY <2>3, GivingUp
<1> QED
    BY <1>3, <1>4, StartMoves

\* A delivery that is under way and ends without success is given up.
LEMMA EndGivesUp ==
    ASSUME TypeOK, NEW d \in Deliveries, NEW place \in {"over", "skipped"}, MoveTo(d, place),
           attempt' = attempt,
           at[d] \in (IF place = "over" THEN {"failed", "disabling", "retry"} ELSE {"claimed"})
    PROVE  Promise!Next
<1>1. place \in Places
    BY DEF Places, Ended
<1>2. at'[d] = place
    BY <1>1, MoveToType
<1>3. \A x \in Deliveries : x # d => Phase(x)' = Phase(x) /\ Tries(x)' = Tries(x)
    BY <1>1, OthersSame
<1>4. Phase(d) = "open" /\ Phase(d)' = "dropped" /\ Tries(d)' = Tries(d)
    BY <1>2 DEF Phase, Tries
<1>5. GivesUp({d})
    BY <1>3, <1>4 DEF GivesUp
<1> QED
    BY <1>5, GivingUp

\* A delivery that stays under way, or was answered already, is not seen to move.
LEMMA MoveUnseen ==
    ASSUME TypeOK, NEW d \in Deliveries, NEW place \in Places, MoveTo(d, place),
           \A x \in Deliveries : x # d => attempt'[x] = attempt[x],
           \/ at[d] = "answered" /\ place = "delivered" /\ attempt'[d] = attempt[d]
           \/ at[d] = "failed" /\ place \in {"retry", "disabling"} /\ attempt'[d] = attempt[d]
           \/ at[d] = "claimed" /\ place = "sending" /\ attempt'[d] = attempt[d]
           \/ at[d] = "retry" /\ place = "queued" /\ attempt'[d] = attempt[d] + 1
    PROVE  UNCHANGED Promise!vars
<1>1. at'[d] = place
    BY MoveToType
<1>2. attempt[d] \in Nat
    BY MaxAttemptsAssumption DEF TypeOK
<1>3. Phase(d)' = Phase(d) /\ Tries(d)' = Tries(d)
    BY <1>1, <1>2 DEF Phase, Tries
<1>4. SameToPromise
    BY <1>3, OthersSame DEF SameToPromise
<1> QED
    BY <1>4, Stutters
\* Every step of the delivery is a step of BoundedDelivery or is not seen.
LEMMA StepRefines ==
    ASSUME TypeOK, [Next]_vars
    PROVE  Promise!Next \/ UNCHANGED Promise!vars
<1> DEFINE Simulated == Promise!Next \/ UNCHANGED Promise!vars
<1> HIDE DEF Simulated
<1> SUFFICES Simulated
    BY DEF Simulated
<1>0. {"delivered", "retry", "disabling", "sending", "queued"} \subseteq Places
    BY DEF Places, InHand, Ended
<1>a. SameToPromise => Simulated
    BY Stutters DEF Simulated
<1>1. ASSUME NEW e \in Events, Fire(e) \/ Enqueue(e) PROVE Simulated
    BY <1>1, StartAccepts DEF Fire, Enqueue, Simulated
<1>2. ASSUME NEW d \in Deliveries, Attempt(d) PROVE Simulated
    BY <1>2, AttemptTries DEF Simulated
<1>3. ASSUME NEW d \in Deliveries, MarkSuccess(d) PROVE Simulated
    BY <1>0, <1>3, MoveUnseen DEF MarkSuccess, Simulated
<1>4. ASSUME NEW d \in Deliveries, Bump(d) PROVE Simulated
    <2>1. at[d] = "failed" /\ attempt' = attempt
        BY <1>4 DEF Bump
    <2>2. MoveTo(d, "over") => Simulated
        BY <2>1, EndGivesUp DEF Simulated
    <2>3. \A place \in {"retry", "disabling"} : MoveTo(d, place) => Simulated
        BY <1>0, <2>1, MoveUnseen DEF Simulated
    <2> QED
        BY <1>4, <2>2, <2>3 DEF Bump
<1>5. ASSUME NEW d \in Deliveries, Disable(d) PROVE Simulated
    BY <1>5, EndGivesUp DEF Disable, Simulated
<1>6. ASSUME NEW d \in Deliveries, Retry(d) PROVE Simulated
    <2>1. CASE MoveTo(d, "over") /\ UNCHANGED attempt
        BY <1>6, <2>1, EndGivesUp DEF Retry, Simulated
    <2>2. CASE MoveTo(d, "queued") /\ attempt' = [attempt EXCEPT ![d] = @ + 1]
        <3>1. /\ \A x \in Deliveries : x # d => attempt'[x] = attempt[x]
              /\ attempt'[d] = attempt[d] + 1
            BY <2>2 DEF TypeOK
        <3> QED
            BY <1>0, <1>6, <2>2, <3>1, MoveUnseen DEF Retry, Simulated
    <2> QED
        BY <1>6, <2>1, <2>2 DEF Retry
<1>7. ASSUME NEW d \in Deliveries, Reread(d) PROVE Simulated
    <2>1. at[d] = "claimed" /\ attempt' = attempt
        BY <1>7 DEF Reread
    <2>2. MoveTo(d, "skipped") => Simulated
        BY <2>1, EndGivesUp DEF Simulated
    <2>3. MoveTo(d, "sending") => Simulated
        BY <1>0, <2>1, MoveUnseen DEF Simulated
    <2> QED
        BY <1>7, <2>2, <2>3 DEF Reread
<1>8. ASSUME NEW d \in Deliveries, Redeliver(d) PROVE Simulated
    BY <1>a, <1>8 DEF Redeliver, SameToPromise, Phase, Tries
<1>9. CASE Claim
    <2>1. attempt' = attempt
        BY <1>9 DEF Claim
    <2>2. \A x \in Deliveries : at'[x] = at[x] \/ (at[x] = "queued" /\ at'[x] = "claimed")
        <3>1. PICK due \in SUBSET Queued :
                  at' = [d \in Deliveries |-> IF d \in due THEN "claimed" ELSE at[d]]
            BY <1>9 DEF Claim
        <3> QED
            BY <3>1 DEF Queued
    <2>3. SameToPromise
        BY <2>1, <2>2 DEF SameToPromise, Phase, Tries
    <2> QED
        BY <1>a, <2>3
<1>10. ASSUME NEW h \in Hooks, SwitchOn(h) \/ SwitchOff(h) PROVE Simulated
    BY <1>a, <1>10 DEF SwitchOn, SwitchOff, SameToPromise, Phase, Tries
<1>11. ASSUME NEW h \in Hooks, Delete(h) PROVE Simulated
    <2> DEFINE S == {d \in Deliveries : HookOf(d) = h /\ at[d] = "queued"}
    <2>1. attempt' = attempt
        BY <1>11 DEF Delete
    <2>2. \A d \in Deliveries : at'[d] = (IF d \in S THEN "skipped" ELSE at[d])
        BY <1>11 DEF Delete
    <2>3. \A d \in S : Phase(d) = "open"
        BY DEF Phase
    <2>4. /\ \A d \in Deliveries : Phase(d)' = (IF d \in S THEN "dropped" ELSE Phase(d))
          /\ \A d \in Deliveries : Tries(d)' = Tries(d)
        BY <2>1, <2>2 DEF Phase, Tries
    <2>5. GivesUp(S)
        BY <2>3, <2>4 DEF GivesUp
    <2> QED
        BY <2>5, GivingUp DEF Simulated
<1>12. CASE Crash
    <2> DEFINE S == {d \in Deliveries : at[d] \in InHand \ {"answered"}}
    <2>1. attempt' = attempt
        BY <1>12 DEF Crash
    <2>2. \A d \in Deliveries :
              at'[d] = IF at[d] \notin InHand THEN at[d]
                       ELSE CASE at[d] \in {"claimed", "sending"} -> "skipped"
                              [] at[d] = "answered" -> "delivered"
                              [] OTHER -> "over"
        BY <1>12 DEF Crash
    <2>3. \A d \in S : Phase(d) = "open"
        BY DEF Phase, InHand
    <2>4. \A d \in Deliveries : Phase(d)' = (IF d \in S THEN "dropped" ELSE Phase(d))
        BY <2>2 DEF Phase, InHand
    <2>5. \A d \in Deliveries : Tries(d)' = Tries(d)
        BY <2>1, <2>2 DEF Tries, InHand
    <2>6. GivesUp(S)
        BY <2>3, <2>4, <2>5 DEF GivesUp
    <2> QED
        BY <2>6, GivingUp DEF Simulated
<1>13. CASE UNCHANGED vars
    BY <1>a, <1>13 DEF vars, SameToPromise, Phase, Tries
<1> QED
    BY <1>1, <1>2, <1>3, <1>4, <1>5, <1>6, <1>7, <1>8, <1>9, <1>10, <1>11, <1>12, <1>13
    DEF Next, Step

\* Nothing has been accepted or tried in the beginning.
LEMMA InitRefines == Init => Promise!Init
    BY DEF Init, Promise!Init, Phase, Tries

\* The delivery of events implements the safety of BoundedDelivery: no event is
\* tried more often than allowed, nor again once it was answered or dropped
\* (deliver_once, _enqueue_retry, _process_retry_batch).
THEOREM RefinesPromise == Spec => Promise!Init /\ [][Promise!Next]_(Promise!vars)
<1>1. Init => TypeOK
    BY InitType
<1>2. TypeOK /\ [Next]_vars => TypeOK'
    BY NextType
<1>3. TypeOK /\ [Next]_vars => [Promise!Next]_(Promise!vars)
    BY StepRefines
<1> QED
    BY <1>1, <1>2, <1>3, InitRefines, PTL DEF Spec
=============================================================================
