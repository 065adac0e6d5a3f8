------------------------ MODULE ThrottleDeliveryProofs ------------------------
(***************************************************************************)
(* Proofs about ThrottleDelivery for any number of connections, changes    *)
(* and restarts, any callers and any lists.  What concerns the registry is *)
(* AgentChannelProofs: every step of the delivery is a step of the channel *)
(* or leaves it alone.                                                     *)
(***************************************************************************)
EXTENDS ThrottleDelivery, AgentChannelProofs, SequenceTheorems

\* The delivery only ever takes steps of the channel.
LEMMA StepsOfTheChannel == [Next]_vars => ChannelNext \/ UNCHANGED channelVars
<1> SUFFICES ASSUME Next PROVE ChannelNext \/ UNCHANGED channelVars
    BY DEF vars
<1>1. ASSUME NEW p \in Pushers, Push(p) PROVE ChannelNext \/ UNCHANGED channelVars
    <2>1. CASE SendWaits(p) \/ SendBreaks(p)
        BY <2>1 DEF SendWaits, SendBreaks, ChannelNext
    <2>2. CASE Fetch(p) \/ Decide(p) \/ GiveUp(p) \/ SendOk(p)
        BY <2>2 DEF Fetch, Decide, GiveUp, SendOk
    <2> QED
        BY <1>1, <2>1, <2>2 DEF Push
<1>2. ASSUME NEW c \in Conns, Resync(c) \/ Serve(c) \/ HandlerStep(c) \/ HandlerError(c)
      PROVE  ChannelNext
    BY <1>2 DEF Resync, Serve, HandlerStep, HandlerError, ChannelNext, ChannelStep
<1>3. ASSUME NEW c \in Conns, AgentConnects(c) \/ AgentDrops(c) PROVE ChannelNext
    BY <1>3 DEF AgentConnects, AgentDrops, ChannelNext, ChannelStep
<1>4. ASSUME NEW c \in Conns, AgentTakes(c) PROVE UNCHANGED channelVars
    BY <1>4 DEF AgentTakes
<1>5. CASE PanelRestart
    BY <1>5 DEF PanelRestart, ChannelNext
<1>7. CASE CommandBreaks
    BY <1>7 DEF CommandBreaks, ChannelNext
<1>6. CASE ChangeWant
    BY <1>6 DEF ChangeWant
<1> QED
    BY <1>1, <1>2, <1>3, <1>4, <1>5, <1>6, <1>7 DEF Next

\* The invariant of the channel is one of the delivery.
LEMMA ChannelAlways == Spec => []ChannelInv
<1>1. Init => ChannelInv
    BY ChannelInitInv DEF Init
<1>2. ChannelInv /\ [Next]_vars => ChannelInv'
    BY StepsOfTheChannel, ChannelNextInv
<1> QED
    BY <1>1, <1>2, PTL DEF Spec

\* The registry never keeps a WebSocket whose handler has finished
\* (agent_ws.py:235-236).
THEOREM EntryHasHandler == Spec => []RegisteredIsHandled
<1>1. ChannelInv => RegisteredIsHandled
    BY DEF ChannelInv
<1> QED
    BY <1>1, ChannelAlways, PTL

\* An entry is only ever replaced by a later connection
\* (agent_manager.py:23-35).
THEOREM EntryMovesForward == Spec => RegistryMovesForward
<1> DEFINE Forward == registered # NoConn /\ registered' # NoConn => registered' >= registered
<1>1. ChannelInv /\ [Next]_vars => [Forward]_channelVars
    BY StepsOfTheChannel, ChannelForward
<1> QED
    BY <1>1, ChannelAlways, PTL DEF Spec, RegistryMovesForward

\* An agent that is connected and whose handler is at work loses its entry only
\* to a handler or a send of an earlier connection to the same process of the
\* panel: its first one is never lost. That is what is true of "tracks active
\* Agent v2 WebSocket connections" (agent_manager.py:37-42, 75-92).
THEOREM EntryLostOnlyToThePast == Spec => [][LostOnlyToThePast]_channelVars
<1>1. Init => EntryInv
    BY EntryInitInv DEF Init
<1>2. EntryInv /\ [Next]_vars => EntryInv'
    BY StepsOfTheChannel, EntryNextInv
<1>3. EntryInv /\ [Next]_vars => [LostOnlyToThePast]_channelVars
    BY StepsOfTheChannel, ChannelLosesToThePast
<1> QED
    BY <1>1, <1>2, <1>3, PTL DEF Spec

----------------------------------------------------------------------------
(* Types                                                                   *)

\* A step of a push keeps the types of what it changes.
LEMMA PushTypes ==
    ASSUME ThrottleTypeOK, NEW p \in Pushers, Push(p)
    PROVE  ThrottleTypeOK'
<1> USE ListsAssumption DEF ThrottleTypeOK
<1>1. CASE Fetch(p)
    BY <1>1 DEF Fetch
<1>2. CASE Decide(p)
    BY <1>2 DEF Decide, Return
<1>3. CASE GiveUp(p)
    BY <1>3 DEF GiveUp, Return
<1>4. CASE SendOk(p)
    <2>1. CASE UNCHANGED outbox
        BY <1>4, <2>1 DEF SendOk, Return
    <2>2. ASSUME NEW c \in Conns, outbox' = [outbox EXCEPT ![c] = Append(@, snap[p])]
          PROVE  outbox' \in [Conns -> Seq(Lists)]
        <3>1. snap[p] \in Lists /\ outbox[c] \in Seq(Lists)
            OBVIOUS
        <3>2. Append(outbox[c], snap[p]) \in Seq(Lists)
            BY <3>1
        <3> QED
            BY <2>2, <3>2
    <2>3. outbox' \in [Conns -> Seq(Lists)]
        BY <1>4, <2>1, <2>2 DEF SendOk
    <2> QED
        BY <1>4, <2>3 DEF SendOk, Return
<1>5. CASE SendWaits(p)
    BY <1>5 DEF SendWaits
<1>6. CASE SendBreaks(p)
    BY <1>6 DEF SendBreaks, Return
<1> QED
    BY <1>1, <1>2, <1>3, <1>4, <1>5, <1>6 DEF Push

\* So does every other step.
LEMMA OtherTypes ==
    ASSUME ThrottleTypeOK, NEW c \in Conns,
           \/ ChangeWant \/ CommandBreaks \/ PanelRestart \/ Resync(c) \/ Serve(c) \/ HandlerStep(c)
           \/ HandlerError(c) \/ AgentConnects(c) \/ AgentDrops(c) \/ AgentTakes(c)
    PROVE  ThrottleTypeOK'
<1> USE ListsAssumption, BoundsAssumption DEF ThrottleTypeOK
<1>1. CASE ChangeWant
    BY <1>1 DEF ChangeWant
<1>2. CASE PanelRestart
    <2>1. outbox' \in [Conns -> Seq(Lists)]
        <3>1. <<>> \in Seq(Lists)
            BY EmptySeq
        <3> QED
            BY <1>2, <3>1 DEF PanelRestart
    <2>2. restarts' \in 0 .. MaxRestarts
        BY <1>2 DEF PanelRestart
    <2>3. pc' \in [Pushers -> {"idle", "fetch", "read", "token", "sending"}]
        BY <1>2 DEF PanelRestart
    <2>4. snap' \in [Pushers -> Lists]
        BY <1>2 DEF PanelRestart
    <2> QED
        BY <1>2, <2>1, <2>2, <2>3, <2>4 DEF PanelRestart
<1>3. CASE Resync(c)
    BY <1>3 DEF Resync, Pushers
<1>4. CASE Serve(c) \/ HandlerStep(c) \/ HandlerError(c) \/ AgentConnects(c) \/ CommandBreaks
    BY <1>4 DEF Serve, HandlerStep, HandlerError, AgentConnects, CommandBreaks, throttleVars
<1>5. CASE AgentDrops(c)
    <2>1. <<>> \in Seq(Lists)
        OBVIOUS
    <2> QED
        BY <1>5, <2>1 DEF AgentDrops
<1>6. CASE AgentTakes(c)
    <2>1. Head(outbox[c]) \in Lists /\ Tail(outbox[c]) \in Seq(Lists)
        BY <1>6 DEF AgentTakes
    <2> QED
        BY <1>6, <2>1 DEF AgentTakes
<1> QED
    BY <1>1, <1>2, <1>3, <1>4, <1>5, <1>6

\* The delivery's variables keep their types in every step.
LEMMA ThrottleTypesKept == ThrottleTypeOK /\ [Next]_vars => ThrottleTypeOK'
<1> SUFFICES ASSUME ThrottleTypeOK, [Next]_vars PROVE ThrottleTypeOK'
    OBVIOUS
<1>1. CASE UNCHANGED vars
    BY <1>1 DEF vars, throttleVars, ThrottleTypeOK
<1>2. ASSUME NEW p \in Pushers, Push(p) PROVE ThrottleTypeOK'
    BY <1>2, PushTypes
<1>3. 1 \in Conns
    BY MaxConnAssumption DEF Conns
<1>4. CASE ChangeWant \/ CommandBreaks \/ PanelRestart
    BY <1>3, <1>4, OtherTypes
<1>5. ASSUME NEW c \in Conns,
             \/ Resync(c) \/ Serve(c) \/ HandlerStep(c)
             \/ HandlerError(c) \/ AgentConnects(c) \/ AgentDrops(c) \/ AgentTakes(c)
      PROVE  ThrottleTypeOK'
    BY <1>5, OtherTypes
<1> QED
    BY <1>1, <1>2, <1>4, <1>5 DEF Next

\* They have them to begin with.
LEMMA InitTypes == Init => ThrottleTypeOK
<1> SUFFICES ASSUME Init PROVE ThrottleTypeOK
    OBVIOUS
<1>1. outbox \in [Conns -> Seq(Lists)]
    <2>1. <<>> \in Seq(Lists)
        BY EmptySeq
    <2> QED
        BY <2>1 DEF Init
<1>2. changes \in 0 .. MaxChanges /\ restarts \in 0 .. MaxRestarts
    BY BoundsAssumption DEF Init
<1> QED
    BY <1>1, <1>2, ListsAssumption DEF Init, ThrottleTypeOK

\* Everything stays in its type.
THEOREM TypeCorrect == Spec => []TypeOK
<1>1. ChannelInv /\ ThrottleTypeOK => TypeOK
    BY DEF ChannelInv, TypeOK
<1> QED
    BY <1>1, InitTypes, ThrottleTypesKept, ChannelAlways, PTL DEF Spec

----------------------------------------------------------------------------
(* The fingerprint is a promise                                            *)

DeliveryInv == ChannelInv /\ ThrottleTypeOK /\ MarkIsLastSent

\* What was written to a WebSocket in use by the agent and its handler; the
\* property speaks of no other.
Listening(c) == SendReaches(c) /\ handler[c] \in Resynced

\* A step after which every listening connection was listening before, with
\* the same end of what it was written, and the mark is the same or none,
\* keeps the promise.
LEMMA PromiseKept ==
    ASSUME MarkIsLastSent, pushed' \in {pushed, NoMark},
           \A c \in Conns : Listening(c)' => Listening(c) /\ LastSent(c)' = LastSent(c)
    PROVE  MarkIsLastSent'
BY DEF MarkIsLastSent, Listening

\* A step of a push keeps the promise.
LEMMA PushKeepsPromise ==
    ASSUME DeliveryInv, NEW p \in Pushers, Push(p)
    PROVE  MarkIsLastSent'
<1> USE DEF DeliveryInv
<1>1. CASE Fetch(p) \/ Decide(p) \/ GiveUp(p)
    BY <1>1, PromiseKept
    DEF Fetch, Decide, GiveUp, channelVars, Listening, SendReaches, LastSent
<1>2. CASE SendWaits(p)
    BY <1>2, PromiseKept DEF SendWaits, SendSticks, Listening, SendReaches, LastSent
<1>3. CASE SendBreaks(p)
    BY <1>3, NoConnAssumption, PromiseKept
    DEF SendBreaks, SendFails, Listening, SendReaches, LastSent
<1>4. CASE SendOk(p)
    <2>1. ASSUME NEW c \in Conns, SendReaches(c)',  NEW d \in Conns, SendReaches(d),
                 outbox' = [outbox EXCEPT ![d] = Append(@, snap[p])]
          PROVE  LastSent(c)' = pushed'
        <3>1. c = d /\ pushed' = snap[p]
            BY <1>4, <2>1 DEF SendOk, SendReaches, channelVars
        <3>2. snap[p] \in Lists /\ outbox[c] \in Seq(Lists)
            BY DEF ThrottleTypeOK
        <3>3. outbox'[c] = Append(outbox[c], snap[p])
            BY <2>1, <3>1 DEF ThrottleTypeOK
        <3>4. outbox'[c] # <<>> /\ outbox'[c][Len(outbox'[c])] = snap[p]
            BY <3>2, <3>3
        <3> QED
            BY <3>1, <3>4 DEF LastSent
    <2>2. ASSUME SendSwallowed, NEW c \in Conns PROVE ~SendReaches(c)'
        BY <1>4, <2>2 DEF SendOk, SendSwallowed, SendReaches, channelVars
    <2> QED
        BY <1>4, <2>1, <2>2 DEF SendOk, MarkIsLastSent
<1> QED
    BY <1>1, <1>2, <1>3, <1>4 DEF Push

\* A step of a handler keeps it: one enters the resynchronised states only
\* by forgetting the mark.
LEMMA HandlerKeepsPromise ==
    ASSUME DeliveryInv, NEW c \in Conns,
           Resync(c) \/ Serve(c) \/ HandlerStep(c) \/ HandlerError(c)
    PROVE  MarkIsLastSent'
<1> USE NoConnAssumption
    DEF DeliveryInv, ChannelInv, ChannelTypeOK, Listening, SendReaches, Resynced, LastSent
<1>1. CASE Resync(c)
    BY <1>1 DEF Resync, MarkIsLastSent
<1>2. CASE Serve(c)
    BY <1>2, PromiseKept DEF Serve, ResyncEnd, throttleVars
<1>3. CASE HandlerStep(c)
    <2>1. UNCHANGED <<pushed, outbox, got>>
        BY <1>3 DEF HandlerStep, throttleVars
    <2>2. CASE RegisterFirst(c) \/ ReplaceBegin(c)
        BY <2>1, <2>2, PromiseKept DEF RegisterFirst, ReplaceBegin
    <2>3. CASE ReplaceEnd(c)
        BY <2>1, <2>3, PromiseKept DEF ReplaceEnd
    <2>4. CASE NoticeDrop(c)
        BY <2>1, <2>4, PromiseKept DEF NoticeDrop
    <2>5. CASE Unregister(c)
        BY <2>1, <2>5, PromiseKept DEF Unregister
    <2> QED
        BY <1>3, <2>2, <2>3, <2>4, <2>5 DEF HandlerStep
<1>4. CASE HandlerError(c)
    BY <1>4, PromiseKept DEF HandlerError, HandlerBreaks, throttleVars
<1> QED
    BY <1>1, <1>2, <1>3, <1>4

\* Taking the head off a list of messages does not change where it ends.
LEMMA TailEndsTheSame ==
    ASSUME NEW S, NEW s \in Seq(S), s # <<>>
    PROVE  IF Tail(s) = <<>> THEN Head(s) = s[Len(s)]
                             ELSE Tail(s)[Len(Tail(s))] = s[Len(s)]
<1>1. Tail(s) \in Seq(S) /\ Len(Tail(s)) = Len(s) - 1
    BY HeadTailProperties
<1>2. Len(s) \in Nat \ {0} /\ Len(Tail(s)) \in Nat
    BY <1>1, EmptySeq, LenProperties
<1>3. CASE Tail(s) = <<>>
    <2>1. Len(s) = 1
        <3>1. Len(<<>>) = 0
            BY EmptySeq
        <3>2. Len(Tail(s)) = Len(<<>>)
            BY <1>3, Zenon
        <3>3. Len(s) - 1 = 0
            BY <1>1, <3>1, <3>2, Zenon
        <3> QED
            BY <1>2, <3>3
    <2> QED
        BY <1>3, <2>1
<1>4. CASE Tail(s) # <<>>
    <2>1. Len(Tail(s)) \in 1 .. Len(Tail(s))
        BY <1>1, <1>2, <1>4, EmptySeq
    <2>2. Tail(s)[Len(Tail(s))] = s[Len(Tail(s)) + 1]
        BY <2>1, HeadTailProperties
    <2>3. Len(Tail(s)) + 1 = Len(s)
        BY <1>1, <1>2
    <2> QED
        BY <1>4, <2>2, <2>3
<1> QED
    BY <1>3, <1>4

\* A step of the agent keeps it: the end of what it was written to it is the
\* same before and after it takes a list.
LEMMA AgentKeepsPromise ==
    ASSUME DeliveryInv, NEW c \in Conns, AgentConnects(c) \/ AgentDrops(c) \/ AgentTakes(c)
    PROVE  MarkIsLastSent'
<1> USE DEF DeliveryInv, ChannelInv, ChannelTypeOK, Listening, SendReaches, Resynced
<1>1. CASE AgentConnects(c)
    <2>1. \A d \in Conns : ~Listening(d)'
        BY <1>1 DEF AgentConnects, Connect
    <2> QED
        BY <1>1, <2>1, PromiseKept DEF AgentConnects, throttleVars
<1>2. CASE AgentDrops(c)
    <2>1. \A d \in Conns : ~Listening(d)'
        BY <1>2 DEF AgentDrops, Drop, UsedInOrder
    <2> QED
        BY <1>2, <2>1, PromiseKept DEF AgentDrops
<1>3. CASE AgentTakes(c)
    <2>1. UNCHANGED <<channelVars, pushed>> /\ link[c] = "up"
        BY <1>3 DEF AgentTakes
    <2>2. LastSent(c)' = LastSent(c)
        <3>1. outbox[c] \in Seq(Lists) /\ outbox[c] # <<>>
            BY <1>3 DEF AgentTakes, ThrottleTypeOK
        <3>2. outbox'[c] = Tail(outbox[c]) /\ got' = Head(outbox[c])
            BY <1>3 DEF AgentTakes, ThrottleTypeOK
        <3> QED
            BY <3>1, <3>2, TailEndsTheSame DEF LastSent
    <2>3. \A d \in Conns : Listening(d)' => Listening(d) /\ d = c
        BY <2>1 DEF channelVars, UsedInOrder
    <2> QED
        BY <2>1, <2>2, <2>3, PromiseKept
<1> QED
    BY <1>1, <1>2, <1>3

\* After its handler has forgotten the node, the agent's last list is the
\* one the fingerprint stands for, whichever coroutines pushed in between
\* (throttle_sync.py:8-10, 65).
THEOREM MarkKept == Spec => []MarkIsLastSent
<1>1. Init => DeliveryInv
    BY ChannelInitInv, InitTypes DEF Init, DeliveryInv, MarkIsLastSent
<1>2. DeliveryInv /\ [Next]_vars => DeliveryInv'
    <2> SUFFICES ASSUME DeliveryInv, [Next]_vars PROVE MarkIsLastSent'
        BY StepsOfTheChannel, ChannelNextInv, ThrottleTypesKept DEF DeliveryInv
    <2>1. CASE UNCHANGED vars
        BY <2>1, PromiseKept
        DEF vars, throttleVars, channelVars, DeliveryInv, Listening, SendReaches, LastSent
    <2>2. CASE ChangeWant
        BY <2>2, PromiseKept
        DEF ChangeWant, channelVars, DeliveryInv, Listening, SendReaches, LastSent
    <2>3. CASE PanelRestart
        BY <2>3 DEF PanelRestart, MarkIsLastSent
    <2>4. CASE CommandBreaks
        BY <2>4, NoConnAssumption
        DEF CommandBreaks, OtherSendFails, MarkIsLastSent, SendReaches
    <2> QED
        BY <2>1, <2>2, <2>3, <2>4, PushKeepsPromise, HandlerKeepsPromise, AgentKeepsPromise
        DEF Next
<1>3. DeliveryInv => MarkIsLastSent
    BY DEF DeliveryInv
<1> QED
    BY <1>1, <1>2, <1>3, PTL DEF Spec
----------------------------------------------------------------------------
(* When nothing is left to do                                              *)

\* What the agent took it has applied, unless it refused it.
TakenIsApplied == got # NoMark => applied = got \/ refused

\* No step of the panel touches what the agent has taken.
LEMMA TakenKept == (Init => TakenIsApplied) /\ (TakenIsApplied /\ [Next]_vars => TakenIsApplied')
<1>1. Init => TakenIsApplied
    BY DEF Init, TakenIsApplied
<1> SUFFICES ASSUME TakenIsApplied, [Next]_vars PROVE TakenIsApplied'
    BY <1>1
<1> USE DEF TakenIsApplied
<1>2. CASE UNCHANGED <<got, applied, refused>>
    BY <1>2
<1>3. ASSUME NEW c \in Conns, AgentTakes(c) PROVE TakenIsApplied'
    BY <1>3 DEF AgentTakes
<1>4. ASSUME NEW c \in Conns, AgentDrops(c) PROVE TakenIsApplied'
    BY <1>4 DEF AgentDrops
<1>5. CASE PanelRestart
    BY <1>5 DEF PanelRestart
<1>6. ASSUME NEW p \in Pushers, Push(p) PROVE UNCHANGED <<got, applied, refused>>
    BY <1>6 DEF Push, Fetch, Decide, GiveUp, SendOk, SendWaits, SendBreaks
<1>7. ASSUME NEW c \in Conns, Resync(c) \/ Serve(c) \/ HandlerStep(c) \/ HandlerError(c)
                              \/ AgentConnects(c)
      PROVE  UNCHANGED <<got, applied, refused>>
    BY <1>7 DEF Resync, Serve, HandlerStep, HandlerError, AgentConnects, throttleVars
<1>8. CASE ChangeWant \/ CommandBreaks \/ UNCHANGED vars
    BY <1>2, <1>8 DEF ChangeWant, CommandBreaks, throttleVars, vars
<1> QED
    BY <1>2, <1>3, <1>4, <1>5, <1>6, <1>7, <1>8 DEF Next

\* The panel takes the list the database asks for as sent, and the agent has
\* read all that was written to it.
NothingLeft(c) ==
    /\ SendReaches(c) /\ handler[c] \in Resynced
    /\ pushed = want
    /\ outbox[c] = <<>>

QuietIsDelivered ==
    \A c \in Conns : NothingLeft(c) => got = want /\ (applied = want \/ refused)

\* Once neither the panel nor the agent has anything left to do for a list,
\* the node enforces that list or the agent has refused it: the loop that skips
\* a list it has sent never rests in a wrong state (throttle_sync.py:94-104).
THEOREM QuietDelivers == Spec => []QuietIsDelivered
<1>1. TypeOK /\ MarkIsLastSent /\ TakenIsApplied => QuietIsDelivered
    <2> SUFFICES ASSUME TypeOK, MarkIsLastSent, TakenIsApplied,
                        NEW c \in Conns, NothingLeft(c)
                 PROVE  got = want /\ (applied = want \/ refused)
        BY DEF QuietIsDelivered
    <2>1. want # NoMark
        BY ListsAssumption DEF TypeOK, ThrottleTypeOK
    <2>2. LastSent(c) = pushed
        BY <2>1 DEF MarkIsLastSent, NothingLeft
    <2>3. got = want
        BY <2>2 DEF LastSent, NothingLeft
    <2> QED
        BY <2>1, <2>3 DEF TakenIsApplied
<1> QED
    BY <1>1, TypeCorrect, MarkKept, TakenKept, PTL DEF Spec
=============================================================================
