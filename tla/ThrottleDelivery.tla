-------------------------- MODULE ThrottleDelivery --------------------------
(***************************************************************************)
(* How the list of throttled addresses of one node travels from the panel's *)
(* database to the agent (web/backend/core/throttle_sync.py over the        *)
(* channel of AgentChannel).                                               *)
(*                                                                         *)
(* A list replaces the agent's previous one as a whole, so its content does *)
(* not matter here: a list is a member of Lists, Empty among them.  The    *)
(* loop, the API handlers and the on-connect handlers all run              *)
(* push_throttles, interleaved at its awaits, and share the fingerprint of  *)
(* the list last sent.                                                     *)
(***************************************************************************)
EXTENDS AgentChannel, Sequences

CONSTANTS
    Lists,        \* the lists the database may ask for
    Empty,        \* the list without an address
    NoMark,       \* "nothing sent": the node has no fingerprint
    MaxChanges,   \* bound: how often the list asked for changes
    MaxRestarts   \* bound: how often the panel dies

ASSUME ListsAssumption == Empty \in Lists /\ NoMark \notin Lists
ASSUME BoundsAssumption == MaxChanges \in Nat /\ MaxRestarts \in Nat

VARIABLES
    want,      \* the list the database asks for
    changes,   \* how often it has changed
    restarts,  \* how often the panel has died
    pushed,    \* _pushed.get(node)
    pc,        \* where each push_throttles stands
    snap,      \* its local rules
    outbox,    \* lists written to each WebSocket, not yet handled
    got,       \* the list the agent last took off its present WebSocket
    applied,   \* the list the agent last applied
    refused    \* the agent did not apply the list it last took

throttleVars == <<want, changes, restarts, pushed, pc, snap, outbox, got, applied, refused>>
vars == <<channelVars, throttleVars>>

ThrottleTypeOK ==
    /\ want \in Lists
    /\ changes \in 0 .. MaxChanges
    /\ restarts \in 0 .. MaxRestarts
    /\ pushed \in Lists \cup {NoMark}
    /\ pc \in [Pushers -> {"idle", "fetch", "read", "token", "sending"}]
    /\ snap \in [Pushers -> Lists]
    /\ outbox \in [Conns -> Seq(Lists)]
    /\ got \in Lists \cup {NoMark}
    /\ applied \in Lists
    /\ refused \in BOOLEAN

TypeOK == ChannelTypeOK /\ ThrottleTypeOK

Init ==
    /\ ChannelInit
    /\ want = Empty
    /\ changes = 0
    /\ restarts = 0
    /\ pushed = NoMark
    /\ pc = [p \in Pushers |-> "idle"]
    /\ snap = [p \in Pushers |-> Empty]
    /\ outbox = [c \in Conns |-> <<>>]
    /\ got = NoMark
    /\ applied \in Lists
    /\ refused = FALSE

----------------------------------------------------------------------------
(* The database: a limit is set, lifted or expires, an address changes.    *)

ChangeWant ==
    /\ changes < MaxChanges
    /\ \E l \in Lists \ {want} : want' = l
    /\ changes' = changes + 1
    /\ UNCHANGED <<channelVars, restarts, pushed, pc, snap, outbox, got, applied, refused>>

----------------------------------------------------------------------------
(* push_throttles                                                          *)

\* push_throttles of p returns: its locals are gone.
Return(p) ==
    /\ pc' = [pc EXCEPT ![p] = "idle"]
    /\ snap' = [snap EXCEPT ![p] = Empty]

\* The loop wakes up, an API handler has changed a limit, or the handler of
\* a connection has come this far: get_throttle_rules_by_node() runs in the
\* database ...
Fetch(p) ==
    /\ pc[p] = IF p \in Callers THEN "idle" ELSE "fetch"
    /\ snap' = [snap EXCEPT ![p] = want]
    /\ pc' = [pc EXCEPT ![p] = "read"]
    /\ UNCHANGED <<channelVars, want, changes, restarts, pushed, outbox, got, applied, refused>>

\* (Mutant: an empty list is not worth a message.)
DecideSkipsEmpty(p) ==
    /\ pc[p] = "read"
    /\ IF registered = NoConn \/ snap[p] = Empty \/ pushed = snap[p]
       THEN Return(p)
       ELSE pc' = [pc EXCEPT ![p] = "token"] /\ UNCHANGED snap
    /\ UNCHANGED <<channelVars, want, changes, restarts, pushed, outbox, got, applied, refused>>

\* ... and the coroutine resumes: the node is connected and was not sent
\* this list, or there is nothing to do.
Decide(p) ==
    /\ pc[p] = "read"
    /\ IF registered = NoConn \/ pushed = snap[p]
       THEN Return(p)
       ELSE pc' = [pc EXCEPT ![p] = "token"] /\ UNCHANGED snap
    /\ UNCHANGED <<channelVars, want, changes, restarts, pushed, outbox, got, applied, refused>>

\* A database error while the token is read, or an entry gone by now.
GiveUp(p) ==
    /\ pc[p] \in {"fetch", "token"}
    /\ Return(p)
    /\ UNCHANGED <<channelVars, want, changes, restarts, pushed, outbox, got, applied, refused>>

\* (Mutant: the mark is kept in another form than it is compared in.)
SendOkOddMark(p) ==
    /\ pc[p] = "token"
    /\ SendSwallowed
    /\ pushed' = <<snap[p]>>
    /\ Return(p)
    /\ UNCHANGED <<channelVars, want, changes, restarts, outbox, got, applied, refused>>

\* The send succeeds as far as the panel can tell, and the mark follows; that a
\* full transport holds up a send which then goes through is left out.
SendOk(p) ==
    /\ pc[p] = "token"
    /\ \/ \E c \in Conns :
            /\ SendReaches(c)
            /\ outbox' = [outbox EXCEPT ![c] = Append(@, snap[p])]
       \/ SendSwallowed /\ UNCHANGED outbox
    /\ pushed' = snap[p]
    /\ Return(p)
    /\ UNCHANGED <<channelVars, want, changes, restarts, got, applied, refused>>

SendWaits(p) ==
    /\ pc[p] = "token"
    /\ SendSticks(p)
    /\ pc' = [pc EXCEPT ![p] = "sending"]
    /\ UNCHANGED <<want, changes, restarts, pushed, snap, outbox, got, applied, refused>>

SendBreaks(p) ==
    /\ pc[p] = "sending"
    /\ SendFails(p)
    /\ Return(p)
    /\ UNCHANGED <<want, changes, restarts, pushed, outbox, got, applied, refused>>

----------------------------------------------------------------------------
(* The handler's part: forget_node, then push_throttles for this node.     *)

\* (Mutant: the handler does not forget what an earlier connection was sent.)
ResyncKeepsMark(c) ==
    /\ ResyncBegin(c)
    /\ pc' = [pc EXCEPT ![c] = "fetch"]
    /\ UNCHANGED <<want, changes, restarts, pushed, snap, outbox, got, applied, refused>>

Resync(c) ==
    /\ ResyncBegin(c)
    /\ pushed' = NoMark
    /\ pc' = [pc EXCEPT ![c] = "fetch"]
    /\ UNCHANGED <<want, changes, restarts, snap, outbox, got, applied, refused>>

Serve(c) ==
    /\ pc[c] = "idle"
    /\ ResyncEnd(c)
    /\ UNCHANGED throttleVars

HandlerStep(c) ==
    /\ \/ RegisterFirst(c) \/ ReplaceBegin(c) \/ ReplaceEnd(c)
       \/ NoticeDrop(c) \/ Unregister(c)
    /\ UNCHANGED throttleVars

HandlerError(c) == HandlerBreaks(c) /\ UNCHANGED throttleVars

----------------------------------------------------------------------------
(* The agent                                                               *)

AgentConnects(c) ==
    /\ Connect(c)
    /\ UNCHANGED throttleVars

\* The link breaks; with a reboot of the node the kernel forgets the limits.
AgentDrops(c) ==
    /\ Drop(c)
    /\ applied' \in {applied, Empty}
    /\ outbox' = [outbox EXCEPT ![c] = <<>>]
    /\ got' = NoMark
    /\ refused' = FALSE
    /\ UNCHANGED <<want, changes, restarts, pushed, pc, snap>>

\* CommandRunner._sync_throttled_ips: applied, or refused (a signature older
\* than a minute, a failed script), which the panel does not hear of.
AgentTakes(c) ==
    /\ link[c] = "up"
    /\ outbox[c] # <<>>
    /\ got' = Head(outbox[c])
    /\ outbox' = [outbox EXCEPT ![c] = Tail(@)]
    /\ \/ applied' = Head(outbox[c]) /\ refused' = FALSE
       \/ refused' = TRUE /\ UNCHANGED applied
    /\ UNCHANGED <<channelVars, want, changes, restarts, pushed, pc, snap>>

\* The panel dies and comes back: _pushed and the coroutines are gone.
PanelRestart ==
    /\ restarts < MaxRestarts
    /\ ChannelRestart
    /\ restarts' = restarts + 1
    /\ pushed' = NoMark
    /\ pc' = [p \in Pushers |-> "idle"]
    /\ snap' = [p \in Pushers |-> Empty]
    /\ outbox' = [c \in Conns |-> <<>>]
    /\ got' = NoMark
    /\ refused' = FALSE
    /\ UNCHANGED <<want, changes, applied>>

\* Another command of the panel for the node fails.
CommandBreaks == OtherSendFails /\ UNCHANGED throttleVars

Push(p) == Fetch(p) \/ Decide(p) \/ GiveUp(p)
           \/ SendOk(p) \/ SendWaits(p) \/ SendBreaks(p)

Next ==
    \/ ChangeWant
    \/ \E p \in Pushers : Push(p)
    \/ \E c \in Conns : \/ Resync(c) \/ Serve(c) \/ HandlerStep(c) \/ HandlerError(c)
                        \/ AgentConnects(c) \/ AgentDrops(c) \/ AgentTakes(c)
    \/ CommandBreaks
    \/ PanelRestart

\* The loop ticks every minute, coroutines get their turn, the agent handles
\* what it is sent, and the database does not fail for ever.
Fairness ==
    /\ \A p \in Pushers :
        /\ WF_vars(Fetch(p) \/ Decide(p) \/ SendBreaks(p))
        /\ SF_vars(SendOk(p))
    /\ \A c \in Conns : WF_vars(Resync(c) \/ Serve(c) \/ HandlerStep(c))
                        /\ WF_vars(AgentTakes(c))

Spec == Init /\ [][Next]_vars
FairSpec == Spec /\ Fairness

----------------------------------------------------------------------------
(* Properties                                                              *)

\* The list the agent of connection c ends up with once it has read all that
\* was written to it.
LastSent(c) == IF outbox[c] = <<>> THEN got ELSE outbox[c][Len(outbox[c])]

\* After the handler of a connection has forgotten the node, a fingerprint
\* is a promise: the list it stands for is the last one the agent was sent,
\* whichever coroutine sent it.  Without that, "already sent" would leave a
\* limit on the node for ever (throttle_sync.py:8-10, 65).
Resynced == {"pushing", "serving"}
MarkIsLastSent ==
    \A c \in Conns :
        (SendReaches(c) /\ handler[c] \in Resynced /\ pushed # NoMark)
            => LastSent(c) = pushed

\* A node that stays connected and known to the panel ends up with the list
\* the database asks for, empty or not, unless the agent refused it
\* (throttle_sync.py:94-104).
Converges ==
    <>[]Healthy => <>[](got = want /\ (applied = want \/ refused))
=============================================================================
