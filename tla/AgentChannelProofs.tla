------------------------- MODULE AgentChannelProofs -------------------------
(***************************************************************************)
(* What the steps of AgentChannel keep, for any number of connections and  *)
(* pushing coroutines.  A module that composes the channel shows that each *)
(* of its steps is a step of ChannelNext or leaves the channel alone.      *)
(***************************************************************************)
EXTENDS AgentChannel, TLAPS

ChannelStep(c) ==
    \/ Connect(c) \/ Drop(c)
    \/ RegisterFirst(c) \/ ReplaceBegin(c) \/ ReplaceEnd(c)
    \/ ResyncBegin(c) \/ ResyncEnd(c)
    \/ NoticeDrop(c) \/ HandlerBreaks(c) \/ Unregister(c)

ChannelNext ==
    \/ \E c \in Conns : ChannelStep(c)
    \/ \E p \in Pushers : SendSticks(p) \/ SendFails(p)
    \/ OtherSendFails
    \/ ChannelRestart

----------------------------------------------------------------------------
(* The inductive invariant.                                                *)

\* A WebSocket has a handler from its first moment on, WebSockets are used
\* in their order, and the agent holds one at a time.
UsedInOrder ==
    /\ \A c \in Conns : handler[c] = "none" <=> link[c] = "unused"
    /\ \A c, d \in Conns : c < d /\ link[d] # "unused" => link[c] # "unused"
    /\ \A c, d \in Conns : link[c] = "up" /\ link[d] = "up" => c = d

\* The lock is held by the handler that replaces, and there is something to
\* replace until it is done.
LockIsReplacing ==
    /\ \A c \in Conns : handler[c] = "replacing" <=> lock = c
    /\ lock # NoConn => registered # NoConn

\* Handlers still to register are later than the one registered and than
\* the one that is registering.
LaterWait ==
    \A c \in Conns :
        /\ handler[c] \in {"accepted", "replacing"} /\ registered # NoConn
              => registered < c
        /\ handler[c] = "accepted" /\ lock # NoConn => lock < c

ChannelInv ==
    ChannelTypeOK /\ UsedInOrder /\ LockIsReplacing /\ LaterWait /\ RegisteredIsHandled

\* A fresh panel satisfies the invariant.
LEMMA ChannelInitInv == ChannelInit => ChannelInv
BY NoConnAssumption
DEF ChannelInit, ChannelInv, ChannelTypeOK, UsedInOrder, LockIsReplacing, LaterWait,
    RegisteredIsHandled, LinkStates, HandlerStates

\* Every step of the channel keeps its types.
LEMMA ChannelTypes == ChannelTypeOK /\ LockIsReplacing /\ ChannelNext => ChannelTypeOK'
<1> SUFFICES ASSUME ChannelTypeOK, LockIsReplacing, ChannelNext PROVE ChannelTypeOK'
    OBVIOUS
<1> USE DEF ChannelTypeOK, LinkStates, HandlerStates
<1>1. ASSUME NEW c \in Conns, ChannelStep(c) PROVE ChannelTypeOK'
    <2>1. CASE Connect(c) \/ Drop(c) \/ ResyncBegin(c) \/ ResyncEnd(c)
        BY <2>1 DEF Connect, Drop, ResyncBegin, ResyncEnd
    <2>2. CASE RegisterFirst(c) \/ ReplaceBegin(c)
        BY <2>2 DEF RegisterFirst, ReplaceBegin
    <2>3. CASE ReplaceEnd(c)
        BY <2>3 DEF ReplaceEnd
    <2>4. CASE NoticeDrop(c) \/ HandlerBreaks(c) \/ Unregister(c)
        BY <2>4 DEF NoticeDrop, HandlerBreaks, Unregister
    <2> QED
        BY <1>1, <2>1, <2>2, <2>3, <2>4 DEF ChannelStep
<1>2. ASSUME NEW p \in Pushers, SendSticks(p) \/ SendFails(p) PROVE ChannelTypeOK'
    BY <1>2 DEF SendSticks, SendFails
<1>3. CASE OtherSendFails
    BY <1>3 DEF OtherSendFails
<1>4. CASE ChannelRestart
    BY <1>4 DEF ChannelRestart
<1> QED
    BY <1>1, <1>2, <1>3, <1>4 DEF ChannelNext

\* Every step of the channel keeps the order in which WebSockets are used.
LEMMA ChannelOrder == ChannelInv /\ ChannelNext => UsedInOrder'
<1> SUFFICES ASSUME ChannelInv, ChannelNext PROVE UsedInOrder'
    OBVIOUS
<1> USE DEF ChannelInv, ChannelTypeOK, LinkStates, HandlerStates, UsedInOrder, Conns
<1>1. ASSUME NEW c \in Conns, ChannelStep(c) PROVE UsedInOrder'
    <2>1. CASE Connect(c)
        BY <2>1, MaxConnAssumption DEF Connect
    <2>2. CASE Drop(c)
        BY <2>2 DEF Drop
    <2>3. CASE RegisterFirst(c) \/ ReplaceBegin(c)
        BY <2>3 DEF RegisterFirst, ReplaceBegin
    <2>4. CASE ReplaceEnd(c)
        <3>1. registered \in Conns /\ link[registered] # "unused"
            BY <2>4, NoConnAssumption
            DEF ReplaceEnd, LockIsReplacing, RegisteredIsHandled, Owning
        <3> QED
            BY <2>4, <3>1 DEF ReplaceEnd
    <2>5. CASE ResyncBegin(c) \/ ResyncEnd(c) \/ Unregister(c)
        BY <2>5 DEF ResyncBegin, ResyncEnd, Unregister
    <2>6. CASE NoticeDrop(c) \/ HandlerBreaks(c)
        BY <2>6 DEF NoticeDrop, HandlerBreaks
    <2> QED
        BY <1>1, <2>1, <2>2, <2>3, <2>4, <2>5, <2>6 DEF ChannelStep
<1>2. ASSUME NEW p \in Pushers, SendSticks(p) \/ SendFails(p) PROVE UsedInOrder'
    BY <1>2 DEF SendSticks, SendFails
<1>3. CASE OtherSendFails
    BY <1>3 DEF OtherSendFails
<1>4. CASE ChannelRestart
    BY <1>4 DEF ChannelRestart
<1> QED
    BY <1>1, <1>2, <1>3, <1>4 DEF ChannelNext

\* Every step of the channel keeps the lock with the handler that replaces,
\* the queue for it in order, and the entry with a handler.
LEMMA ChannelRegistry ==
    ChannelInv /\ ChannelNext => (LockIsReplacing /\ LaterWait /\ RegisteredIsHandled)'
<1> DEFINE Good == LockIsReplacing /\ LaterWait /\ RegisteredIsHandled
<1> SUFFICES ASSUME ChannelInv, ChannelNext PROVE Good'
    OBVIOUS
<1> USE NoConnAssumption
    DEF ChannelInv, ChannelTypeOK, LinkStates, HandlerStates, Conns,
        LockIsReplacing, LaterWait, RegisteredIsHandled, Owning
<1>1. ASSUME NEW c \in Conns, ChannelStep(c) PROVE Good'
    <2>1. CASE Connect(c)
        <3>1. \A d \in Conns : link[d] # "unused" => d < c
            BY <2>1, MaxConnAssumption DEF Connect, UsedInOrder
        <3>2. registered # NoConn => registered < c
            BY <3>1 DEF UsedInOrder
        <3>3. lock # NoConn => lock < c
            BY <3>1 DEF UsedInOrder
        <3> QED
            BY <2>1, <3>2, <3>3 DEF Connect, UsedInOrder
    <2>2. CASE Drop(c)
        BY <2>2 DEF Drop
    <2>3. CASE RegisterFirst(c)
        BY <2>3, MaxConnAssumption DEF RegisterFirst
    <2>4. CASE ReplaceBegin(c)
        BY <2>4, MaxConnAssumption DEF ReplaceBegin
    <2>5. CASE ReplaceEnd(c)
        BY <2>5, MaxConnAssumption DEF ReplaceEnd
    <2>6. CASE ResyncBegin(c)
        BY <2>6 DEF ResyncBegin
    <2>7. CASE ResyncEnd(c)
        BY <2>7 DEF ResyncEnd
    <2>8. CASE NoticeDrop(c) \/ HandlerBreaks(c)
        BY <2>8 DEF NoticeDrop, HandlerBreaks
    <2>9. CASE Unregister(c)
        BY <2>9 DEF Unregister
    <2> QED
        BY <1>1, <2>1, <2>2, <2>3, <2>4, <2>5, <2>6, <2>7, <2>8, <2>9
        DEF ChannelStep
<1>2. ASSUME NEW p \in Pushers, SendSticks(p) \/ SendFails(p) PROVE Good'
    BY <1>2 DEF SendSticks, SendFails
<1>3. CASE OtherSendFails
    BY <1>3 DEF OtherSendFails
<1>4. CASE ChannelRestart
    BY <1>4 DEF ChannelRestart
<1> QED
    BY <1>1, <1>2, <1>3, <1>4 DEF ChannelNext

\* The invariant of the channel is inductive.
LEMMA ChannelNextInv == ChannelInv /\ (ChannelNext \/ UNCHANGED channelVars) => ChannelInv'
<1>1. ChannelInv /\ ChannelNext => ChannelInv'
    BY ChannelTypes, ChannelOrder, ChannelRegistry DEF ChannelInv
<1>2. ChannelInv /\ UNCHANGED channelVars => ChannelInv'
    BY DEF ChannelInv, channelVars, ChannelTypeOK, UsedInOrder, LockIsReplacing,
           LaterWait, RegisteredIsHandled
<1> QED
    BY <1>1, <1>2

\* A step of the channel replaces an entry only by a later connection.
LEMMA ChannelForward ==
    ASSUME ChannelInv, ChannelNext \/ UNCHANGED channelVars,
           registered # NoConn, registered' # NoConn
    PROVE  registered' >= registered
<1> USE NoConnAssumption DEF ChannelInv, ChannelTypeOK, Conns
<1>1. registered \in Nat
    OBVIOUS
<1>2. ASSUME NEW c \in Conns, ReplaceEnd(c) PROVE registered' >= registered
    <2>1. registered' = c /\ registered < c /\ c \in Nat
        BY <1>2, MaxConnAssumption DEF ReplaceEnd, LaterWait
    <2> QED
        BY <1>1, <2>1
<1>3. ASSUME NEW c \in Conns, RegisterFirst(c) \/ Unregister(c) PROVE FALSE
    BY <1>3 DEF RegisterFirst, Unregister
<1>4. ASSUME NEW p \in Pushers, SendFails(p) PROVE FALSE
    BY <1>4 DEF SendFails
<1>5. CASE OtherSendFails \/ ChannelRestart
    BY <1>5 DEF OtherSendFails, ChannelRestart
<1>6. CASE registered' = registered
    BY <1>1, <1>6
<1>7. ASSUME NEW c \in Conns, ChannelStep(c) PROVE registered' >= registered
    <2>1. CASE ReplaceEnd(c)
        BY <1>2, <2>1
    <2>2. CASE registered' = registered
        BY <1>6, <2>2
    <2> QED
        BY <1>3, <1>7, <2>1, <2>2
        DEF ChannelStep, Connect, Drop, ReplaceBegin, ResyncBegin,
            ResyncEnd, NoticeDrop, HandlerBreaks
<1>8. ASSUME NEW p \in Pushers, SendSticks(p) PROVE registered' >= registered
    BY <1>6, <1>8 DEF SendSticks
<1>9. CASE UNCHANGED channelVars
    BY <1>6, <1>9 DEF channelVars
<1> QED
    BY <1>4, <1>5, <1>7, <1>8, <1>9 DEF ChannelNext

----------------------------------------------------------------------------
(* What takes the entry from an agent that is served.                      *)

\* The handler of c is at work: registered and not yet on its way out.
AtWork == {"announce", "pushing", "serving"}

\* A connection of the past: gone for the agent, but registered in this life of
\* the panel.
Past(d) == link[d] = "gone" /\ handler[d] \in Owning \cup {"done"}

\* A send that waits does so on a connection of the past.
StuckIsPast == \A p \in Pushers : stuck[p] # NoConn => Past(stuck[p])

\* A connection is used only when all before it are gone.
OneAfterAnother == \A c, d \in Conns : c < d /\ link[d] # "unused" => link[c] = "gone"

EntryInv == ChannelInv /\ OneAfterAnother /\ StuckIsPast

\* A connection of the past stays one until the panel dies.
LEMMA PastStays ==
    ASSUME ChannelInv, NEW d \in Conns, Past(d), ChannelNext, ~ChannelRestart
    PROVE  Past(d)'
<1> USE NoConnAssumption
    DEF ChannelInv, ChannelTypeOK, LinkStates, HandlerStates, Past, Owning
<1>1. ASSUME NEW c \in Conns, Connect(c) \/ Drop(c) PROVE Past(d)'
    BY <1>1 DEF Connect, Drop
<1>2. ASSUME NEW c \in Conns, RegisterFirst(c) \/ ReplaceBegin(c) \/ ReplaceEnd(c)
      PROVE  Past(d)'
    BY <1>2 DEF RegisterFirst, ReplaceBegin, ReplaceEnd
<1>3. ASSUME NEW c \in Conns, \/ ResyncBegin(c) \/ ResyncEnd(c) \/ NoticeDrop(c)
                              \/ HandlerBreaks(c) \/ Unregister(c)
      PROVE  Past(d)'
    BY <1>3 DEF ResyncBegin, ResyncEnd, NoticeDrop, HandlerBreaks, Unregister
<1>4. ASSUME NEW p \in Pushers, SendSticks(p) \/ SendFails(p) PROVE Past(d)'
    BY <1>4 DEF SendSticks, SendFails
<1>5. CASE OtherSendFails
    BY <1>5 DEF OtherSendFails
<1> QED
    BY <1>1, <1>2, <1>3, <1>4, <1>5 DEF ChannelNext, ChannelStep

\* Connections stay one after another.
LEMMA OneAfterAnotherStays ==
    ASSUME ChannelInv, OneAfterAnother, ChannelNext
    PROVE  OneAfterAnother'
<1> USE DEF ChannelInv, ChannelTypeOK, LinkStates, OneAfterAnother
<1>1. ASSUME NEW c \in Conns, Connect(c) PROVE OneAfterAnother'
    <2>1. \A d \in Conns : d < c => link[d] = "gone"
        BY <1>1 DEF Connect
    <2>2. \A d \in Conns : c < d => link[d] = "unused"
        BY <1>1 DEF Connect
    <2>3. link' = [link EXCEPT ![c] = "up"]
        BY <1>1 DEF Connect
    <2> QED
        BY <2>1, <2>2, <2>3 DEF Conns
<1>2. ASSUME NEW c \in Conns, Drop(c) PROVE OneAfterAnother'
    BY <1>2 DEF Drop
<1>3. ASSUME NEW c \in Conns, ReplaceEnd(c) PROVE OneAfterAnother'
    <2>1. lock = c /\ registered \in Conns
        BY <1>3 DEF ReplaceEnd, LockIsReplacing
    <2>2. handler[registered] # "none"
        BY <2>1, NoConnAssumption DEF RegisteredIsHandled, Owning
    <2>3. link[registered] # "unused"
        BY <2>1, <2>2 DEF UsedInOrder
    <2>4. \A d \in Conns : link'[d] = "unused" <=> link[d] = "unused"
        BY <1>3, <2>1, <2>3 DEF ReplaceEnd
    <2>5. \A d \in Conns : link[d] = "gone" => link'[d] = "gone"
        BY <1>3, <2>1 DEF ReplaceEnd
    <2> QED
        BY <2>4, <2>5
<1>4. CASE ChannelRestart
    BY <1>4 DEF ChannelRestart
<1>5. CASE UNCHANGED link
    BY <1>5
<1> QED
    BY <1>1, <1>2, <1>3, <1>4, <1>5
    DEF ChannelNext, ChannelStep, RegisterFirst, ReplaceBegin, ResyncBegin, ResyncEnd,
        NoticeDrop, HandlerBreaks, Unregister, SendSticks, SendFails, OtherSendFails

\* The WebSocket a new send waits on is a connection of the past.
LEMMA NewStuckIsPast ==
    ASSUME ChannelInv, NEW p \in Pushers, SendSticks(p)
    PROVE  /\ registered \in Conns /\ Past(registered)
           /\ stuck' = [stuck EXCEPT ![p] = registered]
           /\ UNCHANGED <<link, handler>>
BY DEF SendSticks, Past, ChannelInv, ChannelTypeOK, LinkStates, UsedInOrder,
       RegisteredIsHandled, Owning

\* Who waits goes on waiting for the same WebSocket.
LEMMA StuckStays ==
    ASSUME ChannelInv, ChannelNext, NEW p \in Pushers, stuck'[p] # NoConn
    PROVE  stuck'[p] = stuck[p] \/ SendSticks(p)
<1> USE DEF ChannelInv, ChannelTypeOK
<1>1. ASSUME NEW q \in Pushers, SendSticks(q) \/ SendFails(q)
      PROVE  stuck'[p] = stuck[p] \/ SendSticks(p)
    BY <1>1 DEF SendSticks, SendFails
<1>2. ASSUME NEW c \in Conns, ChannelStep(c) PROVE stuck' = stuck
    BY <1>2
    DEF ChannelStep, Connect, Drop, RegisterFirst, ReplaceBegin, ReplaceEnd,
        ResyncBegin, ResyncEnd, NoticeDrop, HandlerBreaks, Unregister
<1> QED
    BY <1>1, <1>2 DEF ChannelNext, OtherSendFails, ChannelRestart

\* The invariant holds at first.
LEMMA EntryInitInv == ChannelInit => EntryInv
    BY ChannelInitInv DEF ChannelInit, EntryInv, OneAfterAnother, StuckIsPast

\* It is inductive.
LEMMA EntryNextInv == EntryInv /\ (ChannelNext \/ UNCHANGED channelVars) => EntryInv'
<1> SUFFICES ASSUME EntryInv, ChannelNext \/ UNCHANGED channelVars
             PROVE  OneAfterAnother' /\ StuckIsPast'
    BY ChannelNextInv DEF EntryInv
<1> USE DEF EntryInv
<1>1. CASE UNCHANGED channelVars
    BY <1>1 DEF channelVars, OneAfterAnother, StuckIsPast, Past
<1>2. CASE ChannelRestart
    <2>1. StuckIsPast'
        BY <1>2 DEF ChannelRestart, StuckIsPast
    <2>2. ChannelNext
        BY <1>2 DEF ChannelNext
    <2> QED
        BY <2>1, <2>2, OneAfterAnotherStays
<1>3. CASE ChannelNext /\ ~ChannelRestart
    <2>1. ASSUME NEW p \in Pushers, stuck'[p] # NoConn
          PROVE  link'[stuck'[p]] = "gone" /\ handler'[stuck'[p]] \in Owning \cup {"done"}
        <3>1. CASE stuck'[p] = stuck[p]
            <4>1. PICK d \in Conns : d = stuck[p]
                BY <2>1, <3>1 DEF ChannelInv, ChannelTypeOK
            <4>2. Past(d)
                BY <2>1, <3>1, <4>1 DEF StuckIsPast
            <4>3. Past(d)'
                BY <1>3, <4>2, PastStays
            <4> QED
                BY <3>1, <4>1, <4>3 DEF Past
        <3>2. CASE SendSticks(p)
            BY <3>2, NewStuckIsPast DEF Past, ChannelInv, ChannelTypeOK
        <3> QED
            BY <1>3, <2>1, <3>1, <3>2, StuckStays
    <2>2. StuckIsPast'
        BY <2>1 DEF StuckIsPast, Past
    <2> QED
        BY <1>3, <2>2, OneAfterAnotherStays
<1> QED
    BY <1>1, <1>2, <1>3

\* A connected agent whose handler is at work loses its entry to nothing but an
\* earlier connection of its own.
LostOnlyToThePast ==
    \A c \in Conns :
        registered = c /\ registered' # c /\ link'[c] = "up" /\ handler'[c] \in AtWork
            => registered' = NoConn /\ \E d \in Conns : d < c /\ Past(d)

\* A connection that was used before one that is up is earlier and gone.
LEMMA OthersAreEarlier ==
    ASSUME ChannelInv, OneAfterAnother, NEW c \in Conns, link[c] = "up",
           NEW d \in Conns, link[d] # "unused", d # c
    PROVE  d < c /\ link[d] = "gone"
<1>1. link[d] = "gone"
    BY DEF ChannelInv, ChannelTypeOK, LinkStates, UsedInOrder
<1>2. ~(c < d)
    BY DEF OneAfterAnother
<1> QED
    BY <1>1, <1>2 DEF Conns

\* Every step of the channel satisfies it.
LEMMA ChannelLosesToThePast ==
    EntryInv /\ (ChannelNext \/ UNCHANGED channelVars) => LostOnlyToThePast
<1> SUFFICES ASSUME EntryInv, ChannelNext, NEW c \in Conns,
                    registered = c, registered' # c,
                    link'[c] = "up", handler'[c] \in AtWork
             PROVE  registered' = NoConn /\ \E d \in Conns : d < c /\ Past(d)
    BY DEF LostOnlyToThePast, channelVars
<1> USE NoConnAssumption DEF EntryInv, ChannelInv, ChannelTypeOK
<1>1. ASSUME NEW d \in Conns, ReplaceEnd(d) PROVE FALSE
    BY <1>1 DEF ReplaceEnd
<1>2. ~ChannelRestart
    BY DEF ChannelRestart
<1>3. ~\E d \in Conns : Connect(d) \/ Drop(d) \/ RegisterFirst(d) \/ ReplaceBegin(d)
                        \/ ResyncBegin(d) \/ ResyncEnd(d) \/ NoticeDrop(d) \/ HandlerBreaks(d)
    BY DEF Connect, Drop, RegisterFirst, ReplaceBegin, ResyncBegin, ResyncEnd, NoticeDrop,
           HandlerBreaks
<1>4. ASSUME NEW d \in Conns, Unregister(d) PROVE registered' = NoConn /\ d < c /\ Past(d)
    <2>1. link[c] = "up" /\ registered' = NoConn /\ handler[d] = "leaving" /\ d # c
        BY <1>4 DEF Unregister, AtWork
    <2>2. link[d] # "unused"
        BY <2>1 DEF UsedInOrder
    <2> QED
        BY <2>1, <2>2, OthersAreEarlier DEF Past, Owning
<1>5. ASSUME NEW p \in Pushers, SendFails(p)
      PROVE  registered' = NoConn /\ \E d \in Conns : d < c /\ Past(d)
    <2>1. PICK d \in Conns : d = stuck[p]
        BY <1>5 DEF SendFails
    <2>2. link[c] = "up" /\ registered' = NoConn /\ Past(d)
        BY <1>5, <2>1 DEF SendFails, StuckIsPast
    <2> QED
        BY <2>2, OthersAreEarlier DEF Past
<1>6. CASE OtherSendFails
    <2>1. PICK d \in Conns : Past(d)
        BY <1>6 DEF OtherSendFails, Past
    <2>2. link[c] = "up" /\ registered' = NoConn
        BY <1>6 DEF OtherSendFails
    <2> QED
        BY <2>1, <2>2, OthersAreEarlier DEF Past
<1>7. ~\E p \in Pushers : SendSticks(p)
    BY DEF SendSticks
<1> QED
    BY <1>1, <1>2, <1>3, <1>4, <1>5, <1>6, <1>7 DEF ChannelNext, ChannelStep
=============================================================================
