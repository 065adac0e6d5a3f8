---------------------------- MODULE AgentChannel ----------------------------
(***************************************************************************)
(* The command channel between the panel and the agent of one node         *)
(* (web/backend/core/agent_manager.py, api/v2/agent_ws.py).                *)
(*                                                                         *)
(* An agent keeps one WebSocket at a time and reconnects when it breaks;   *)
(* the panel runs one handler coroutine per WebSocket it accepted and may  *)
(* notice much later (90 s without a ping) that the other end is gone.     *)
(* Connections are numbered in the order in which they are accepted.  The  *)
(* code keys its registry by node; nodes share nothing but the registry's  *)
(* lock, so one node is modelled.  A step of the model is the code between *)
(* two awaits.                                                             *)
(***************************************************************************)
EXTENDS Integers

CONSTANTS
    MaxConn,   \* bound: how many times the agent connects
    Callers,   \* coroutines that push to the node besides the handlers
    NoConn     \* "no WebSocket": the node has no entry

Conns == 1 .. MaxConn
Pushers == Callers \cup Conns

ASSUME MaxConnAssumption == MaxConn \in Nat \ {0}
ASSUME NoConnAssumption == NoConn \notin Conns
ASSUME CallersAssumption == Callers \cap Conns = {}

VARIABLES
    link,        \* the transport of each WebSocket as the agent sees it
    handler,     \* where the panel's coroutine of each WebSocket stands
    registered,  \* agent_manager._connections.get(node)
    lock,        \* who holds agent_manager._lock across an await
    stuck        \* the WebSocket a send_command awaits and will fail on

channelVars == <<link, handler, registered, lock, stuck>>

\* "gone": broken or closed; its handler learns of it at its next receive.
LinkStates == {"unused", "up", "gone"}
HandlerStates == {"none", "accepted", "replacing", "announce",
                  "pushing", "serving", "leaving", "done", "killed"}

\* Handlers that may still own an entry: registered and not yet past
\* unregister().
Owning == {"announce", "pushing", "serving", "leaving"}

ChannelTypeOK ==
    /\ link \in [Conns -> LinkStates]
    /\ handler \in [Conns -> HandlerStates]
    /\ registered \in Conns \cup {NoConn}
    /\ lock \in Conns \cup {NoConn}
    /\ stuck \in [Pushers -> Conns \cup {NoConn}]

ChannelInit ==
    /\ link = [c \in Conns |-> "unused"]
    /\ handler = [c \in Conns |-> "none"]
    /\ registered = NoConn
    /\ lock = NoConn
    /\ stuck = [p \in Pushers |-> NoConn]

----------------------------------------------------------------------------
(* The agent's side: AgentWSClient.run reconnects until it is connected.   *)

\* The panel checks the token before it accepts; a handshake the agent gives
\* up in the meantime is left out.
Connect(c) ==
    /\ link[c] = "unused"
    /\ \A d \in Conns : link[d] # "up" /\ (d < c => link[d] # "unused")
    /\ link' = [link EXCEPT ![c] = "up"]
    /\ handler' = [handler EXCEPT ![c] = "accepted"]
    /\ UNCHANGED <<registered, lock, stuck>>

Drop(c) ==
    /\ link[c] = "up"
    /\ link' = [link EXCEPT ![c] = "gone"]
    /\ UNCHANGED <<handler, registered, lock, stuck>>

----------------------------------------------------------------------------
(* The panel's handler, agent_websocket.                                   *)

\* (Mutant: a lock that is not granted in the order of arrival.)
RegisterFirstUnfair(c) ==
    /\ handler[c] = "accepted"
    /\ lock = NoConn /\ registered = NoConn
    /\ registered' = c
    /\ handler' = [handler EXCEPT ![c] = "announce"]
    /\ UNCHANGED <<link, lock, stuck>>

\* register(): the lock is granted in the order of arrival.  With no entry
\* to replace nothing is awaited under the lock.
RegisterFirst(c) ==
    /\ handler[c] = "accepted"
    /\ \A d \in Conns : d < c => handler[d] # "accepted"
    /\ lock = NoConn /\ registered = NoConn
    /\ registered' = c
    /\ handler' = [handler EXCEPT ![c] = "announce"]
    /\ UNCHANGED <<link, lock, stuck>>

\* register() with an entry to replace awaits old.close() under the lock ...
ReplaceBegin(c) ==
    /\ handler[c] = "accepted"
    /\ \A d \in Conns : d < c => handler[d] # "accepted"
    /\ lock = NoConn /\ registered # NoConn
    /\ lock' = c
    /\ handler' = [handler EXCEPT ![c] = "replacing"]
    /\ UNCHANGED <<link, registered, stuck>>

\* ... and then puts the new WebSocket in its place.
ReplaceEnd(c) ==
    /\ handler[c] = "replacing"
    /\ link' = [link EXCEPT ![registered] = "gone"]
    /\ registered' = c
    /\ lock' = NoConn
    /\ handler' = [handler EXCEPT ![c] = "announce"]
    /\ UNCHANGED stuck

\* Once it has written and broadcast the status and pushed other settings
\* (nodes.agent_v2_connected and the frontend only mirror the registry, and a
\* push that fails is an OtherSendFails), the handler resynchronises the node:
\* what that does is up to the module that composes.
ResyncBegin(c) ==
    /\ handler[c] = "announce"
    /\ handler' = [handler EXCEPT ![c] = "pushing"]
    /\ UNCHANGED <<link, registered, lock, stuck>>

ResyncEnd(c) ==
    /\ handler[c] = "pushing"
    /\ stuck[c] = NoConn
    /\ handler' = [handler EXCEPT ![c] = "serving"]
    /\ UNCHANGED <<link, registered, lock, stuck>>

\* The receive loop ends: a disconnect, a failed pong or the 90 s timeout.
NoticeDrop(c) ==
    /\ handler[c] = "serving"
    /\ link[c] = "gone"
    /\ handler' = [handler EXCEPT ![c] = "leaving"]
    /\ UNCHANGED <<link, registered, lock, stuck>>

\* Or an error in what it does with a message ends it; the WebSocket is closed
\* some time after (Drop).
HandlerBreaks(c) ==
    /\ handler[c] = "serving"
    /\ link[c] = "up"
    /\ handler' = [handler EXCEPT ![c] = "leaving"]
    /\ UNCHANGED <<link, registered, lock, stuck>>

\* (Mutant: the finally forgets the registry.)
UnregisterForgotten(c) ==
    /\ handler[c] = "leaving"
    /\ lock = NoConn
    /\ handler' = [handler EXCEPT ![c] = "done"]
    /\ UNCHANGED <<link, registered, lock, stuck>>

\* finally: unregister(node) drops whatever the node's entry is by now.
Unregister(c) ==
    /\ handler[c] = "leaving"
    /\ lock = NoConn
    /\ registered' = NoConn
    /\ handler' = [handler EXCEPT ![c] = "done"]
    /\ UNCHANGED <<link, lock, stuck>>

----------------------------------------------------------------------------
(* send_command(node), by any coroutine.  The WebSocket is read when the   *)
(* send starts.  A frame for a live peer goes out without a wait; one for  *)
(* one gone is swallowed by the transport, or waits and fails.             *)

SendReaches(c) == registered = c /\ link[c] = "up"

SendSwallowed == registered # NoConn /\ link[registered] # "up"

SendSticks(p) ==
    /\ registered # NoConn
    /\ link[registered] # "up"
    /\ stuck' = [stuck EXCEPT ![p] = registered]
    /\ UNCHANGED <<link, handler, registered, lock>>

\* The failed send drops whatever the node's entry is by now.
SendFails(p) ==
    /\ stuck[p] # NoConn
    /\ lock = NoConn
    /\ registered' = NoConn
    /\ stuck' = [stuck EXCEPT ![p] = NoConn]
    /\ UNCHANGED <<link, handler, lock>>

\* So does every other command that fails, whoever sends it (a script, a list
\* of blocked addresses, settings of the shaper, keystrokes): its WebSocket was
\* the entry once and is gone for the agent by now.
OtherSendFails ==
    /\ registered # NoConn
    /\ lock = NoConn
    /\ \E c \in Conns : /\ link[c] = "gone"
                        /\ handler[c] \in Owning \cup {"done"}
    /\ registered' = NoConn
    /\ UNCHANGED <<link, handler, lock, stuck>>

\* The panel dies: the registry, the handlers and the sends go with it.
ChannelRestart ==
    /\ link' = [c \in Conns |-> IF link[c] = "unused" THEN "unused" ELSE "gone"]
    /\ handler' = [c \in Conns |-> IF handler[c] = "none" THEN "none" ELSE "killed"]
    /\ registered' = NoConn
    /\ lock' = NoConn
    /\ stuck' = [p \in Pushers |-> NoConn]

----------------------------------------------------------------------------
(* Properties of the channel.                                              *)

\* The registry never keeps a WebSocket whose handler has finished: the
\* panel would go on sending commands into it (agent_ws.py, the finally).
RegisteredIsHandled == registered # NoConn => handler[registered] \in Owning

\* An entry is only ever replaced by a later connection, however handlers,
\* closes and failed sends interleave (agent_manager.py, register).
RegistryMovesForward ==
    [][registered # NoConn /\ registered' # NoConn => registered' >= registered]_channelVars

\* The channel is sound: the agent is connected and served, and commands
\* for the node go to it.
Healthy == \E c \in Conns : handler[c] = "serving" /\ SendReaches(c)

\* A connected agent whose handler serves it is the one commands go to
\* ("Singleton that maps node_uuid -> WebSocket", "tracks active Agent v2
\* WebSocket connections").
RegistryTracksAgent ==
    \A c \in Conns : link[c] = "up" /\ handler[c] = "serving" => registered = c
=============================================================================
