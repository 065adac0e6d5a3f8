------------------------------- MODULE Reports ------------------------------
(***************************************************************************)
(* Reports of connections and torrent events from a node to the panel:     *)
(* the buffers and the main loop of the agent in realtime mode             *)
(* (node-agent/src/main.py), the sender that cuts them into chunks and     *)
(* retries (node-agent/src/sender.py), and the handlers of the collector   *)
(* (web/backend/api/v2/collector.py), of which a slow one may still be at  *)
(* work when its request comes again.                                      *)
(*                                                                         *)
(* Connections are numbered in the order of the log.  Connections of users *)
(* the panel does not know only make a turn of the loop a busy one; the    *)
(* room they take, and the content of the metrics, are left out.           *)
(***************************************************************************)
EXTENDS Integers, Sequences, SequencesExt, FiniteSets

CONSTANTS
    MaxConnections,  \* bound: connections in the log
    MaxEvents,       \* bound: torrent events in the log
    ChunkSize,       \* send_chunk_size, at most what a BatchReport may hold
    EventLimit,      \* torrent events a BatchReport may hold
    MaxRetries,      \* send_max_retries
    MaxBuffer,       \* max_buffer_size
    Handlers,        \* bound: requests the collector works on at once
    NoHandler,       \* the agent awaits no answer
    MaxFaults        \* bound: refused, lost or failing requests, deaths

ASSUME SizesAssumption ==
    /\ ChunkSize \in Nat \ {0}
    /\ MaxRetries \in Nat \ {0}
    /\ MaxBuffer \in Nat \ {0}
ASSUME BoundsAssumption ==
    MaxConnections \in Nat /\ MaxEvents \in Nat /\ EventLimit \in Nat /\ MaxFaults \in Nat
ASSUME HandlersAssumption == IsFiniteSet(Handlers) /\ NoHandler \notin Handlers

VARIABLES
    collected, detected,         \* how many connections and events the log has given
    accumulated_connections,
    accumulated_torrent_events,
    due,                         \* the interval and the backoff have passed
    at,                          \* where the main loop stands
    stopping,                    \* it sends what is left before it ends
    start,                       \* of the chunk, in send_in_chunks
    attempt,                     \* in send_batch
    awaiting,                    \* the handler whose answer it waits for
    handler,                     \* requests in the collector
    stored,                      \* connections written to user_connections
    torrent_rows,                \* rows of torrent_events, for each event
    faults,
    lost,                        \* history: connections dropped, or hit by a fault
    repeated                     \* history: events sent whose answer did not arrive

buffers == <<accumulated_connections, accumulated_torrent_events>>
log == <<collected, detected>>
agent == <<log, buffers, due, at, stopping, start, attempt, awaiting>>
tables == <<stored, torrent_rows>>
vars == <<agent, handler, tables, faults, lost, repeated>>

Connections == 1..MaxConnections
Events == 1..MaxEvents
Idle == [at |-> "free", connections |-> {}, events |-> {}]

TypeOK ==
    /\ collected \in 0..MaxConnections
    /\ detected \in 0..MaxEvents
    /\ accumulated_connections \in Seq(1..collected)
    /\ Len(accumulated_connections) <= MaxBuffer
    /\ accumulated_torrent_events \in Seq(1..detected)
    /\ Len(accumulated_torrent_events) <= MaxBuffer
    /\ due \in BOOLEAN
    /\ at \in {"loop", "post", "await"}
    /\ stopping \in BOOLEAN
    /\ start \in 0..MaxBuffer
    /\ attempt \in 1..MaxRetries
    /\ awaiting \in Handlers \cup {NoHandler}
    /\ handler \in [Handlers -> [at : {"free", "arrived", "stored"},
                                 connections : SUBSET Connections, events : SUBSET Events]]
    /\ stored \subseteq Connections
    /\ torrent_rows \in [Events -> Nat]
    /\ faults \in 0..MaxFaults
    /\ lost \subseteq Connections
    /\ repeated \subseteq Events

Init ==
    /\ collected = 0
    /\ detected = 0
    /\ accumulated_connections = << >>
    /\ accumulated_torrent_events = << >>
    /\ due = FALSE
    /\ at = "loop"
    /\ stopping = FALSE
    /\ start = 0
    /\ attempt = 1
    /\ awaiting = NoHandler
    /\ handler = [h \in Handlers |-> Idle]
    /\ stored = {}
    /\ torrent_rows = [e \in Events |-> 0]
    /\ faults = 0
    /\ lost = {}
    /\ repeated = {}

Fault == faults < MaxFaults /\ faults' = faults + 1

----------------------------------------------------------------------------
(* The main loop of the agent.                                             *)

\* The newest MaxBuffer elements.
Trimmed(s) == SubSeq(s, Len(s) - MaxBuffer + 1, Len(s))

\* (Mutant: a full buffer keeps growing.)
CappedNever(s) == s

\* (Mutant: a full buffer takes nothing new.)
CappedOldest(s) == IF Len(s) > MaxBuffer THEN SubSeq(s, 1, MaxBuffer) ELSE s

Capped(s) == IF Len(s) > MaxBuffer THEN Trimmed(s) ELSE s

Nothing == accumulated_connections = << >> /\ accumulated_torrent_events = << >>

\* (Mutant: only a full chunk is worth sending.)
StartSendingFull ==
    /\ start' = 0
    /\ attempt' = 1
    /\ at' = IF Len(accumulated_connections) < ChunkSize THEN at ELSE "post"

\* send_in_chunks starts.
StartSending == at' = "post" /\ start' = 0 /\ attempt' = 1
StayInLoop == UNCHANGED <<at, start, attempt>>

\* A turn with something new, be it of an unknown user: the buffers grow, the
\* oldest go when they are full, and everything is sent when it is time.
BusyTurn ==
    /\ at = "loop"
    /\ \E c \in 0..(MaxConnections - collected), e \in 0..(MaxEvents - detected) :
           LET grown == accumulated_connections \o [i \in 1..c |-> collected + i]
           IN  /\ collected' = collected + c
               /\ detected' = detected + e
               /\ accumulated_connections' = Capped(grown)
               /\ accumulated_torrent_events' =
                      Capped(accumulated_torrent_events \o [i \in 1..e |-> detected + i])
               /\ lost' = lost \cup (ToSet(grown) \ ToSet(Capped(grown)))
    /\ IF due THEN StartSending ELSE StayInLoop
    /\ due' = FALSE
    /\ UNCHANGED <<stopping, awaiting, handler, tables, faults, repeated>>

\* A turn with nothing new sends nothing but metrics, whatever the buffers hold,
\* and the interval begins anew.
QuietTurn ==
    /\ at = "loop"
    /\ due
    /\ due' = FALSE
    /\ UNCHANGED <<log, buffers, at, stopping, start, attempt, awaiting, handler, tables, faults,
                   lost, repeated>>

TimePasses ==
    /\ at = "loop"
    /\ ~due
    /\ due' = TRUE
    /\ UNCHANGED <<log, buffers, at, stopping, start, attempt, awaiting, handler, tables, faults,
                   lost, repeated>>

\* A signal or the maximal uptime ends the loop: what is left is sent once, and
\* the agent is started again.
Stop ==
    /\ at = "loop"
    /\ due' = FALSE
    /\ IF Nothing THEN UNCHANGED <<at, start, attempt, stopping>>
       ELSE StartSending /\ stopping' = TRUE
    /\ UNCHANGED <<log, buffers, awaiting, handler, tables, faults, lost, repeated>>

----------------------------------------------------------------------------
(* The sender.                                                             *)

Whole == Len(accumulated_connections)
MoreToSend == start + ChunkSize < Whole
Part == SubSeq(accumulated_connections, start + 1,
               IF MoreToSend THEN start + ChunkSize ELSE Whole)

\* (Mutant: the events go with every chunk.)
PartEventsAlways == ToSet(accumulated_torrent_events)

\* The events go with the first chunk, all of them.
PartEvents == IF start = 0 THEN ToSet(accumulated_torrent_events) ELSE {}

\* send_in_chunks returns: what was accepted is deleted, the rest waits for a
\* later turn, or is lost when the agent is stopping.
Return(sent, sent_events) ==
    LET rest == SubSeq(accumulated_connections, sent + 1, Whole)
    IN  /\ at' = "loop"
        /\ stopping' = FALSE
        /\ start' = 0
        /\ attempt' = 1
        /\ awaiting' = NoHandler
        /\ IF stopping
           THEN /\ accumulated_connections' = << >>
                /\ accumulated_torrent_events' = << >>
                /\ lost' = lost \cup ToSet(rest)
           ELSE /\ accumulated_connections' = rest
                /\ accumulated_torrent_events' =
                       IF sent_events THEN << >> ELSE accumulated_torrent_events
                /\ UNCHANGED lost

\* (Mutant: the chunk that failed counts as accepted.)
AttemptFailsForgetting ==
    IF attempt < MaxRetries
    THEN /\ at' = "post"
         /\ attempt' = attempt + 1
         /\ awaiting' = NoHandler
         /\ UNCHANGED <<stopping, start, buffers, lost>>
    ELSE Return(start + Len(Part), start > 0)

\* (Mutant: the next chunk is tried when one has failed.)
AttemptFailsOnward ==
    IF attempt < MaxRetries
    THEN /\ at' = "post"
         /\ attempt' = attempt + 1
         /\ awaiting' = NoHandler
         /\ UNCHANGED <<stopping, start, buffers, lost>>
    ELSE IF MoreToSend
    THEN /\ at' = "post"
         /\ start' = start + ChunkSize
         /\ attempt' = 1
         /\ awaiting' = NoHandler
         /\ UNCHANGED <<stopping, buffers, lost>>
    ELSE Return(0, FALSE)

\* An attempt of send_batch fails; after the last one no further chunk is tried.
AttemptFails ==
    IF attempt < MaxRetries
    THEN /\ at' = "post"
         /\ attempt' = attempt + 1
         /\ awaiting' = NoHandler
         /\ UNCHANGED <<stopping, start, buffers, lost>>
    ELSE Return(start, start > 0)

AttemptSucceeds ==
    IF MoreToSend
    THEN /\ at' = "post"
         /\ start' = start + ChunkSize
         /\ attempt' = 1
         /\ awaiting' = NoHandler
         /\ UNCHANGED <<stopping, buffers, lost>>
    ELSE Return(Whole, TRUE)

\* The request reaches the collector, or does not.
Post ==
    /\ at = "post"
    /\ \/ \E h \in Handlers :
              /\ handler[h] = Idle
              /\ handler' = [handler EXCEPT ![h] =
                     [at |-> "arrived", connections |-> ToSet(Part), events |-> PartEvents]]
              /\ awaiting' = h
              /\ at' = "await"
              /\ UNCHANGED <<stopping, start, attempt, buffers, faults, lost>>
       \/ /\ Fault
          /\ AttemptFails
          /\ UNCHANGED handler
    /\ UNCHANGED <<log, due, tables, repeated>>

\* The answer does not come in time; the handler goes on.
Timeout ==
    /\ at = "await"
    /\ Fault
    /\ repeated' = repeated \cup handler[awaiting].events
    /\ AttemptFails
    /\ UNCHANGED <<log, due, handler, tables>>

----------------------------------------------------------------------------
(* The collector: receive_connections.                                     *)

Free(h) == handler' = [handler EXCEPT ![h] = Idle]
Unheard(h) == awaiting # h /\ UNCHANGED <<stopping, start, attempt, awaiting, at, buffers, lost>>

Valid(h) == Cardinality(handler[h].events) <= EventLimit

\* A report with more events than BatchReport allows is refused, on every
\* attempt; another may be, before anything is stored: it comes too soon after
\* the last one, is for the wrong node, or the users cannot be looked up.
Refuse(h) ==
    /\ handler[h].at = "arrived"
    /\ IF Valid(h) THEN Fault ELSE UNCHANGED faults
    /\ Free(h)
    /\ Unheard(h) \/ (awaiting = h /\ AttemptFails)
    /\ UNCHANGED <<log, due, tables, repeated>>

\* batch_upsert_connections; an error is logged, and the request goes on.
StoreConnections(h) ==
    /\ handler[h].at = "arrived"
    /\ Valid(h)
    /\ handler' = [handler EXCEPT ![h].at = "stored", ![h].connections = {}]
    /\ \/ /\ stored' = stored \cup handler[h].connections
          /\ UNCHANGED <<faults, lost>>
       \/ /\ Fault
          /\ lost' = lost \cup handler[h].connections
          /\ UNCHANGED stored
    /\ UNCHANGED <<agent, torrent_rows, repeated>>

\* batch_save_torrent_events, which inserts whatever is there already, and the
\* answer; an error of the insertion changes nothing about it.
StoreEvents(h) ==
    /\ handler[h].at = "stored"
    /\ Free(h)
    /\ \/ /\ torrent_rows' = [e \in Events |-> IF e \in handler[h].events
                                               THEN torrent_rows[e] + 1 ELSE torrent_rows[e]]
          /\ \/ Unheard(h) /\ UNCHANGED <<faults, repeated>>
             \/ awaiting = h /\ AttemptSucceeds /\ UNCHANGED <<faults, repeated>>
             \/ \* the answer is lost
                /\ awaiting = h /\ Fault /\ AttemptFails
                /\ repeated' = repeated \cup handler[h].events
       \/ /\ Fault
          /\ Unheard(h) \/ (awaiting = h /\ AttemptSucceeds)
          /\ UNCHANGED <<torrent_rows, repeated>>
       \/ \* an error between the two: 500
          /\ Fault
          /\ Unheard(h) \/ (awaiting = h /\ AttemptFails)
          /\ UNCHANGED <<torrent_rows, repeated>>
    /\ UNCHANGED <<log, due, stored>>

----------------------------------------------------------------------------

\* The agent dies, and is started again with empty buffers.
AgentCrash ==
    /\ Fault
    /\ lost' = lost \cup ToSet(accumulated_connections)
    /\ accumulated_connections' = << >>
    /\ accumulated_torrent_events' = << >>
    /\ at' = "loop"
    /\ due' = FALSE
    /\ stopping' = FALSE
    /\ start' = 0
    /\ attempt' = 1
    /\ awaiting' = NoHandler
    /\ UNCHANGED <<log, handler, tables, repeated>>

\* The panel dies: the requests end, and the agent's attempt with them.
PanelCrash ==
    /\ Fault
    /\ \E h \in Handlers : handler[h] # Idle
    /\ handler' = [h \in Handlers |-> Idle]
    /\ IF at = "await" THEN AttemptFails
       ELSE UNCHANGED <<stopping, start, attempt, awaiting, at, buffers, lost>>
    /\ UNCHANGED <<log, due, tables, repeated>>

Handle(h) == Refuse(h) \/ StoreConnections(h) \/ StoreEvents(h)

Next ==
    \/ BusyTurn \/ QuietTurn \/ TimePasses \/ Stop
    \/ Post \/ Timeout
    \/ \E h \in Handlers : Handle(h)
    \/ AgentCrash \/ PanelCrash

\* The event loops of the agent and of the panel run what is ready.
Fairness ==
    /\ WF_vars(TimePasses)
    /\ WF_vars(Post)
    /\ \A h \in Handlers : WF_vars(Handle(h))

Spec == Init /\ [][Next]_vars /\ Fairness

----------------------------------------------------------------------------

\* A connection the agent has read is in its buffer or in the table, unless the
\* buffer overflowed, the agent died or stopped, or the collector failed to
\* store it (send_in_chunks, the deletion of what it says was accepted).
NothingForgotten ==
    \A i \in 1..collected :
        \/ i \in ToSet(accumulated_connections)
        \/ i \in stored
        \/ i \in lost

\* Connections reach the table in the order of the log, whichever requests are
\* repeated, late or lost: no chunk overtakes one that failed (send_in_chunks).
StoredInOrder ==
    \A j \in stored : \A i \in 1..(j - 1) : i \in stored \/ i \in lost

\* An event gets a second row only if an answer about it was not heard
\* (send_in_chunks sends events once, batch_save_torrent_events checks nothing).
EventsOnce ==
    \A e \in Events : torrent_rows[e] > 1 => e \in repeated

\* More events have gathered than a report may hold.  The first chunk carries
\* them all, so from here on nothing is accepted until the agent starts anew.
Clogged == Len(accumulated_torrent_events) > EventLimit

\* If turns that bring something find the timer ready again and again, a
\* connection in the buffer reaches the table, unless it is lost for one of the
\* reasons above or the events clog the way (the timer and the backoff of the
\* main loop, BatchReport).  Quiet turns may postpone it, and without busy ones
\* it waits for ever.
DrainsWhenBusy ==
    []<><<BusyTurn /\ due>>_vars =>
        \A i \in Connections :
            i \in ToSet(accumulated_connections) ~> i \in stored \cup lost \/ Clogged

----------------------------------------------------------------------------
(* What the agent and the collector promise together.                      *)

Transfer == INSTANCE LogTransfer WITH
    Length <- MaxConnections,
    Room <- MaxBuffer,
    read <- collected,
    held <- ToSet(accumulated_connections)

\* However requests are cut, repeated, answered late or lost, the connections
\* are a log transferred in order through a bounded buffer: what leaves the
\* buffer has arrived or is counted as lost, and a running agent throws away
\* only the oldest, and only when the buffer is full (main.py:287-314,
\* send_in_chunks, receive_connections).
TransfersLog == Transfer!Spec
=============================================================================
