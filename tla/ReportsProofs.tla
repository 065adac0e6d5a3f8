---------------------------- MODULE ReportsProofs ---------------------------
(***************************************************************************)
(* Proofs about Reports for any log, chunks, retries, buffers, handlers    *)
(* and faults: nothing is forgotten, nothing overtakes, and events are     *)
(* stored once unless an answer was not heard.                             *)
(*                                                                         *)
(* The buffer always holds the end of the log, so sets of connections are  *)
(* intervals, and all that has to be said of the sender is how far it got. *)
(***************************************************************************)
EXTENDS Reports, SequenceTheorems, FiniteSetTheorems, TLAPS

\* The buffer is the end of the log.
BufferIsTail ==
    \A k \in 1..Whole : accumulated_connections[k] = collected - Whole + k

\* How much of the log has left the buffer, and where the next chunk ends.
Gone == collected - Whole
PartEnd == IF MoreToSend THEN start + ChunkSize ELSE Whole

\* Where the sender may stand.
InPlace ==
    /\ start <= Whole
    /\ at = "loop" => start = 0
    /\ at = "await" <=> awaiting # NoHandler

Base == TypeOK /\ InPlace /\ BufferIsTail

\* A buffer that holds the end of the log holds an interval.
LEMMA TailIsInterval ==
    ASSUME TypeOK, BufferIsTail
    PROVE  /\ Whole \in Nat /\ Gone \in Nat
           /\ ToSet(accumulated_connections) = (Gone + 1)..collected
<1>1. Whole \in Nat /\ collected \in Nat /\ DOMAIN accumulated_connections = 1..Whole
    BY BoundsAssumption DEF TypeOK, Whole
<1>2. \A i \in (Gone + 1)..collected : i - Gone \in 1..Whole /\ accumulated_connections[i - Gone] = i
    BY <1>1 DEF BufferIsTail, Gone
<1>3. Gone \in Nat
    <2>1. CASE Whole = 0
        BY <1>1, <2>1 DEF Gone
    <2>2. CASE Whole # 0
        <3>1. accumulated_connections[1] \in 1..collected
            BY <1>1, <2>2 DEF TypeOK, Whole
        <3> QED
            BY <1>1, <2>2, <3>1 DEF BufferIsTail, Gone
    <2> QED
        BY <2>1, <2>2
<1> QED
    BY <1>1, <1>2, <1>3 DEF BufferIsTail, Gone, ToSet

\* So does a part of it.
LEMMA PartIsInterval ==
    ASSUME TypeOK, BufferIsTail, start <= Whole
    PROVE  /\ PartEnd \in start..Whole
           /\ ToSet(Part) = (Gone + start + 1)..(Gone + PartEnd)
<1>1. /\ Whole \in Nat /\ collected \in Nat /\ start \in Nat
      /\ accumulated_connections \in Seq(Int)
    BY BoundsAssumption DEF TypeOK, Whole
<1>2. PartEnd \in start..Whole
    BY <1>1, SizesAssumption DEF PartEnd, MoreToSend
<1>3. /\ Len(Part) = PartEnd - start
      /\ Part \in Seq(Int)
      /\ \A k \in 1..(PartEnd - start) : Part[k] = accumulated_connections[start + k]
    BY <1>1, <1>2 DEF Part, PartEnd, Whole
<1>4. \A k \in 1..(PartEnd - start) : Part[k] = Gone + start + k
    BY <1>1, <1>2, <1>3 DEF BufferIsTail, Gone
<1>5. \A i \in (Gone + start + 1)..(Gone + PartEnd) :
          i - Gone - start \in 1..(PartEnd - start) /\ Part[i - Gone - start] = i
    BY <1>1, <1>2, <1>4 DEF Gone
<1>6. DOMAIN Part = 1..(PartEnd - start)
    BY <1>3
<1> QED
    BY <1>1, <1>2, <1>4, <1>5, <1>6 DEF ToSet, Gone

\* What a capped buffer keeps.
LEMMA CappedKeeps ==
    ASSUME NEW S, NEW s \in Seq(S)
    PROVE  /\ Capped(s) \in Seq(S)
           /\ Len(Capped(s)) <= MaxBuffer /\ Len(Capped(s)) <= Len(s)
           /\ \A k \in 1..Len(Capped(s)) : Capped(s)[k] = s[Len(s) - Len(Capped(s)) + k]
<1> Len(s) \in Nat
    OBVIOUS
<1>1. CASE Len(s) <= MaxBuffer
    <2>1. Capped(s) = s
        BY <1>1, SizesAssumption DEF Capped
    <2>2. \A k \in 1..Len(s) : Len(s) - Len(s) + k = k
        OBVIOUS
    <2> QED
        BY <1>1, <2>1, <2>2
<1>2. CASE Len(s) > MaxBuffer
    <2>1. /\ Trimmed(s) \in Seq(S)
          /\ Len(Trimmed(s)) = MaxBuffer
          /\ \A k \in 1..MaxBuffer : Trimmed(s)[k] = s[Len(s) - MaxBuffer + k]
        BY <1>2, SizesAssumption DEF Trimmed
    <2>2. Capped(s) = Trimmed(s)
        BY <1>2, SizesAssumption DEF Capped
    <2> QED
        BY <1>2, <2>1, <2>2, SizesAssumption
<1> QED
    BY <1>1, <1>2, SizesAssumption

\* What returning from send_in_chunks leaves of the buffer.
Rest(sent) == SubSeq(accumulated_connections, sent + 1, Whole)

LEMMA RestKeeps ==
    ASSUME TypeOK, NEW sent \in 0..Whole
    PROVE  /\ Rest(sent) \in Seq(1..collected)
           /\ Len(Rest(sent)) = Whole - sent
           /\ \A k \in 1..(Whole - sent) : Rest(sent)[k] = accumulated_connections[sent + k]
    BY DEF TypeOK, Whole, Rest

----------------------------------------------------------------------------
(* Types.                                                                  *)

LEMMA InitType == Init => TypeOK
<1> SUFFICES ASSUME Init PROVE TypeOK
    OBVIOUS
<1>1. << >> \in Seq(1..0) /\ Len(<< >>) = 0
    OBVIOUS
<1>2. /\ accumulated_connections \in Seq(1..collected)
      /\ accumulated_torrent_events \in Seq(1..detected)
      /\ Len(accumulated_connections) <= MaxBuffer
      /\ Len(accumulated_torrent_events) <= MaxBuffer
    BY <1>1, SizesAssumption DEF Init
<1>3. Idle \in [at : {"free", "arrived", "stored"}, connections : SUBSET Connections,
                events : SUBSET Events]
    BY DEF Idle
<1>4. /\ handler \in [Handlers -> [at : {"free", "arrived", "stored"},
                                   connections : SUBSET Connections, events : SUBSET Events]]
      /\ torrent_rows \in [Events -> Nat]
    BY <1>3 DEF Init
<1>5. /\ collected \in 0..MaxConnections /\ detected \in 0..MaxEvents
      /\ start \in 0..MaxBuffer /\ attempt \in 1..MaxRetries /\ faults \in 0..MaxFaults
    BY SizesAssumption, BoundsAssumption DEF Init
<1> QED
    BY <1>2, <1>4, <1>5 DEF Init, TypeOK

\* The part of TypeOK the sender writes.
SenderType ==
    /\ accumulated_connections \in Seq(1..collected)
    /\ Len(accumulated_connections) <= MaxBuffer
    /\ accumulated_torrent_events \in Seq(1..detected)
    /\ Len(accumulated_torrent_events) <= MaxBuffer
    /\ at \in {"loop", "post"}
    /\ stopping \in BOOLEAN
    /\ start \in 0..MaxBuffer
    /\ attempt \in 1..MaxRetries
    /\ awaiting = NoHandler
    /\ lost \subseteq Connections

LEMMA ReturnType ==
    ASSUME TypeOK, NEW sent \in 0..Whole, NEW sent_events, Return(sent, sent_events),
           UNCHANGED log
    PROVE  SenderType'
<1>1. Rest(sent) \in Seq(1..collected) /\ Len(Rest(sent)) <= MaxBuffer
    <2>1. Whole \in Nat /\ Whole <= MaxBuffer
        BY DEF TypeOK, Whole
    <2> QED
        BY <2>1, RestKeeps, SizesAssumption
<1>2. ToSet(Rest(sent)) \subseteq Connections
    <2>1. 1..collected \subseteq Connections
        BY BoundsAssumption DEF TypeOK, Connections
    <2>2. \A k \in DOMAIN Rest(sent) : Rest(sent)[k] \in 1..collected
        BY <1>1, ElementOfSeq, LenProperties
    <2> QED
        BY <2>1, <2>2 DEF ToSet
<1>3. collected' = collected /\ detected' = detected
    BY DEF log
<1>4. << >> \in Seq(1..collected) /\ << >> \in Seq(1..detected) /\ Len(<< >>) = 0
    OBVIOUS
<1>5. /\ \/ accumulated_connections' = << >>
         \/ accumulated_connections' = Rest(sent)
      /\ \/ accumulated_torrent_events' = << >>
         \/ accumulated_torrent_events' = accumulated_torrent_events
      /\ lost' \in {lost, lost \cup ToSet(Rest(sent))}
    BY DEF Return, Rest
<1>6. at' = "loop" /\ stopping' = FALSE /\ start' = 0 /\ attempt' = 1 /\ awaiting' = NoHandler
    BY DEF Return
<1>7. /\ accumulated_connections' \in Seq(1..collected)
      /\ Len(accumulated_connections') <= MaxBuffer
    <2>1. CASE accumulated_connections' = << >>
        BY <1>4, <2>1, SizesAssumption
    <2>2. CASE accumulated_connections' = Rest(sent)
        BY <1>1, <2>2
    <2> QED
        BY <1>5, <2>1, <2>2
<1>8. /\ accumulated_torrent_events' \in Seq(1..detected)
      /\ Len(accumulated_torrent_events') <= MaxBuffer
    <2>1. CASE accumulated_torrent_events' = << >>
        BY <1>4, <2>1, SizesAssumption
    <2>2. CASE accumulated_torrent_events' = accumulated_torrent_events
        BY <2>2 DEF TypeOK
    <2> QED
        BY <1>5, <2>1, <2>2
<1>9. lost' \subseteq Connections
    BY <1>2, <1>5 DEF TypeOK
<1>10. start' \in 0..MaxBuffer /\ attempt' \in 1..MaxRetries
    BY <1>6, SizesAssumption
<1> QED
    BY <1>3, <1>6, <1>7, <1>8, <1>9, <1>10 DEF SenderType

\* An attempt ends, well or badly.
LEMMA AttemptType ==
    ASSUME TypeOK, start <= Whole, AttemptFails \/ AttemptSucceeds, UNCHANGED log
    PROVE  SenderType'
<1>1. collected' = collected /\ detected' = detected
    BY DEF log
<1>2. start \in 0..Whole /\ Whole \in 0..Whole /\ Whole \in Nat
    BY DEF TypeOK, Whole
<1>3. CASE Return(start, start > 0) \/ Return(Whole, TRUE)
    BY <1>2, <1>3, ReturnType
<1>4. CASE ~(Return(start, start > 0) \/ Return(Whole, TRUE))
    <2>1. /\ at' = "post" /\ awaiting' = NoHandler
          /\ UNCHANGED <<stopping, accumulated_connections, accumulated_torrent_events, lost>>
          /\ \/ attempt < MaxRetries /\ attempt' = attempt + 1 /\ start' = start
             \/ start + ChunkSize < Whole /\ start' = start + ChunkSize /\ attempt' = 1
        <3>1. CASE AttemptFails
            BY <1>4, <3>1 DEF AttemptFails, buffers
        <3>2. CASE AttemptSucceeds
            BY <1>4, <3>2 DEF AttemptSucceeds, MoreToSend, buffers
        <3> QED
            BY <3>1, <3>2
    <2>2. start' \in 0..MaxBuffer /\ attempt' \in 1..MaxRetries
        BY <2>1, <1>2, SizesAssumption DEF TypeOK, Whole
    <2> QED
        BY <1>1, <2>1, <2>2 DEF TypeOK, SenderType
<1> QED
    BY <1>3, <1>4
\* ... and leaves the buffer and the sender's place in order.
LEMMA AttemptPlace ==
    ASSUME Base, AttemptFails \/ AttemptSucceeds, UNCHANGED log
    PROVE  InPlace' /\ BufferIsTail'
<1>1. SenderType' /\ start \in 0..Whole /\ Whole \in Nat /\ collected' = collected /\ collected \in Nat
    BY AttemptType, BoundsAssumption DEF Base, InPlace, log, TypeOK, Whole
<1>2. CASE accumulated_connections' = accumulated_connections /\ at' # "loop"
    <2>1. start' <= Whole
        BY <1>1, <1>2, SizesAssumption DEF AttemptFails, AttemptSucceeds, Return, MoreToSend, TypeOK
    <2> QED
        BY <1>1, <1>2, <2>1 DEF Base, InPlace, BufferIsTail, Whole, SenderType
<1>3. CASE \E sent \in 0..Whole : accumulated_connections' = Rest(sent) /\ at' = "loop" /\ start' = 0
    <2>1. PICK sent \in 0..Whole : accumulated_connections' = Rest(sent)
        BY <1>3
    <2>2. Whole' = Whole - sent
        BY <2>1, RestKeeps DEF Base, Whole
    <2>3. \A k \in 1..(Whole - sent) : accumulated_connections'[k] = collected - (Whole - sent) + k
        <3> TAKE k \in 1..(Whole - sent)
        <3>1. accumulated_connections'[k] = accumulated_connections[sent + k]
            BY <2>1, RestKeeps DEF Base
        <3>2. sent + k \in 1..Whole
            BY <1>1
        <3> QED
            BY <1>1, <3>1, <3>2 DEF Base, BufferIsTail
    <2> QED
        BY <1>1, <1>3, <2>2, <2>3 DEF InPlace, BufferIsTail, SenderType
<1>4. CASE accumulated_connections' = << >> /\ at' = "loop" /\ start' = 0
    BY <1>1, <1>4 DEF InPlace, BufferIsTail, SenderType, Whole
<1>5. ASSUME NEW sent \in 0..Whole, NEW sent_events, Return(sent, sent_events)
      PROVE  InPlace' /\ BufferIsTail'
    BY <1>3, <1>4, <1>5 DEF Return, Rest
<1>6. CASE ~(Return(start, start > 0) \/ Return(Whole, TRUE))
    BY <1>2, <1>6 DEF AttemptFails, AttemptSucceeds, buffers
<1>7. CASE Return(start, start > 0)
    BY <1>1, <1>5, <1>7
<1>8. CASE Return(Whole, TRUE)
    <2>1. Whole \in 0..Whole
        BY <1>1
    <2> QED
        BY <1>5, <1>8, <2>1
<1> QED
    BY <1>6, <1>7, <1>8

\* What a request carries.
LEMMA PartTypes ==
    ASSUME Base
    PROVE  ToSet(Part) \subseteq Connections /\ PartEvents \subseteq Events
<1>1. ToSet(Part) \subseteq 1..collected
    <2>1. /\ Whole \in Nat /\ Gone \in Nat /\ collected \in Nat /\ start \in Nat
          /\ Gone + Whole = collected
        BY TailIsInterval, BoundsAssumption DEF Base, TypeOK, Gone
    <2>2. /\ PartEnd \in start..Whole
          /\ ToSet(Part) = (Gone + start + 1)..(Gone + PartEnd)
        BY PartIsInterval DEF Base, InPlace
    <2> QED
        BY <2>1, <2>2
<1>2. 1..collected \subseteq Connections /\ 1..detected \subseteq Events
    BY BoundsAssumption DEF Base, TypeOK, Connections, Events
<1>3. \A k \in DOMAIN accumulated_torrent_events : accumulated_torrent_events[k] \in 1..detected
    BY LenProperties, ElementOfSeq DEF Base, TypeOK
<1> QED
    BY <1>1, <1>2, <1>3 DEF PartEvents, ToSet
Requests == [at : {"free", "arrived", "stored"}, connections : SUBSET Connections,
             events : SUBSET Events]

\* The part of TypeOK the collector writes.
CollectorType ==
    /\ handler \in [Handlers -> Requests]
    /\ stored \subseteq Connections
    /\ torrent_rows \in [Events -> Nat]
    /\ faults \in 0..MaxFaults
    /\ repeated \subseteq Events

LEMMA FaultType == ASSUME Base, Fault PROVE faults' \in 0..MaxFaults
    BY BoundsAssumption DEF Base, TypeOK, Fault

LEMMA IdleType == Idle \in Requests
    BY DEF Idle, Requests

\* A step in which an attempt ends keeps the types and the buffer in order.
LEMMA AttemptBase ==
    ASSUME Base, AttemptFails \/ AttemptSucceeds, UNCHANGED <<log, due>>, CollectorType'
    PROVE  Base'
<1>1. SenderType' /\ InPlace' /\ BufferIsTail'
    BY AttemptType, AttemptPlace DEF Base, InPlace
<1>2. collected' = collected /\ detected' = detected /\ due' = due
    BY DEF log
<1> QED
    BY <1>1, <1>2 DEF Base, TypeOK, SenderType, CollectorType, Requests

\* So does one that leaves the sender and the buffer alone.
LEMMA OthersBase ==
    ASSUME Base, UNCHANGED <<log, due, stopping, start, attempt, awaiting, at, buffers>>,
           lost' \subseteq Connections, CollectorType'
    PROVE  Base'
<1>1. TypeOK'
    BY DEF Base, TypeOK, CollectorType, Requests, log, buffers
<1> QED
    BY <1>1 DEF Base, InPlace, BufferIsTail, Whole, log, buffers
\* A busy turn: the buffers with what is new.
GrownBy(c) == accumulated_connections \o [i \in 1..c |-> collected + i]

LEMMA GrownKeeps ==
    ASSUME Base, NEW c \in 0..(MaxConnections - collected)
    PROVE  /\ collected + c \in 0..MaxConnections
           /\ GrownBy(c) \in Seq(1..(collected + c))
           /\ Len(GrownBy(c)) = Whole + c
           /\ \A k \in 1..(Whole + c) : GrownBy(c)[k] = Gone + k
<1>1. collected \in Nat /\ c \in Nat /\ Whole \in Nat /\ Gone = collected - Whole
    BY BoundsAssumption DEF Base, TypeOK, Whole, Gone
<1>2. /\ accumulated_connections \in Seq(1..(collected + c))
      /\ [i \in 1..c |-> collected + i] \in Seq(1..(collected + c))
    <2>1. 1..collected \subseteq 1..(collected + c)
        BY <1>1
    <2> QED
        BY <1>1, <2>1, SeqMonotonic DEF Base, TypeOK
<1>3. Len([i \in 1..c |-> collected + i]) = c
    BY <1>1
<1> DEFINE new == [i \in 1..c |-> collected + i]
<1>4. /\ GrownBy(c) \in Seq(1..(collected + c))
      /\ Len(GrownBy(c)) = Whole + c
      /\ \A k \in 1..Whole : GrownBy(c)[k] = accumulated_connections[k]
      /\ \A k \in (Whole + 1)..(Whole + c) : GrownBy(c)[k] = new[k - Whole]
    <2> HIDE DEF new
    <2> QED
        BY <1>1, <1>2, <1>3 DEF GrownBy, Whole, new
<1>5. \A k \in 1..(Whole + c) : GrownBy(c)[k] = Gone + k
    <2> TAKE k \in 1..(Whole + c)
    <2>1. CASE k <= Whole
        <3>1. k \in 1..Whole /\ GrownBy(c)[k] = accumulated_connections[k]
            BY <1>1, <1>4, <2>1
        <3> QED
            BY <1>1, <3>1 DEF Base, BufferIsTail
    <2>2. CASE k > Whole
        <3>1. k - Whole \in 1..c /\ GrownBy(c)[k] = new[k - Whole]
            BY <1>1, <1>4, <2>2
        <3>2. new[k - Whole] = collected + (k - Whole)
            BY <3>1
        <3> QED
            BY <1>1, <3>1, <3>2
    <2> QED
        BY <1>1, <2>1, <2>2
<1> QED
    BY <1>1, <1>4, <1>5, BoundsAssumption DEF Base, TypeOK

LEMMA BusyBase == ASSUME Base, BusyTurn PROVE Base'
<1>1. PICK c \in 0..(MaxConnections - collected), e \in 0..(MaxEvents - detected) :
          /\ collected' = collected + c
          /\ detected' = detected + e
          /\ accumulated_connections' = Capped(GrownBy(c))
          /\ accumulated_torrent_events' =
                 Capped(accumulated_torrent_events \o [i \in 1..e |-> detected + i])
          /\ lost' = lost \cup (ToSet(GrownBy(c)) \ ToSet(Capped(GrownBy(c))))
    BY DEF BusyTurn, GrownBy
<1>2. /\ collected' \in 0..MaxConnections /\ collected' \in Nat /\ collected \in Nat
      /\ GrownBy(c) \in Seq(1..collected')
      /\ Len(GrownBy(c)) = Whole + c /\ c \in Nat /\ Whole \in Nat
      /\ \A k \in 1..(Whole + c) : GrownBy(c)[k] = Gone + k
    <2>1. /\ collected + c \in 0..MaxConnections
          /\ GrownBy(c) \in Seq(1..(collected + c))
          /\ Len(GrownBy(c)) = Whole + c
          /\ \A k \in 1..(Whole + c) : GrownBy(c)[k] = Gone + k
        BY GrownKeeps
    <2>2. c \in Nat /\ collected \in Nat /\ Whole \in Nat
        BY TailIsInterval, BoundsAssumption DEF Base, TypeOK
    <2> QED
        BY <1>1, <2>1, <2>2
<1>3. /\ accumulated_connections' \in Seq(1..collected')
      /\ Len(accumulated_connections') <= MaxBuffer
      /\ Len(accumulated_connections') <= Whole + c
      /\ \A k \in 1..Len(accumulated_connections') :
             accumulated_connections'[k] = GrownBy(c)[Whole + c - Len(accumulated_connections') + k]
    <2>1. /\ Capped(GrownBy(c)) \in Seq(1..collected')
          /\ Len(Capped(GrownBy(c))) <= MaxBuffer /\ Len(Capped(GrownBy(c))) <= Len(GrownBy(c))
          /\ \A k \in 1..Len(Capped(GrownBy(c))) : Capped(GrownBy(c))[k] =
                 GrownBy(c)[Len(GrownBy(c)) - Len(Capped(GrownBy(c))) + k]
        BY <1>2, CappedKeeps
    <2> QED
        BY <1>1, <1>2, <2>1
<1>4. BufferIsTail'
    <2>1. Whole' = Len(accumulated_connections') /\ Whole' \in Nat
        BY <1>3 DEF Whole
    <2> SUFFICES ASSUME NEW k \in 1..Whole'
                 PROVE  accumulated_connections'[k] = collected' - Whole' + k
        BY DEF BufferIsTail
    <2>2. Whole + c - Whole' + k \in 1..(Whole + c)
        BY <1>2, <1>3, <2>1
    <2>3. accumulated_connections'[k] = Gone + (Whole + c - Whole' + k)
        BY <1>2, <1>3, <2>1, <2>2
    <2> QED
        BY <1>1, <1>2, <2>1, <2>3 DEF Gone
<1>5. /\ detected' \in 0..MaxEvents
      /\ accumulated_torrent_events' \in Seq(1..detected')
      /\ Len(accumulated_torrent_events') <= MaxBuffer
    <2>1. detected \in Nat /\ e \in Nat /\ detected' = detected + e /\ detected' \in 0..MaxEvents
        BY <1>1, BoundsAssumption DEF Base, TypeOK
    <2>2. 1..detected \subseteq 1..detected'
        BY <2>1
    <2>3. accumulated_torrent_events \in Seq(1..detected')
        BY <2>2, SeqMonotonic DEF Base, TypeOK
    <2>4. [i \in 1..e |-> detected + i] \in Seq(1..detected')
        BY <2>1
    <2>5. accumulated_torrent_events \o [i \in 1..e |-> detected + i] \in Seq(1..detected')
        BY <2>3, <2>4
    <2> QED
        BY <1>1, <2>1, <2>5, CappedKeeps
<1>6. lost' \subseteq Connections
    <2>1. ToSet(GrownBy(c)) \subseteq 1..collected'
        BY <1>2, LenProperties, ElementOfSeq DEF ToSet
    <2>2. 1..collected' \subseteq Connections
        BY <1>2, BoundsAssumption DEF Connections
    <2> QED
        BY <1>1, <2>1, <2>2 DEF Base, TypeOK
<1>7. /\ at' \in {"loop", "post"} /\ start' = 0 /\ attempt' \in 1..MaxRetries
      /\ awaiting' = NoHandler
    <2>1. at = "loop" /\ start = 0 /\ awaiting = NoHandler /\ awaiting' = awaiting
        BY DEF BusyTurn, Base, InPlace
    <2> QED
        BY <2>1, SizesAssumption DEF BusyTurn, StartSending, StayInLoop, Base, TypeOK
<1>8. InPlace'
    BY <1>3, <1>7 DEF InPlace, Whole
<1>9. UNCHANGED <<stopping, handler, stored, torrent_rows, faults, repeated>> /\ due' = FALSE
    BY DEF BusyTurn, tables
<1>10. TypeOK'
    <2>1. /\ due' \in BOOLEAN /\ stopping' \in BOOLEAN
          /\ at' \in {"loop", "post", "await"} /\ start' \in 0..MaxBuffer
          /\ awaiting' \in Handlers \cup {NoHandler}
        <3>1. start' \in 0..MaxBuffer
            BY <1>7, SizesAssumption
        <3>2. due' \in BOOLEAN /\ stopping' \in BOOLEAN
            BY <1>9 DEF Base, TypeOK
        <3> QED
            BY <1>7, <3>1, <3>2
    <2>2. CollectorType'
        BY <1>9 DEF Base, TypeOK, CollectorType, Requests
    <2> QED
        BY <1>2, <1>3, <1>5, <1>6, <1>7, <2>1, <2>2 DEF TypeOK, CollectorType, Requests
<1> QED
    BY <1>4, <1>8, <1>10 DEF Base
\* Every step keeps the types, the sender's place and the end of the log.
LEMMA NextBase == Base /\ [Next]_vars => Base'
<1> SUFFICES ASSUME Base, [Next]_vars PROVE Base'
    OBVIOUS
<1>0. /\ handler \in [Handlers -> Requests] /\ stored \subseteq Connections
      /\ torrent_rows \in [Events -> Nat] /\ faults \in 0..MaxFaults
      /\ repeated \subseteq Events /\ lost \subseteq Connections
      /\ awaiting \in Handlers \cup {NoHandler} /\ NoHandler \notin Handlers
    BY HandlersAssumption DEF Base, TypeOK, Requests
<1>1. CASE BusyTurn
    BY <1>1, BusyBase
<1>2. CASE QuietTurn \/ TimePasses
    BY <1>2 DEF QuietTurn, TimePasses, Base, TypeOK, InPlace, BufferIsTail, Whole, log, buffers, tables
<1>3. CASE Stop
    <2>1. /\ at = "loop" /\ start = 0 /\ awaiting = NoHandler /\ due' = FALSE
          /\ UNCHANGED <<log, buffers, awaiting, handler, tables, faults, lost, repeated>>
        BY <1>3 DEF Stop, Base, InPlace
    <2>2. /\ at' \in {"loop", "post"} /\ start' = 0 /\ attempt' \in 1..MaxRetries /\ stopping' \in BOOLEAN
        <3>1. CASE Nothing
            BY <1>3, <2>1, <3>1 DEF Stop, Base, TypeOK
        <3>2. CASE ~Nothing
            BY <1>3, <2>1, <3>2, SizesAssumption DEF Stop, StartSending
        <3> QED
            BY <3>1, <3>2
    <2>3. start' \in 0..MaxBuffer
        BY <2>2, SizesAssumption
    <2> QED
        BY <2>1, <2>2, <2>3 DEF Base, TypeOK, InPlace, BufferIsTail, Whole, log, buffers, tables
<1>4. CASE Post
    <2>1. ASSUME NEW h \in Handlers,
                 handler' = [handler EXCEPT ![h] =
                     [at |-> "arrived", connections |-> ToSet(Part), events |-> PartEvents]],
                 awaiting' = h, at' = "await",
                 UNCHANGED <<stopping, start, attempt, buffers, faults, lost>>
          PROVE  Base'
        <3>1. handler' \in [Handlers -> Requests]
            BY <1>0, <2>1, PartTypes DEF Requests
        <3> QED
            BY <1>0, <1>4, <2>1, <3>1
            DEF Post, Base, TypeOK, InPlace, BufferIsTail, Whole, Requests, log, buffers, tables
    <2>2. CASE Fault /\ AttemptFails /\ UNCHANGED handler
        BY <1>0, <1>4, <2>2, FaultType, AttemptBase DEF Post, CollectorType, tables
    <2> QED
        BY <1>4, <2>1, <2>2 DEF Post
<1>5. CASE Timeout
    <2>1. awaiting \in Handlers /\ handler[awaiting].events \subseteq Events
        BY <1>0, <1>5 DEF Timeout, Base, InPlace, Requests
    <2>2. CollectorType'
        BY <1>0, <1>5, <2>1, FaultType DEF Timeout, CollectorType, tables
    <2> QED
        BY <1>5, <2>2, AttemptBase DEF Timeout
<1>6. ASSUME NEW h \in Handlers, Refuse(h) PROVE Base'
    <2>1. CollectorType'
        BY <1>0, <1>6, FaultType, IdleType DEF Refuse, Free, CollectorType, tables
    <2>2. CASE Unheard(h)
        BY <1>0, <1>6, <2>1, <2>2, OthersBase DEF Refuse, Unheard
    <2> QED
        BY <1>6, <2>1, <2>2, AttemptBase DEF Refuse
<1>7. ASSUME NEW h \in Handlers, StoreConnections(h) PROVE Base'
    <2>1. handler[h].connections \subseteq Connections /\ handler[h] \in Requests
        BY <1>0 DEF Requests
    <2>2. handler' \in [Handlers -> Requests]
        <3>1. [[handler[h] EXCEPT !.at = "stored"] EXCEPT !.connections = {}] \in Requests
            BY <2>1 DEF Requests
        <3> QED
            BY <1>0, <1>7, <3>1 DEF StoreConnections
    <2>3. CollectorType' /\ lost' \subseteq Connections
        BY <1>0, <1>7, <2>1, <2>2, FaultType DEF StoreConnections, CollectorType
    <2> QED
        BY <1>7, <2>3, OthersBase DEF StoreConnections, agent
<1>8. ASSUME NEW h \in Handlers, StoreEvents(h) PROVE Base'
    <2>1. handler[h].events \subseteq Events /\ handler' \in [Handlers -> Requests]
        BY <1>0, <1>8, IdleType DEF StoreEvents, Free, Requests
    <2>2. torrent_rows' \in [Events -> Nat]
        BY <1>0, <1>8 DEF StoreEvents
    <2>3. repeated' \subseteq Events /\ faults' \in 0..MaxFaults
        BY <1>0, <1>8, <2>1, FaultType DEF StoreEvents
    <2>4. CollectorType'
        BY <1>0, <1>8, <2>1, <2>2, <2>3 DEF StoreEvents, CollectorType
    <2>5. CASE Unheard(h)
        BY <1>0, <1>8, <2>4, <2>5, OthersBase DEF StoreEvents, Unheard
    <2>6. CASE AttemptFails \/ AttemptSucceeds
        BY <1>8, <2>4, <2>6, AttemptBase DEF StoreEvents
    <2> QED
        BY <1>8, <2>5, <2>6 DEF StoreEvents
<1>9. CASE AgentCrash
    <2>1. ToSet(accumulated_connections) \subseteq Connections
        BY TailIsInterval, BoundsAssumption DEF Base, TypeOK, Connections
    <2>2. << >> \in Seq(1..collected) /\ << >> \in Seq(1..detected) /\ Len(<< >>) = 0
        OBVIOUS
    <2>3. faults' \in 0..MaxFaults
        BY <1>9, FaultType DEF AgentCrash
    <2>4. BufferIsTail' /\ InPlace'
        BY <1>9, <2>2 DEF AgentCrash, BufferIsTail, InPlace, Whole
    <2>5. TypeOK'
        <3>1. /\ accumulated_connections' \in Seq(1..collected')
              /\ accumulated_torrent_events' \in Seq(1..detected')
              /\ Len(accumulated_connections') <= MaxBuffer
              /\ Len(accumulated_torrent_events') <= MaxBuffer
              /\ start' \in 0..MaxBuffer /\ attempt' \in 1..MaxRetries
            BY <1>9, <2>2, SizesAssumption DEF AgentCrash, log
        <3> QED
            BY <1>0, <1>9, <2>1, <2>3, <3>1 DEF AgentCrash, Base, TypeOK, Requests, log, tables
    <2> QED
        BY <2>4, <2>5 DEF Base
<1>10. CASE PanelCrash
    <2>1. CollectorType'
        BY <1>0, <1>10, FaultType, IdleType DEF PanelCrash, CollectorType, tables
    <2>2. CASE at = "await"
        BY <1>10, <2>1, <2>2, AttemptBase DEF PanelCrash
    <2>3. CASE at # "await"
        BY <1>0, <1>10, <2>1, <2>3, OthersBase DEF PanelCrash
    <2> QED
        BY <2>2, <2>3
<1>11. CASE UNCHANGED vars
    BY <1>11 DEF vars, agent, log, buffers, tables, Base, TypeOK, InPlace, BufferIsTail, Whole
<1> QED
    BY <1>1, <1>2, <1>3, <1>4, <1>5, <1>6, <1>7, <1>8, <1>9, <1>10, <1>11 DEF Next, Handle

LEMMA InitBase == Init => Base
    BY InitType DEF Init, Base, InPlace, BufferIsTail, Whole

\* The types hold whatever the log, the faults and the handlers do.
THEOREM TypeCorrect == Spec => []TypeOK
<1>1. Base => TypeOK
    BY DEF Base
<1> QED
    BY <1>1, InitBase, NextBase, PTL DEF Spec
----------------------------------------------------------------------------
(* Connections.                                                            *)

Settled == stored \cup lost

\* What has left the buffer, and the chunks the collector has accepted of what
\* is in it, are settled.
SettledUpTo(k) == 1..(Gone + k) \subseteq Settled
Accounted == SettledUpTo(start)

\* The request the agent waits for carries the chunk it has in hand; once its
\* connections are written, the chunk is settled.
AwaitedPart ==
    at = "await" =>
        /\ handler[awaiting].at \in {"arrived", "stored"}
        /\ handler[awaiting].at = "arrived" => handler[awaiting].connections = ToSet(Part)
        /\ handler[awaiting].at = "stored" => ToSet(Part) \subseteq Settled

\* Whatever a request carries, all that came before is settled or with it.
RequestsInOrder ==
    \A h \in Handlers : \A j \in handler[h].connections :
        1..(j - 1) \subseteq Settled \cup handler[h].connections

ConnectionsInv == Base /\ Accounted /\ AwaitedPart /\ RequestsInOrder /\ StoredInOrder

LEMMA RestIsInterval ==
    ASSUME Base, NEW sent \in 0..Whole
    PROVE  ToSet(Rest(sent)) = (Gone + sent + 1)..collected
<1>1. Whole \in Nat /\ collected \in Nat /\ Gone = collected - Whole
    BY BoundsAssumption DEF Base, TypeOK, Whole, Gone
<1>2. /\ DOMAIN Rest(sent) = 1..(Whole - sent)
      /\ \A k \in 1..(Whole - sent) : Rest(sent)[k] = Gone + sent + k
    <2>1. DOMAIN Rest(sent) = 1..(Whole - sent)
        BY RestKeeps, LenProperties DEF Base
    <2>2. ASSUME NEW k \in 1..(Whole - sent) PROVE Rest(sent)[k] = Gone + sent + k
        <3>1. Rest(sent)[k] = accumulated_connections[sent + k] /\ sent + k \in 1..Whole
            BY <1>1, RestKeeps DEF Base
        <3> QED
            BY <1>1, <3>1 DEF Base, BufferIsTail
    <2> QED
        BY <2>1, <2>2
<1>3. \A i \in (Gone + sent + 1)..collected :
          i - Gone - sent \in 1..(Whole - sent) /\ Rest(sent)[i - Gone - sent] = i
    BY <1>1, <1>2
<1>4. \A k \in 1..(Whole - sent) : Gone + sent + k \in (Gone + sent + 1)..collected
    BY <1>1
<1> QED
    BY <1>2, <1>3, <1>4 DEF ToSet

\* send_in_chunks returns with everything settled that it deletes.
LEMMA ReturnAccounted ==
    ASSUME Base, NEW sent \in 0..Whole, NEW sent_events, Return(sent, sent_events),
           UNCHANGED log, SettledUpTo(sent), stored \subseteq stored'
    PROVE  Accounted' /\ lost \subseteq lost'
<1>1. /\ Whole \in Nat /\ collected \in Nat /\ collected' = collected /\ Gone \in Nat
      /\ Gone = collected - Whole
    BY TailIsInterval, BoundsAssumption DEF Base, TypeOK, Whole, Gone, log
<1>2. CASE stopping
    <2>1. Gone' + start' = collected
        BY <1>1, <1>2 DEF Return, Gone, Whole
    <2>2. lost' = lost \cup ToSet(Rest(sent))
        BY <1>2 DEF Return, Rest
    <2>3. 1..collected \subseteq 1..(Gone + sent) \cup (Gone + sent + 1)..collected
        BY <1>1
    <2> QED
        BY <2>1, <2>2, <2>3, RestIsInterval DEF Accounted, Settled, SettledUpTo
<1>3. CASE ~stopping
    <2>1. accumulated_connections' = Rest(sent) /\ lost' = lost /\ start' = 0
        BY <1>3 DEF Return, Rest
    <2>2. Whole' = Whole - sent
        BY <2>1, RestKeeps DEF Base, Whole
    <2>3. Gone' + start' = Gone + sent
        BY <1>1, <2>1, <2>2 DEF Gone
    <2> QED
        BY <2>1, <2>3 DEF Accounted, Settled, SettledUpTo
<1> QED
    BY <1>2, <1>3

\* An attempt that fails, or succeeds with a chunk that is settled.
LEMMA AttemptAccounted ==
    ASSUME Base, Accounted, UNCHANGED log, stored \subseteq stored',
           AttemptFails \/ (AttemptSucceeds /\ ToSet(Part) \subseteq Settled)
    PROVE  Accounted' /\ lost \subseteq lost' /\ at' # "await"
<1>1. /\ Whole \in Nat /\ Gone \in Nat /\ start \in 0..Whole /\ Whole \in 0..Whole
      /\ PartEnd \in start..Whole
      /\ ToSet(Part) = (Gone + start + 1)..(Gone + PartEnd)
    BY TailIsInterval, PartIsInterval DEF Base, InPlace, TypeOK
<1>2. at' # "await"
    BY AttemptType DEF Base, InPlace, SenderType
<1>3. ASSUME at' = "post", UNCHANGED <<buffers, lost>>, SettledUpTo(start')
      PROVE  Accounted' /\ lost \subseteq lost'
    <2>1. Gone' = Gone
        BY <1>3 DEF Gone, Whole, buffers, log
    <2> QED
        BY <1>3, <2>1 DEF Accounted, Settled, SettledUpTo
<1>4. CASE AttemptFails
    <2>1. CASE Return(start, start > 0)
        <3>1. SettledUpTo(start)
            BY DEF Accounted
        <3>2. start \in 0..Whole
            BY <1>1
        <3> QED
            BY <1>2, <2>1, <3>1, <3>2, ReturnAccounted
    <2>2. CASE ~Return(start, start > 0)
        BY <1>3, <1>4, <2>2 DEF AttemptFails, Accounted
    <2> QED
        BY <2>1, <2>2
<1>5. CASE AttemptSucceeds /\ ToSet(Part) \subseteq Settled
    <2>1. SettledUpTo(PartEnd)
        <3>1. 1..(Gone + PartEnd) \subseteq 1..(Gone + start) \cup (Gone + start + 1)..(Gone + PartEnd)
            BY <1>1
        <3> QED
            BY <1>1, <1>5, <3>1 DEF Accounted, SettledUpTo
    <2>2. CASE MoreToSend
        BY <1>3, <1>5, <2>1, <2>2 DEF AttemptSucceeds, PartEnd
    <2>3. CASE ~MoreToSend
        <3>1. Return(Whole, TRUE) /\ SettledUpTo(Whole)
            BY <1>5, <2>1, <2>3 DEF AttemptSucceeds, PartEnd
        <3>2. Whole \in 0..Whole
            BY <1>1
        <3> QED
            BY <1>2, <3>1, <3>2, ReturnAccounted
    <2> QED
        BY <2>2, <2>3
<1> QED
    BY <1>2, <1>4, <1>5
\* Requests that end or stay, with nothing new stored, keep the order.
LEMMA OrderKept ==
    ASSUME Base, RequestsInOrder, StoredInOrder, stored' = stored, lost \subseteq lost',
           \A h \in Handlers : \/ handler'[h].connections = handler[h].connections
                               \/ handler'[h].connections = {}
    PROVE  RequestsInOrder' /\ StoredInOrder'
<1>1. StoredInOrder'
    BY DEF StoredInOrder
<1>2. ASSUME NEW h \in Handlers, NEW j \in handler'[h].connections
      PROVE  1..(j - 1) \subseteq (stored' \cup lost') \cup handler'[h].connections
    BY <1>2 DEF RequestsInOrder, Settled
<1> QED
    BY <1>1, <1>2 DEF RequestsInOrder, Settled

\* Every step keeps the order and accounts for what leaves the buffer.
LEMMA NextConnections == ConnectionsInv /\ [Next]_vars => ConnectionsInv'
<1> SUFFICES ASSUME ConnectionsInv, [Next]_vars
             PROVE  Accounted' /\ AwaitedPart' /\ RequestsInOrder' /\ StoredInOrder'
    BY NextBase DEF ConnectionsInv
<1> USE DEF ConnectionsInv
<1>0. /\ handler \in [Handlers -> Requests]
      /\ awaiting \in Handlers \cup {NoHandler} /\ NoHandler \notin Handlers
      /\ at = "await" <=> awaiting # NoHandler
      /\ at = "loop" => start = 0
      /\ Idle.connections = {}
    BY HandlersAssumption DEF Base, TypeOK, InPlace, Requests, Idle
<1>1. CASE BusyTurn
    <2>1. at = "loop" /\ start = 0 /\ at' # "await" /\ start' = 0 /\ UNCHANGED <<handler, stored>>
        BY <1>0, <1>1 DEF BusyTurn, StartSending, StayInLoop, tables
    <2>2. PICK c \in 0..(MaxConnections - collected) :
              /\ collected' = collected + c
              /\ accumulated_connections' = Capped(GrownBy(c))
              /\ lost' = lost \cup (ToSet(GrownBy(c)) \ ToSet(Capped(GrownBy(c))))
        BY <1>1 DEF BusyTurn, GrownBy
    <2>3. lost \subseteq lost'
        BY <2>2
    <2>4. RequestsInOrder' /\ StoredInOrder'
        BY <2>1, <2>3, OrderKept
    <2>5. Accounted'
        <3>1. /\ Gone \in Nat /\ Whole \in Nat /\ c \in Nat /\ collected \in Nat
              /\ collected' = Gone + Whole + c
            BY <2>2, TailIsInterval, BoundsAssumption DEF Base, TypeOK, Gone
        <3>2. /\ Len(GrownBy(c)) = Whole + c /\ GrownBy(c) \in Seq(1..(collected + c))
              /\ \A k \in 1..(Whole + c) : GrownBy(c)[k] = Gone + k
            BY GrownKeeps
        <3>3. Whole' \in 0..(Whole + c) /\ DOMAIN accumulated_connections' = 1..Whole'
            BY <2>2, <3>1, <3>2, CappedKeeps, LenProperties DEF Whole
        <3>4. Gone' \in Gone..collected'
            <4>1. Gone' = collected' - Whole'
                BY DEF Gone
            <4>2. ASSUME NEW g \in Nat, NEW w \in Nat, NEW n \in 0..(w + c)
                  PROVE  (g + w + c) - n \in g..(g + w + c)
                BY <3>1
            <4> QED
                BY <3>1, <3>3, <4>1, <4>2
        <3>8. \A x \in ToSet(Capped(GrownBy(c))) : x > Gone'
            <4>1. \A k \in 1..Whole' : accumulated_connections'[k] = Gone' + k
                BY <1>1, BusyBase DEF Base, BufferIsTail, Gone
            <4>2. Gone' \in Nat /\ Whole' \in Nat
                BY <3>1, <3>3, <3>4
            <4> QED
                BY <2>2, <3>3, <4>1, <4>2 DEF ToSet
        <3>5. ASSUME NEW i \in (Gone + 1)..Gone' PROVE i \in lost'
            <4>1. i - Gone \in 1..(Whole + c) /\ GrownBy(c)[i - Gone] = i
                BY <3>1, <3>2, <3>4
            <4>2. i \in ToSet(GrownBy(c))
                BY <3>2, <4>1, LenProperties DEF ToSet
            <4>3. i \notin ToSet(Capped(GrownBy(c)))
                BY <3>1, <3>4, <3>8
            <4> QED
                BY <2>2, <4>2, <4>3
        <3>6. 1..(Gone' + start') \subseteq 1..(Gone + start) \cup (Gone + 1)..Gone'
            <4>1. Gone' \in Nat
                BY <3>1, <3>4
            <4>2. start = 0 /\ start' = 0
                BY <2>1
            <4>3. ASSUME NEW g \in Nat, NEW m \in Nat
                  PROVE  1..(m + 0) \subseteq 1..(g + 0) \cup (g + 1)..m
                OBVIOUS
            <4> QED
                BY <3>1, <4>1, <4>2, <4>3
        <3> QED
            BY <2>1, <2>3, <3>5, <3>6 DEF Accounted, SettledUpTo, Settled
    <2> QED
        BY <2>1, <2>4, <2>5 DEF AwaitedPart
<1>2. CASE QuietTurn \/ TimePasses \/ Stop
    <2>1. /\ UNCHANGED <<log, buffers, handler, stored, lost>> /\ start' = start /\ at' # "await"
        BY <1>0, <1>2 DEF QuietTurn, TimePasses, Stop, StartSending, tables
    <2> QED
        BY <2>1, OrderKept DEF Accounted, SettledUpTo, Settled, Gone, Whole, log, buffers, AwaitedPart
<1>3. CASE Post
    <2>1. ASSUME NEW h \in Handlers,
                 handler' = [handler EXCEPT ![h] =
                     [at |-> "arrived", connections |-> ToSet(Part), events |-> PartEvents]],
                 awaiting' = h, at' = "await",
                 UNCHANGED <<stopping, start, attempt, buffers, faults, lost>>
          PROVE  Accounted' /\ AwaitedPart' /\ RequestsInOrder' /\ StoredInOrder'
        <3>1. UNCHANGED <<log, stored, lost, buffers, start>>
            BY <1>3, <2>1 DEF Post, tables
        <3>2. Accounted' /\ StoredInOrder'
            BY <3>1 DEF Accounted, SettledUpTo, Settled, Gone, Whole, log, buffers, StoredInOrder
        <3>3. ToSet(Part)' = ToSet(Part)
            BY <3>1 DEF Part, MoreToSend, Whole, buffers
        <3>4. AwaitedPart'
            BY <1>0, <2>1, <3>3 DEF AwaitedPart
        <3>5. ASSUME NEW j \in ToSet(Part) PROVE 1..(j - 1) \subseteq Settled \cup ToSet(Part)
            <4>1. /\ Gone \in Nat /\ start \in Nat /\ PartEnd \in start..Whole /\ Whole \in Nat
                  /\ ToSet(Part) = (Gone + start + 1)..(Gone + PartEnd)
                BY PartIsInterval, TailIsInterval DEF Base, InPlace, TypeOK
            <4>2. 1..(j - 1) \subseteq 1..(Gone + start) \cup (Gone + start + 1)..(Gone + PartEnd)
                BY <3>5, <4>1
            <4> QED
                BY <4>1, <4>2 DEF Accounted, SettledUpTo
        <3>6. RequestsInOrder'
            <4> SUFFICES ASSUME NEW g \in Handlers, NEW j \in handler'[g].connections
                         PROVE  1..(j - 1) \subseteq Settled \cup handler'[g].connections
                BY <3>1 DEF RequestsInOrder, Settled
            <4>1. CASE g = h
                BY <1>0, <2>1, <3>5, <4>1
            <4>2. CASE g # h
                BY <1>0, <2>1, <4>2 DEF RequestsInOrder
            <4> QED
                BY <4>1, <4>2
        <3> QED
            BY <3>2, <3>4, <3>6
    <2>2. CASE Fault /\ AttemptFails /\ UNCHANGED handler
        BY <1>3, <2>2, AttemptAccounted, OrderKept DEF Post, tables, AwaitedPart
    <2> QED
        BY <1>3, <2>1, <2>2 DEF Post
<1>4. CASE Timeout
    BY <1>4, AttemptAccounted, OrderKept DEF Timeout, tables, AwaitedPart
<1>5. ASSUME NEW h \in Handlers, Refuse(h)
      PROVE  Accounted' /\ AwaitedPart' /\ RequestsInOrder' /\ StoredInOrder'
    <2>1. /\ UNCHANGED <<log, stored>>
          /\ \A g \in Handlers : \/ g # h /\ handler'[g] = handler[g]
                                 \/ g = h /\ handler'[g].connections = {}
        <3>1. handler' = [handler EXCEPT ![h] = Idle]
            BY <1>5 DEF Refuse, Free
        <3>2. handler'[h] = Idle /\ \A g \in Handlers : g # h => handler'[g] = handler[g]
            BY <1>0, <3>1
        <3>3. UNCHANGED <<log, stored>>
            BY <1>5 DEF Refuse, tables
        <3>4. handler'[h].connections = {}
            BY <1>0, <3>2
        <3>5. ASSUME NEW g \in Handlers
              PROVE  \/ g # h /\ handler'[g] = handler[g]
                     \/ g = h /\ handler'[g].connections = {}
            BY <3>2, <3>4
        <3> QED
            BY <3>3, <3>5
    <2>2. CASE Unheard(h)
        <3>1. UNCHANGED <<start, awaiting, at, buffers, lost>> /\ awaiting # h
            BY <2>2 DEF Unheard
        <3>2. Accounted' /\ ToSet(Part)' = ToSet(Part)
            BY <2>1, <3>1 DEF Accounted, SettledUpTo, Settled, Gone, Whole, log, buffers, Part, MoreToSend
        <3>3. AwaitedPart'
            BY <1>0, <2>1, <3>1, <3>2 DEF AwaitedPart, Settled
        <3> QED
            BY <2>1, <3>1, <3>2, <3>3, OrderKept
    <2>3. CASE AttemptFails
        BY <2>1, <2>3, AttemptAccounted, OrderKept DEF AwaitedPart
    <2> QED
        BY <1>5, <2>2, <2>3 DEF Refuse
<1>6. ASSUME NEW h \in Handlers, StoreConnections(h)
      PROVE  Accounted' /\ AwaitedPart' /\ RequestsInOrder' /\ StoredInOrder'
    <2>1. /\ UNCHANGED <<log, buffers, start, at, awaiting>> /\ handler[h].at = "arrived"
          /\ stored' \cup lost' = Settled \cup handler[h].connections
          /\ stored' \in {stored, stored \cup handler[h].connections}
        BY <1>6 DEF StoreConnections, agent, log, buffers, Settled
    <2>2. \A g \in Handlers :
              \/ g # h /\ handler'[g] = handler[g]
              \/ g = h /\ handler'[g].connections = {} /\ handler'[g].at = "stored"
        BY <1>0, <1>6 DEF StoreConnections, Requests
    <2>3. Accounted' /\ ToSet(Part)' = ToSet(Part)
        BY <2>1 DEF Accounted, SettledUpTo, Settled, Gone, Whole, log, buffers, Part, MoreToSend
    <2>4. AwaitedPart'
        BY <1>0, <2>1, <2>2, <2>3 DEF AwaitedPart, Settled
    <2>5. RequestsInOrder'
        BY <2>1, <2>2 DEF RequestsInOrder, Settled
    <2>6. StoredInOrder'
        <3> SUFFICES ASSUME NEW j \in stored', NEW i \in 1..(j - 1) PROVE i \in stored' \cup lost'
            BY DEF StoredInOrder
        <3>1. CASE j \in stored
            BY <2>1, <3>1 DEF StoredInOrder, Settled
        <3>2. CASE j \in handler[h].connections
            BY <2>1, <3>2 DEF RequestsInOrder, Settled
        <3> QED
            BY <2>1, <3>1, <3>2
    <2> QED
        BY <2>3, <2>4, <2>5, <2>6
<1>7. ASSUME NEW h \in Handlers, StoreEvents(h)
      PROVE  Accounted' /\ AwaitedPart' /\ RequestsInOrder' /\ StoredInOrder'
    <2>1. /\ UNCHANGED <<log, stored>> /\ handler[h].at = "stored"
          /\ \A g \in Handlers : \/ g # h /\ handler'[g] = handler[g]
                                 \/ g = h /\ handler'[g].connections = {}
        <3>1. handler' = [handler EXCEPT ![h] = Idle]
            BY <1>7 DEF StoreEvents, Free
        <3>2. handler'[h] = Idle /\ \A g \in Handlers : g # h => handler'[g] = handler[g]
            BY <1>0, <3>1
        <3>3. UNCHANGED <<log, stored>> /\ handler[h].at = "stored"
            BY <1>7 DEF StoreEvents
        <3>4. handler'[h].connections = {}
            BY <1>0, <3>2
        <3>5. ASSUME NEW g \in Handlers
              PROVE  \/ g # h /\ handler'[g] = handler[g]
                     \/ g = h /\ handler'[g].connections = {}
            BY <3>2, <3>4
        <3> QED
            BY <3>3, <3>5
    <2>2. CASE Unheard(h)
        <3>1. UNCHANGED <<start, awaiting, at, buffers, lost>> /\ awaiting # h
            BY <2>2 DEF Unheard
        <3>2. Accounted' /\ ToSet(Part)' = ToSet(Part)
            BY <2>1, <3>1 DEF Accounted, SettledUpTo, Settled, Gone, Whole, log, buffers, Part, MoreToSend
        <3>3. AwaitedPart'
            BY <1>0, <2>1, <3>1, <3>2 DEF AwaitedPart, Settled
        <3> QED
            BY <2>1, <3>1, <3>2, <3>3, OrderKept
    <2>3. CASE awaiting = h /\ (AttemptFails \/ AttemptSucceeds)
        <3>1. ToSet(Part) \subseteq Settled
            BY <1>0, <2>1, <2>3 DEF AwaitedPart
        <3> QED
            BY <2>1, <2>3, <3>1, AttemptAccounted, OrderKept DEF AwaitedPart
    <2> QED
        BY <1>7, <2>2, <2>3 DEF StoreEvents
<1>8. CASE AgentCrash
    <2>1. /\ UNCHANGED <<log, handler, stored>> /\ start' = 0 /\ at' = "loop"
          /\ lost' = lost \cup ToSet(accumulated_connections) /\ accumulated_connections' = << >>
        BY <1>8 DEF AgentCrash, tables
    <2>2. /\ Gone' + start' = collected /\ Gone \in Nat /\ start \in Nat
          /\ collected \in Nat
          /\ ToSet(accumulated_connections) = (Gone + 1)..collected
        BY <2>1, TailIsInterval, BoundsAssumption DEF Base, TypeOK, Gone, Whole, log
    <2>3. 1..collected \subseteq 1..(Gone + start) \cup (Gone + 1)..collected
        BY <2>2
    <2>4. Accounted'
        BY <2>1, <2>2, <2>3 DEF Accounted, SettledUpTo, Settled
    <2> QED
        BY <2>1, <2>4, OrderKept DEF AwaitedPart
<1>9. CASE PanelCrash
    <2>1. /\ UNCHANGED <<log, stored>> /\ \A g \in Handlers : handler'[g].connections = {}
        BY <1>0, <1>9 DEF PanelCrash, tables
    <2>2. CASE at = "await"
        BY <1>9, <2>1, <2>2, AttemptAccounted, OrderKept DEF PanelCrash, AwaitedPart
    <2>3. CASE at # "await"
        <3>1. UNCHANGED <<start, at, buffers, lost>>
            BY <1>9, <2>3 DEF PanelCrash
        <3> QED
            BY <2>1, <2>3, <3>1, OrderKept
            DEF AwaitedPart, Accounted, SettledUpTo, Settled, Gone, Whole, log, buffers
    <2> QED
        BY <2>2, <2>3
<1>10. CASE UNCHANGED vars
    <2>1. UNCHANGED <<log, buffers, start, at, awaiting, handler, stored, lost>>
        BY <1>10 DEF vars, agent, tables
    <2>2. Accounted' /\ ToSet(Part)' = ToSet(Part)
        BY <2>1 DEF Accounted, SettledUpTo, Settled, Gone, Whole, log, buffers, Part, MoreToSend
    <2> QED
        BY <2>1, <2>2, OrderKept DEF AwaitedPart, Settled
<1> QED
    BY <1>1, <1>2, <1>3, <1>4, <1>5, <1>6, <1>7, <1>8, <1>9, <1>10 DEF Next, Handle
LEMMA InitConnections == Init => ConnectionsInv
<1> SUFFICES ASSUME Init PROVE ConnectionsInv
    OBVIOUS
<1>1. Gone + start = 0 /\ at = "loop" /\ stored = {} /\ \A h \in Handlers : handler[h].connections = {}
    <2>1. Whole = 0 /\ collected = 0 /\ start = 0
        BY DEF Init, Whole
    <2> QED
        BY <2>1 DEF Init, Gone, Idle
<1>2. Accounted
    BY <1>1 DEF Accounted, SettledUpTo
<1> QED
    BY <1>1, <1>2, InitBase DEF ConnectionsInv, AwaitedPart, RequestsInOrder, StoredInOrder

\* No connection the agent has read disappears, but for a named reason, however
\* chunks, retries, slow handlers and deaths meet.
THEOREM NothingIsForgotten == Spec => []NothingForgotten
<1>1. ConnectionsInv => NothingForgotten
    <2> SUFFICES ASSUME ConnectionsInv, NEW i \in 1..collected
                 PROVE  i \in ToSet(accumulated_connections) \/ i \in stored \/ i \in lost
        BY DEF NothingForgotten
    <2>1. /\ Gone \in Nat /\ start \in Nat /\ collected \in Nat
          /\ ToSet(accumulated_connections) = (Gone + 1)..collected
        BY TailIsInterval, BoundsAssumption DEF ConnectionsInv, Base, TypeOK
    <2>2. i \in 1..(Gone + start) \/ i \in (Gone + 1)..collected
        BY <2>1
    <2> QED
        BY <2>1, <2>2 DEF ConnectionsInv, Accounted, SettledUpTo, Settled
<1> QED
    BY <1>1, InitConnections, NextConnections, PTL DEF Spec

\* No chunk overtakes an earlier one.
THEOREM OrderHolds == Spec => []StoredInOrder
<1>1. ConnectionsInv => StoredInOrder
    BY DEF ConnectionsInv
<1> QED
    BY <1>1, InitConnections, NextConnections, PTL DEF Spec

----------------------------------------------------------------------------
(* Torrent events.                                                         *)

Carries(h, e) == e \in handler[h].events
Buffered == ToSet(accumulated_torrent_events)

\* An event no answer about which was missed is in one place: the buffer, one
\* request, or one row.  Only the agent that still waits for the answer to the
\* first chunk, or goes on with the next ones, holds a copy.
OnePlace(e) ==
    /\ torrent_rows[e] <= 1
    /\ \A h \in Handlers : Carries(h, e) =>
           /\ torrent_rows[e] = 0
           /\ \A g \in Handlers : Carries(g, e) => g = h
           /\ e <= detected
           /\ e \in Buffered => start > 0 \/ h = awaiting
    /\ torrent_rows[e] > 0 => e <= detected
    /\ torrent_rows[e] > 0 /\ e \in Buffered => start > 0

EventsInv == \A e \in Events \ repeated : OnePlace(e)

\* What becomes of the buffered events when an attempt ends.
LEMMA AttemptEvents ==
    ASSUME Base, AttemptFails \/ AttemptSucceeds
    PROVE  /\ Buffered' \subseteq Buffered
           /\ AttemptFails => (start > 0 => Buffered' = {} \/ start' > 0)
           /\ AttemptSucceeds => Buffered' = {} \/ start' > 0
           /\ awaiting' = NoHandler
<1>1. start \in Nat /\ ChunkSize \in Nat \ {0} /\ ToSet(<< >>) = {}
    BY SizesAssumption DEF Base, TypeOK, ToSet
<1>2. ASSUME AttemptFails
      PROVE  /\ Buffered' \subseteq Buffered /\ awaiting' = NoHandler
             /\ start > 0 => Buffered' = {} \/ start' > 0
    <2>1. /\ \/ accumulated_torrent_events' = << >>
             \/ /\ accumulated_torrent_events' = accumulated_torrent_events
                /\ start > 0 => start' = start
          /\ awaiting' = NoHandler
        BY <1>2 DEF AttemptFails, Return, buffers
    <2> QED
        BY <1>1, <2>1 DEF Buffered
<1>3. ASSUME AttemptSucceeds
      PROVE  /\ Buffered' \subseteq Buffered /\ awaiting' = NoHandler
             /\ Buffered' = {} \/ start' > 0
    <2>1. start + ChunkSize > 0
        BY <1>1
    <2>2. /\ accumulated_torrent_events' = << >> \/ start' > 0
          /\ \/ accumulated_torrent_events' = << >>
             \/ accumulated_torrent_events' = accumulated_torrent_events
          /\ awaiting' = NoHandler
        BY <1>3, <2>1 DEF AttemptSucceeds, Return, buffers
    <2> QED
        BY <1>1, <2>2 DEF Buffered
<1> QED
    BY <1>2, <1>3
\* An attempt fails, and requests end, but no row is written: events stay where
\* they are.  Whoever was awaited has not got the event, or has ended.
LEMMA FailureKeepsPlace ==
    ASSUME Base, NEW e \in Events, OnePlace(e), AttemptFails, UNCHANGED <<log, torrent_rows>>,
           \A h \in Handlers : Carries(h, e)' => Carries(h, e) /\ h # awaiting
    PROVE  OnePlace(e)'
<1>1. /\ Buffered' \subseteq Buffered
      /\ start > 0 => Buffered' = {} \/ start' > 0
      /\ detected' = detected /\ torrent_rows' = torrent_rows
    BY AttemptEvents DEF log
<1>2. ASSUME NEW h \in Handlers, Carries(h, e)'
      PROVE  /\ torrent_rows[e] = 0
             /\ \A g \in Handlers : Carries(g, e)' => g = h
             /\ e <= detected
             /\ e \in Buffered' => start' > 0
    BY <1>1, <1>2 DEF OnePlace
<1>3. torrent_rows[e] > 0 /\ e \in Buffered' => start' > 0
    BY <1>1 DEF OnePlace
<1> QED
    BY <1>1, <1>2, <1>3 DEF OnePlace

\* The sender does not move, requests end or stay, and no row is written.
LEMMA RestKeepsPlace ==
    ASSUME Base, NEW e \in Events, OnePlace(e),
           UNCHANGED <<detected, accumulated_torrent_events, start, awaiting, torrent_rows>>,
           \A h \in Handlers : Carries(h, e)' => Carries(h, e)
    PROVE  OnePlace(e)'
<1>1. Buffered' = Buffered
    BY DEF Buffered
<1> QED
    BY <1>1 DEF OnePlace

\* Every step keeps each event in one place, or adds it to the repeated ones.
LEMMA NextEvents == Base /\ EventsInv /\ [Next]_vars => EventsInv'
<1> SUFFICES ASSUME Base, EventsInv, [Next]_vars, NEW e \in Events, e \notin repeated'
             PROVE  OnePlace(e)'
    BY DEF EventsInv
<1>0. /\ handler \in [Handlers -> Requests] /\ torrent_rows \in [Events -> Nat]
      /\ NoHandler \notin Handlers
      /\ at = "await" <=> awaiting # NoHandler
      /\ at = "loop" => start = 0
      /\ start \in Nat /\ detected \in Nat
      /\ Idle.events = {}
    BY HandlersAssumption, BoundsAssumption DEF Base, TypeOK, InPlace, Requests, Idle
<1>00. OnePlace(e) /\ e \notin repeated
    <2>1. repeated \subseteq repeated'
        <3>1. CASE UNCHANGED repeated
            BY <3>1
        <3>2. CASE Timeout \/ \E h \in Handlers : StoreEvents(h)
            BY <3>2 DEF Timeout, StoreEvents
        <3>3. CASE ~(Timeout \/ \E h \in Handlers : StoreEvents(h))
            BY <3>3 DEF Next, Handle, BusyTurn, QuietTurn, TimePasses, Stop, Post, Refuse,
               StoreConnections, AgentCrash, PanelCrash, vars
        <3> QED
            BY <3>1, <3>2, <3>3
    <2> QED
        BY <2>1 DEF EventsInv
<1>1. CASE BusyTurn
    <2>1. /\ at = "loop" /\ UNCHANGED <<handler, torrent_rows, awaiting>>
        BY <1>1 DEF BusyTurn, tables
    <2>2. PICK n \in 0..(MaxEvents - detected) :
              /\ detected' = detected + n
              /\ accumulated_torrent_events' =
                     Capped(accumulated_torrent_events \o [i \in 1..n |-> detected + i])
        BY <1>1 DEF BusyTurn
    <2>3. n \in Nat /\ detected <= detected'
        BY <1>0, <2>2, BoundsAssumption
    <2>4. e \in Buffered' => e \in Buffered \/ e > detected
        <3> DEFINE new == [i \in 1..n |-> detected + i]
                   grown == accumulated_torrent_events \o new
        <3>1. /\ accumulated_torrent_events \in Seq(Nat) /\ new \in Seq(Nat) /\ Len(new) = n
              /\ \A i \in 1..n : new[i] > detected
            <4>1. accumulated_torrent_events \in Seq(Nat)
                BY SeqMonotonic DEF Base, TypeOK
            <4>2. new \in Seq(Nat) /\ Len(new) = n
                BY <1>0, <2>3
            <4>3. \A i \in 1..n : new[i] > detected
                BY <1>0, <2>3
            <4> QED
                BY <4>1, <4>2, <4>3
        <3> HIDE DEF new
        <3>2. /\ grown \in Seq(Nat) /\ Len(grown) = Len(accumulated_torrent_events) + n
              /\ \A k \in 1..Len(grown) :
                     \/ k \in 1..Len(accumulated_torrent_events)
                        /\ grown[k] = accumulated_torrent_events[k]
                     \/ grown[k] > detected
            BY <2>3, <3>1
        <3> HIDE DEF grown
        <3>3. ASSUME NEW k \in 1..Len(Capped(grown))
              PROVE  Capped(grown)[k] \in Buffered \/ Capped(grown)[k] > detected
            <4>1. /\ Len(grown) \in Nat /\ Len(Capped(grown)) \in Nat
                  /\ Len(grown) - Len(Capped(grown)) + k \in 1..Len(grown)
                  /\ Capped(grown)[k] = grown[Len(grown) - Len(Capped(grown)) + k]
                <5>1. /\ Capped(grown) \in Seq(Nat) /\ Len(Capped(grown)) <= Len(grown)
                      /\ \A i \in 1..Len(Capped(grown)) :
                             Capped(grown)[i] = grown[Len(grown) - Len(Capped(grown)) + i]
                    BY <3>2, CappedKeeps
                <5>2. Len(grown) \in Nat /\ Len(Capped(grown)) \in Nat
                    BY <3>2, <5>1, LenProperties
                <5> QED
                    BY <5>1, <5>2
            <4> QED
                BY <3>1, <3>2, <4>1, LenProperties DEF Buffered, ToSet
        <3>4. DOMAIN Capped(grown) = 1..Len(Capped(grown))
            BY <3>2, CappedKeeps, LenProperties
        <3>5. accumulated_torrent_events' = Capped(grown)
            BY <2>2 DEF grown, new
        <3> QED
            BY <3>3, <3>4, <3>5 DEF Buffered, ToSet
    <2>5. ASSUME NEW h \in Handlers, Carries(h, e)
          PROVE  torrent_rows[e] = 0 /\ e <= detected' /\ e \notin Buffered'
        BY <1>0, <1>00, <2>1, <2>3, <2>4, <2>5, <2>2 DEF OnePlace, Events
    <2>6. torrent_rows[e] > 0 => e <= detected' /\ e \notin Buffered'
        BY <1>0, <1>00, <2>1, <2>3, <2>4, <2>2 DEF OnePlace, Events
    <2> QED
        BY <1>00, <2>1, <2>5, <2>6 DEF OnePlace, Carries
<1>2. CASE QuietTurn \/ TimePasses \/ Stop
    <2>1. /\ UNCHANGED <<detected, accumulated_torrent_events, awaiting, torrent_rows, handler>>
          /\ start' = start
        BY <1>0, <1>2 DEF QuietTurn, TimePasses, Stop, StartSending, StayInLoop, log, buffers, tables
    <2> QED
        BY <1>00, <2>1, RestKeepsPlace DEF Carries
<1>3. CASE Post
    <2>1. ASSUME NEW h \in Handlers, handler[h] = Idle,
                 handler' = [handler EXCEPT ![h] =
                     [at |-> "arrived", connections |-> ToSet(Part), events |-> PartEvents]],
                 awaiting' = h,
                 UNCHANGED <<stopping, start, attempt, buffers, faults, lost>>
          PROVE  OnePlace(e)'
        <3>1. /\ UNCHANGED <<detected, start, torrent_rows>> /\ Buffered' = Buffered
              /\ awaiting = NoHandler
            BY <1>0, <1>3, <2>1 DEF Post, log, tables, Buffered, buffers
        <3>2. /\ Carries(h, e)' => start = 0 /\ e \in Buffered
              /\ \A g \in Handlers : g # h => (Carries(g, e)' <=> Carries(g, e))
            BY <1>0, <2>1 DEF Carries, PartEvents, Buffered
        <3>3. CASE Carries(h, e)'
            <4>1. start = 0 /\ e \in Buffered /\ e <= detected
                BY <1>0, <3>2, <3>3, LenProperties, ElementOfSeq DEF Buffered, ToSet, Base, TypeOK
            <4>2. torrent_rows[e] = 0 /\ \A g \in Handlers : ~Carries(g, e)
                BY <1>0, <1>00, <3>1, <4>1 DEF OnePlace
            <4> QED
                BY <2>1, <3>1, <3>2, <4>1, <4>2 DEF OnePlace
        <3>4. CASE ~Carries(h, e)'
            BY <1>0, <1>00, <3>1, <3>2, <3>4 DEF OnePlace
        <3> QED
            BY <3>3, <3>4
    <2>2. CASE AttemptFails /\ UNCHANGED handler
        BY <1>0, <1>00, <1>3, <2>2, FailureKeepsPlace DEF Post, tables, Carries
    <2> QED
        BY <1>3, <2>1, <2>2 DEF Post
<1>4. CASE Timeout
    <2>1. ~Carries(awaiting, e)
        BY <1>4 DEF Timeout, Carries
    <2> QED
        BY <1>00, <1>4, <2>1, FailureKeepsPlace DEF Timeout, tables, Carries
<1>5. ASSUME NEW h \in Handlers, Refuse(h) PROVE OnePlace(e)'
    <2>1. UNCHANGED <<log, torrent_rows>> /\ handler' = [handler EXCEPT ![h] = Idle]
        BY <1>5 DEF Refuse, Free, tables
    <2>2. ~Carries(h, e)' /\ \A g \in Handlers : g # h => (Carries(g, e)' <=> Carries(g, e))
        BY <1>0, <2>1 DEF Carries
    <2>3. CASE Unheard(h)
        BY <1>00, <2>1, <2>2, <2>3, RestKeepsPlace DEF Unheard, log, buffers
    <2>4. CASE awaiting = h /\ AttemptFails
        BY <1>00, <2>1, <2>2, <2>4, FailureKeepsPlace
    <2> QED
        BY <1>5, <2>3, <2>4 DEF Refuse
<1>6. ASSUME NEW h \in Handlers, StoreConnections(h) PROVE OnePlace(e)'
    <2>1. \A g \in Handlers : Carries(g, e)' <=> Carries(g, e)
        BY <1>0, <1>6 DEF StoreConnections, Carries, Requests
    <2> QED
        BY <1>00, <1>6, <2>1, RestKeepsPlace DEF StoreConnections, agent, log, buffers
<1>7. ASSUME NEW h \in Handlers, StoreEvents(h) PROVE OnePlace(e)'
    <2>1. UNCHANGED log /\ handler' = [handler EXCEPT ![h] = Idle]
        BY <1>7 DEF StoreEvents, Free
    <2>2. ~Carries(h, e)' /\ \A g \in Handlers : g # h => (Carries(g, e)' <=> Carries(g, e))
        BY <1>0, <2>1 DEF Carries
    <2>3. \/ torrent_rows' = torrent_rows
          \/ torrent_rows' = [x \in Events |-> IF x \in handler[h].events
                                               THEN torrent_rows[x] + 1 ELSE torrent_rows[x]]
        BY <1>7 DEF StoreEvents
    <2>4. \/ torrent_rows'[e] = torrent_rows[e]
          \/ Carries(h, e) /\ torrent_rows'[e] = 1
        BY <1>0, <1>00, <2>3 DEF OnePlace, Carries
    <2>5. \/ Unheard(h)
          \/ awaiting = h /\ AttemptSucceeds
          \/ awaiting = h /\ AttemptFails /\ torrent_rows' = torrent_rows
          \/ awaiting = h /\ AttemptFails /\ ~Carries(h, e)
        BY <1>7 DEF StoreEvents, Carries
    <2>6. detected' = detected
        BY <2>1 DEF log
    <2>7. /\ Buffered' \subseteq Buffered
          /\ start > 0 => Buffered' = {} \/ start' > 0
          /\ awaiting = h /\ Carries(h, e) /\ torrent_rows' # torrent_rows => Buffered' = {} \/ start' > 0
        BY <1>0, <2>5, AttemptEvents DEF Unheard, buffers, Buffered
    <2>8. ASSUME NEW g \in Handlers, Carries(g, e)'
          PROVE  /\ torrent_rows'[e] = 0
                 /\ \A f \in Handlers : Carries(f, e)' => f = g
                 /\ e <= detected'
                 /\ e \in Buffered' => start' > 0 \/ g = awaiting'
        <3>1. g # h /\ Carries(g, e)
            BY <2>2, <2>8
        <3>2. ~Carries(h, e) /\ torrent_rows'[e] = 0
            BY <1>00, <2>4, <3>1 DEF OnePlace
        <3>3. e \in Buffered' => start' > 0 \/ g = awaiting'
            <4>1. CASE Unheard(h)
                BY <1>00, <2>7, <3>1, <4>1 DEF OnePlace, Unheard
            <4>2. CASE awaiting = h
                BY <1>00, <2>7, <3>1, <4>2 DEF OnePlace
            <4> QED
                BY <2>5, <4>1, <4>2
        <3> QED
            BY <1>00, <2>2, <2>6, <3>1, <3>2, <3>3 DEF OnePlace
    <2>9. torrent_rows'[e] > 0 => e <= detected'
        BY <1>00, <2>4, <2>6 DEF OnePlace
    <2>10. torrent_rows'[e] > 0 /\ e \in Buffered' => start' > 0
        <3>1. CASE torrent_rows'[e] = torrent_rows[e]
            BY <1>00, <2>7, <3>1 DEF OnePlace
        <3>2. CASE Carries(h, e) /\ torrent_rows'[e] = 1 /\ torrent_rows'[e] # torrent_rows[e]
            BY <1>00, <2>5, <2>7, <3>2 DEF OnePlace, Unheard
        <3> QED
            BY <2>4, <3>1, <3>2
    <2>11. torrent_rows'[e] <= 1
        BY <1>00, <2>4 DEF OnePlace
    <2> QED
        BY <2>8, <2>9, <2>10, <2>11 DEF OnePlace
<1>8. CASE AgentCrash
    <2>1. /\ UNCHANGED <<detected, handler, torrent_rows>>
          /\ Buffered' = {}
        BY <1>8 DEF AgentCrash, log, tables, Buffered, ToSet
    <2> QED
        BY <1>00, <2>1 DEF OnePlace, Carries
<1>9. CASE PanelCrash
    <2>1. /\ UNCHANGED <<log, torrent_rows>>
          /\ \A h \in Handlers : ~Carries(h, e)'
        BY <1>0, <1>9 DEF PanelCrash, tables, Carries
    <2>2. CASE at = "await"
        BY <1>00, <1>9, <2>1, <2>2, FailureKeepsPlace DEF PanelCrash
    <2>3. CASE at # "await"
        BY <1>00, <1>9, <2>1, <2>3, RestKeepsPlace DEF PanelCrash, log, buffers
    <2> QED
        BY <2>2, <2>3
<1>10. CASE UNCHANGED vars
    BY <1>00, <1>10, RestKeepsPlace DEF vars, agent, log, buffers, tables, Carries
<1> QED
    BY <1>1, <1>2, <1>3, <1>4, <1>5, <1>6, <1>7, <1>8, <1>9, <1>10 DEF Next, Handle

\* A torrent event gets a second row only if an answer about it was missed,
\* although the collector inserts whatever it is sent.
THEOREM EventsAreOnce == Spec => []EventsOnce
<1>1. Init => Base /\ EventsInv
    <2> SUFFICES ASSUME Init PROVE EventsInv
        BY InitBase
    <2> QED
        BY DEF Init, EventsInv, OnePlace, Carries, Idle
<1>2. Base /\ EventsInv => EventsOnce
    <2> SUFFICES ASSUME Base, EventsInv, NEW e \in Events, torrent_rows[e] > 1
                 PROVE  e \in repeated
        BY DEF EventsOnce
    <2>1. torrent_rows[e] \in Nat
        BY DEF Base, TypeOK
    <2> QED
        BY <2>1 DEF EventsInv, OnePlace
<1> QED
    BY <1>1, <1>2, NextBase, NextEvents, PTL DEF Spec

----------------------------------------------------------------------------
(* The log.  Every step is one of LogTransfer, or leaves alone what it sees. *)

Held == ToSet(accumulated_connections)
Simulated == Transfer!Next \/ UNCHANGED Transfer!vars
Unseen == UNCHANGED <<collected, accumulated_connections, stored, lost>>

\* Requests carry what has been read.
RequestsRead == \A h \in Handlers : handler[h].connections \subseteq 1..collected

LogInv == ConnectionsInv /\ RequestsRead

\* The buffer is the interval from Gone on, before a step and after it.
HeldIsTail ==
    /\ Gone \in Nat /\ Whole \in Nat /\ collected \in Nat /\ collected = Gone + Whole
    /\ Held = (Gone + 1)..collected

LEMMA HeldNow == Base => HeldIsTail
    BY TailIsInterval, BoundsAssumption DEF Base, TypeOK, Gone, Held, HeldIsTail

LEMMA HeldThen == Base' => HeldIsTail'
    BY HeldNow, PTL

\* LogTransfer counts as we do.
LEMMA SameCardinality == \A S : Transfer!Cardinality(S) = Cardinality(S)
    BY DEF Transfer!Cardinality, Cardinality

LEMMA UnseenStutters == ASSUME Unseen PROVE Simulated
    BY DEF Unseen, Simulated, Transfer!vars

\* Chunks are taken off the front of the interval the buffer holds.
LEMMA CutOfHeld ==
    ASSUME Base, NEW sent \in 0..Whole
    PROVE  /\ Gone + sent \in 0..collected
           /\ Transfer!UpTo(Gone + sent, Held) = (Gone + 1)..(Gone + sent)
           /\ Transfer!Above(Gone + sent, Held) = ToSet(Rest(sent))
<1>1. /\ Whole \in Nat /\ Gone \in Nat /\ collected = Gone + Whole
      /\ Held = (Gone + 1)..collected
      /\ ToSet(Rest(sent)) = (Gone + sent + 1)..collected
    BY TailIsInterval, RestIsInterval, BoundsAssumption DEF Base, TypeOK, Gone, Held
<1> QED
    BY <1>1 DEF Transfer!UpTo, Transfer!Above

\* send_in_chunks returns: a release, or an end and a new beginning.
LEMMA ReturnSimulated ==
    ASSUME Base, NEW sent \in 0..Whole, NEW sent_events, Return(sent, sent_events),
           UNCHANGED <<log, stored>>, SettledUpTo(sent)
    PROVE  Simulated
<1> DEFINE k == Gone + sent
<1>1. k \in 0..collected /\ Transfer!Above(k, Held) = ToSet(Rest(sent))
    BY CutOfHeld
<1>2. Transfer!Settled(Transfer!UpTo(k, Held))
    <2>1. Gone \in Nat
        BY TailIsInterval DEF Base
    <2>2. (Gone + 1)..(Gone + sent) \subseteq 1..(Gone + sent)
        BY <2>1
    <2> QED
        BY <2>2, CutOfHeld DEF SettledUpTo, Settled, Transfer!Settled
<1>3. UNCHANGED <<collected, stored>>
    BY DEF log
<1> HIDE DEF k
<1>4. CASE stopping
    <2>1. Held' = {} /\ lost' = lost \cup ToSet(Rest(sent))
        <3>1. ToSet(<< >>) = {}
            BY DEF ToSet
        <3> QED
            BY <1>4, <3>1 DEF Return, Rest, Held
    <2>2. Transfer!Restart
        BY <1>1, <1>2, <1>3, <2>1 DEF Transfer!Restart, Held
    <2> QED
        BY <2>2 DEF Simulated, Transfer!Next
<1>5. CASE ~stopping
    <2>1. Held' = ToSet(Rest(sent)) /\ lost' = lost
        BY <1>5 DEF Return, Rest, Held
    <2>2. Transfer!Release
        BY <1>1, <1>2, <1>3, <2>1 DEF Transfer!Release, Held
    <2> QED
        BY <2>2 DEF Simulated, Transfer!Next
<1> QED
    BY <1>4, <1>5

\* So does the end of an attempt, or nothing is seen of it.
LEMMA AttemptSimulated ==
    ASSUME LogInv, UNCHANGED <<log, stored>>,
           AttemptFails \/ (AttemptSucceeds /\ ToSet(Part) \subseteq stored \cup lost)
    PROVE  Simulated
<1>1. /\ Base /\ SettledUpTo(start) /\ start \in 0..Whole /\ Whole \in 0..Whole
      /\ Gone \in Nat /\ Whole \in Nat
    BY TailIsInterval DEF LogInv, ConnectionsInv, Accounted, Base, InPlace, TypeOK
<1>2. CASE AttemptFails
    <2>1. CASE Return(start, start > 0)
        BY <1>1, <2>1, ReturnSimulated
    <2>2. CASE ~Return(start, start > 0)
        BY <1>2, <2>2, UnseenStutters DEF AttemptFails, Unseen, buffers, log
    <2> QED
        BY <2>1, <2>2
<1>3. CASE AttemptSucceeds /\ ToSet(Part) \subseteq stored \cup lost
    <2>1. CASE MoreToSend
        BY <1>3, <2>1, UnseenStutters DEF AttemptSucceeds, Unseen, buffers, log
    <2>2. CASE ~MoreToSend
        <3>1. ToSet(Part) = (Gone + start + 1)..(Gone + Whole)
            BY <1>1, <2>2, PartIsInterval DEF Base, InPlace, PartEnd
        <3>2. 1..(Gone + Whole) \subseteq 1..(Gone + start) \cup (Gone + start + 1)..(Gone + Whole)
            BY <1>1
        <3>3. SettledUpTo(Whole)
            BY <1>1, <1>3, <3>1, <3>2 DEF SettledUpTo, Settled
        <3>4. Return(Whole, TRUE)
            BY <1>3, <2>2 DEF AttemptSucceeds
        <3> QED
            BY <1>1, <3>3, <3>4, ReturnSimulated
    <2> QED
        BY <2>1, <2>2
<1> QED
    BY <1>2, <1>3

\* A busy turn reads, and what the buffer drops is the oldest of a full one.
LEMMA BusySimulated == ASSUME LogInv, BusyTurn PROVE Simulated
<1>1. PICK c \in 0..(MaxConnections - collected) :
          /\ collected' = collected + c
          /\ accumulated_connections' = Capped(GrownBy(c))
          /\ lost' = lost \cup (ToSet(GrownBy(c)) \ ToSet(Capped(GrownBy(c))))
    BY DEF BusyTurn, GrownBy
<1>2. Base /\ Base'
    BY BusyBase DEF LogInv, ConnectionsInv
<1>3. /\ Gone \in Nat /\ Whole \in Nat /\ c \in Nat /\ collected \in Nat
      /\ collected = Gone + Whole /\ collected' \in collected..MaxConnections
      /\ collected' = collected + c /\ MaxConnections \in Nat
      /\ Held = (Gone + 1)..collected
    <2>1. HeldIsTail /\ MaxConnections \in Nat /\ collected' = collected + c
        BY <1>1, <1>2, HeldNow, BoundsAssumption
    <2>2. c \in Nat /\ c <= MaxConnections - collected
        BY <2>1 DEF HeldIsTail
    <2> QED
        BY <2>1, <2>2 DEF HeldIsTail
<1>4. /\ Gone' \in Nat /\ Whole' \in Nat /\ collected' = Gone' + Whole'
      /\ Held' = (Gone' + 1)..collected'
    BY <1>2, HeldThen DEF HeldIsTail
<1>5. /\ Len(GrownBy(c)) = Whole + c /\ GrownBy(c) \in Seq(1..(collected + c))
      /\ \A k \in 1..(Whole + c) : GrownBy(c)[k] = Gone + k
    BY <1>2, GrownKeeps
<1>6. ToSet(GrownBy(c)) = (Gone + 1)..collected'
    <2>1. DOMAIN GrownBy(c) = 1..(Whole + c)
        BY <1>5, LenProperties
    <2>2. \A i \in (Gone + 1)..collected' : i - Gone \in 1..(Whole + c) /\ GrownBy(c)[i - Gone] = i
        BY <1>1, <1>3, <1>5
    <2> QED
        <3>1. \A k \in 1..(Whole + c) : Gone + k \in (Gone + 1)..collected'
            BY <1>3
        <3> QED
            BY <1>5, <2>1, <2>2, <3>1 DEF ToSet
<1>7. Gone' >= Gone /\ (Gone' > Gone => Whole' = MaxBuffer)
    <2>1. Whole' <= Whole + c
        BY <1>1, <1>5, CappedKeeps DEF Whole
    <2>2. Whole' # Whole + c => Whole' = MaxBuffer
        <3>1. CASE Len(GrownBy(c)) > MaxBuffer
            BY <1>1, <1>5, <3>1, SizesAssumption, BoundsAssumption DEF Capped, Trimmed, Whole
        <3>2. CASE ~(Len(GrownBy(c)) > MaxBuffer)
            BY <1>1, <1>5, <3>2 DEF Capped, Whole
        <3> QED
            BY <3>1, <3>2
    <2>3. ASSUME NEW g \in Nat, NEW w \in Nat, Gone + Whole + c = g + w, w <= Whole + c
          PROVE  g >= Gone /\ (g > Gone => w # Whole + c)
        BY <1>3, <2>3
    <2> QED
        BY <1>3, <1>4, <2>1, <2>2, <2>3
<1> DEFINE grown == Held \cup ((collected + 1)..collected')
<1>8. grown = (Gone + 1)..collected'
    BY <1>3
<1>9. Held' = Transfer!Above(Gone', grown)
    <2>1. ASSUME NEW g \in Nat, NEW h \in Nat, h >= g, NEW n \in Nat
          PROVE  Transfer!Above(h, (g + 1)..n) = (h + 1)..n
        BY <2>1 DEF Transfer!Above
    <2>2. collected' \in Nat
        BY <1>3
    <2>3. Transfer!Above(Gone', (Gone + 1)..collected') = (Gone' + 1)..collected'
        BY <1>3, <1>4, <1>7, <2>1, <2>2
    <2> QED
        BY <1>4, <1>8, <2>3
<1>10. lost' = lost \cup Transfer!UpTo(Gone', grown)
    <2>1. ToSet(Capped(GrownBy(c))) = (Gone' + 1)..collected'
        BY <1>1, <1>4 DEF Held
    <2>2. Transfer!UpTo(Gone', grown) = ((Gone + 1)..collected') \ ((Gone' + 1)..collected')
        BY <1>3, <1>4, <1>8 DEF Transfer!UpTo
    <2> QED
        BY <1>1, <1>6, <2>1, <2>2
<1>11. Transfer!UpTo(Gone', grown) = {} \/ Cardinality(Held') = MaxBuffer
    <2>1. CASE Gone' > Gone
        <3>1. ASSUME NEW g \in Nat, NEW w \in Nat
              PROVE  Cardinality((g + 1)..(g + w)) = w
            <4>1. g + 1 \in Int /\ g + w \in Int
                OBVIOUS
            <4>2. Cardinality((g + 1)..(g + w)) = IF g + 1 > g + w THEN 0 ELSE (g + w) - (g + 1) + 1
                BY <4>1, FS_Interval
            <4> QED
                BY <4>2
        <3> QED
            BY <1>4, <1>7, <2>1, <3>1
    <2>2. CASE Gone' = Gone
        BY <1>3, <1>8, <2>2 DEF Transfer!UpTo
    <2>3. Gone' = Gone \/ Gone' > Gone
        BY <1>3, <1>4, <1>7
    <2> QED
        BY <2>1, <2>2, <2>3
<1>12. Gone' \in 0..MaxConnections
    <2>1. ASSUME NEW g \in Nat, NEW w \in Nat, g + w <= MaxConnections
          PROVE  g \in 0..MaxConnections
        BY <1>3, <2>1
    <2>2. Gone' + Whole' <= MaxConnections
        <3>1. collected' <= MaxConnections
            BY <1>3
        <3> QED
            BY <1>4, <3>1
    <2> QED
        BY <1>4, <2>1, <2>2
<1>13. stored' = stored
    BY DEF BusyTurn, tables
<1> HIDE DEF grown
<1>14. \E n \in collected..MaxConnections, k \in 0..MaxConnections :
           /\ collected' = n
           /\ grown = Held \cup ((collected + 1)..n)
           /\ Held' = Transfer!Above(k, grown)
           /\ lost' = lost \cup Transfer!UpTo(k, grown)
           /\ Transfer!UpTo(k, grown) = {} \/ Cardinality(Held') = MaxBuffer
    BY <1>3, <1>9, <1>10, <1>11, <1>12 DEF grown
<1>15. Transfer!Read
    BY <1>13, <1>14, SameCardinality DEF Transfer!Read, Held
<1> QED
    BY <1>15 DEF Simulated, Transfer!Next

\* What one step does to the requests.
LEMMA RequestsChange ==
    ASSUME Base, [Next]_vars, NEW h \in Handlers
    PROVE  \/ handler'[h].connections = handler[h].connections
           \/ handler'[h].connections = {}
           \/ handler'[h].connections = ToSet(Part)
<1>0. handler \in [Handlers -> Requests] /\ Idle.connections = {}
    BY DEF Base, TypeOK, Requests, Idle
<1>1. CASE UNCHANGED handler
    BY <1>1
<1>2. CASE Post
    BY <1>0, <1>1, <1>2 DEF Post
<1>3. ASSUME NEW g \in Handlers, Refuse(g) \/ StoreEvents(g)
      PROVE  handler'[h] = handler[h] \/ handler'[h] = Idle
    BY <1>0, <1>3 DEF Refuse, StoreEvents, Free
<1>4. ASSUME NEW g \in Handlers, StoreConnections(g)
      PROVE  handler'[h] = handler[h] \/ handler'[h].connections = {}
    BY <1>0, <1>4 DEF StoreConnections, Requests
<1>5. CASE PanelCrash
    BY <1>0, <1>5 DEF PanelCrash
<1>6. CASE BusyTurn \/ QuietTurn \/ TimePasses \/ Stop \/ Timeout \/ AgentCrash
    BY <1>1, <1>6 DEF BusyTurn, QuietTurn, TimePasses, Stop, Timeout, AgentCrash
<1>7. CASE UNCHANGED vars
    BY <1>1, <1>7 DEF vars
<1> QED
    BY <1>0, <1>2, <1>3, <1>4, <1>5, <1>6, <1>7 DEF Next, Handle

LEMMA NextRead == LogInv /\ [Next]_vars => LogInv'
<1> SUFFICES ASSUME LogInv, [Next]_vars PROVE RequestsRead'
    BY NextConnections DEF LogInv
<1>1. ToSet(Part) \subseteq 1..collected
    <2>1. HeldIsTail /\ start \in Nat /\ start <= Whole /\ TypeOK /\ BufferIsTail
        BY HeldNow DEF LogInv, ConnectionsInv, Base, TypeOK, InPlace
    <2>2. PartEnd \in start..Whole /\ ToSet(Part) = (Gone + start + 1)..(Gone + PartEnd)
        BY <2>1, PartIsInterval
    <2> QED
        BY <2>1, <2>2 DEF HeldIsTail
<1>2. 1..collected \subseteq 1..collected'
    <2>1. collected \in Nat /\ collected' \in Nat /\ collected <= collected'
        <3>1. CASE BusyTurn
            BY <3>1, BoundsAssumption DEF BusyTurn, LogInv, ConnectionsInv, Base, TypeOK
        <3>2. CASE ~BusyTurn
            <4>1. ASSUME QuietTurn \/ TimePasses \/ Stop \/ Post \/ Timeout \/ AgentCrash \/ PanelCrash
                  PROVE  collected' = collected
                BY <4>1 DEF QuietTurn, TimePasses, Stop, Post, Timeout, AgentCrash, PanelCrash, log
            <4>2. ASSUME NEW h \in Handlers, Refuse(h) \/ Handle(h)
                  PROVE  collected' = collected
                BY <4>2 DEF Refuse, Handle, StoreConnections, StoreEvents, agent, log
            <4>3. UNCHANGED vars => collected' = collected
                BY DEF vars, agent, log
            <4>4. collected' = collected
                BY <3>2, <4>1, <4>2, <4>3 DEF Next
            <4> QED
                BY <4>4, BoundsAssumption DEF LogInv, ConnectionsInv, Base, TypeOK
        <3> QED
            BY <3>1, <3>2
    <2> QED
        BY <2>1
<1> QED
    BY <1>1, <1>2, RequestsChange DEF LogInv, ConnectionsInv, RequestsRead

\* A request's connections are written, or lost: those before them came earlier.
LEMMA StoreSimulated == ASSUME LogInv, NEW h \in Handlers, StoreConnections(h) PROVE Simulated
<1>1. /\ handler[h].connections \in SUBSET (1..collected)
      /\ UNCHANGED <<collected, accumulated_connections>>
    BY DEF LogInv, RequestsRead, StoreConnections, agent, log, buffers
<1>2. Transfer!InOrder(handler[h].connections)
    <2> SUFFICES ASSUME NEW j \in handler[h].connections, NEW i \in 1..j
                 PROVE  i \in stored \cup lost \cup handler[h].connections
        BY DEF Transfer!InOrder
    <2>1. i \in 1..(j - 1) \/ i = j
        BY <1>1
    <2> QED
        BY <2>1 DEF LogInv, ConnectionsInv, RequestsInOrder, Settled
<1>3. \/ stored' = stored \cup handler[h].connections /\ lost' = lost
      \/ lost' = lost \cup handler[h].connections /\ stored' = stored
    BY DEF StoreConnections
<1>4. Transfer!Store \/ Transfer!Lose
    BY <1>1, <1>2, <1>3 DEF Transfer!Store, Transfer!Lose
<1> QED
    BY <1>4 DEF Simulated, Transfer!Next

LEMMA CrashSimulated == ASSUME LogInv, AgentCrash PROVE Simulated
<1>1. HeldIsTail
    BY HeldNow DEF LogInv, ConnectionsInv
<1>2. 0 \in 0..collected /\ Transfer!UpTo(0, Held) = {} /\ Transfer!Above(0, Held) = Held
    BY <1>1 DEF HeldIsTail, Transfer!UpTo, Transfer!Above
<1>3. Held' = {} /\ lost' = lost \cup Held /\ UNCHANGED <<collected, stored>>
    <2>1. ToSet(<< >>) = {}
        BY DEF ToSet
    <2> QED
        BY <2>1 DEF AgentCrash, Held, log, tables
<1>4. Transfer!Restart
    BY <1>2, <1>3 DEF Transfer!Restart, Transfer!Settled, Held
<1> QED
    BY <1>4 DEF Simulated, Transfer!Next

LEMMA NextSimulated == LogInv /\ [Next]_vars => Simulated
<1> SUFFICES ASSUME LogInv, [Next]_vars PROVE Simulated
    OBVIOUS
<1>1. CASE BusyTurn
    BY <1>1, BusySimulated
<1>2. CASE QuietTurn \/ TimePasses \/ Stop
    BY <1>2, UnseenStutters DEF QuietTurn, TimePasses, Stop, Unseen, log, buffers, tables
<1>3. CASE Post
    <2>1. CASE AttemptFails
        BY <1>3, <2>1, AttemptSimulated DEF Post, tables
    <2>2. CASE ~AttemptFails
        BY <1>3, <2>2, UnseenStutters DEF Post, Unseen, log, buffers, tables
    <2> QED
        BY <2>1, <2>2
<1>4. CASE Timeout
    BY <1>4, AttemptSimulated DEF Timeout, tables
<1>5. ASSUME NEW h \in Handlers, Refuse(h) PROVE Simulated
    <2>1. CASE AttemptFails
        BY <1>5, <2>1, AttemptSimulated DEF Refuse, tables
    <2>2. CASE Unheard(h)
        BY <1>5, <2>2, UnseenStutters DEF Refuse, Unheard, Unseen, log, buffers, tables
    <2> QED
        BY <1>5, <2>1, <2>2 DEF Refuse
<1>6. ASSUME NEW h \in Handlers, StoreConnections(h) PROVE Simulated
    BY <1>6, StoreSimulated
<1>7. ASSUME NEW h \in Handlers, StoreEvents(h) PROVE Simulated
    <2>1. CASE Unheard(h)
        BY <1>7, <2>1, UnseenStutters DEF StoreEvents, Unheard, Unseen, log, buffers
    <2>2. CASE awaiting = h /\ (AttemptFails \/ AttemptSucceeds)
        <3>1. at = "await" /\ handler[awaiting].at = "stored"
            BY <1>7, <2>2, HandlersAssumption
            DEF StoreEvents, LogInv, ConnectionsInv, Base, InPlace
        <3>2. ToSet(Part) \subseteq stored \cup lost
            BY <3>1 DEF LogInv, ConnectionsInv, AwaitedPart, Settled
        <3> QED
            BY <1>7, <2>2, <3>2, AttemptSimulated DEF StoreEvents
    <2> QED
        BY <1>7, <2>1, <2>2 DEF StoreEvents
<1>8. CASE AgentCrash
    BY <1>8, CrashSimulated
<1>9. CASE PanelCrash
    <2>1. CASE at = "await"
        BY <1>9, <2>1, AttemptSimulated DEF PanelCrash, tables
    <2>2. CASE at # "await"
        BY <1>9, <2>2, UnseenStutters DEF PanelCrash, Unseen, log, buffers, tables
    <2> QED
        BY <2>1, <2>2
<1>10. CASE UNCHANGED vars
    BY <1>10, UnseenStutters DEF vars, agent, Unseen, log, buffers, tables
<1> QED
    BY <1>1, <1>2, <1>3, <1>4, <1>5, <1>6, <1>7, <1>8, <1>9, <1>10 DEF Next, Handle

LEMMA InitTransfer == Init => LogInv /\ Transfer!Init
<1> SUFFICES ASSUME Init PROVE RequestsRead /\ Transfer!Init
    BY InitConnections DEF LogInv
<1>1. RequestsRead
    BY DEF Init, RequestsRead, Idle
<1>2. ToSet(<< >>) = {}
    BY DEF ToSet
<1> QED
    BY <1>1, <1>2 DEF Init, Transfer!Init

\* The agent and the collector implement LogTransfer: the connections are a log
\* transferred in order through a bounded buffer.
THEOREM ImplementsTransfer == Spec => TransfersLog
<1>1. LogInv /\ [Next]_vars => [Transfer!Next]_(Transfer!vars)
    BY NextSimulated DEF Simulated
<1> QED
    BY <1>1, InitTransfer, NextRead, PTL DEF Spec, TransfersLog, Transfer!Spec
=============================================================================
