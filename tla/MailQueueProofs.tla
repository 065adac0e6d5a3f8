--------------------------- MODULE MailQueueProofs ---------------------------
(***************************************************************************)
(* Proofs about MailQueue for any letters, any size of the batch and any   *)
(* number of attempts, retries and crashes.                                *)
(***************************************************************************)
EXTENDS MailQueue, TLAPS

InFlight == {"deliver", "accepted", "refused"}

\* The worker is at a row of its batch exactly while it delivers, and has
\* no batch between two passes.
WorkerInOrder ==
    /\ stage \in InFlight => current \in Picked
    /\ stage \notin InFlight => current = NoMail
    /\ stage \in {"rest", "select"} => Picked = {}

\* A row of the batch that is not at its turn yet is not sent, and has the
\* attempts it was read with or fewer, the latter only after a retry.
WaitingRows ==
    \A m \in Mails : m \in Picked /\ m # current =>
        /\ rows[m].status \in {"pending", "failed", "cancelled", "bounced", "deleted"}
        /\ rows[m].attempts <= batch[m]
        /\ Exists(m) => rows[m].attempts = batch[m] \/ m \in raced

\* The row at its turn has one attempt more; it is sent only by an unheard record.
RowInTurn ==
    stage \in InFlight =>
        /\ \/ rows[current].status \in {"sending", "bounced", "deleted"}
           \/ rows[current].status = "sent" /\ stage = "refused"
        /\ rows[current].attempts <= batch[current] + 1
        /\ Exists(current) => rows[current].attempts = batch[current] + 1 \/ current \in raced

\* A row that is sent or returned has the Message-ID a bounce is matched by.
MessageIdOfSent ==
    \A m \in Mails : /\ rows[m].status \in {"sent", "bounced"} => rows[m].message_id
                     /\ rows[m].message_id => Exists(m)

Inv ==
    /\ TypeOK /\ WorkerInOrder /\ WaitingRows /\ RowInTurn /\ MessageIdOfSent
    /\ GivesUpWhenExhausted

\* An empty queue satisfies the invariant.
LEMMA InitInv == Init => Inv
BY AttemptsAssumption, BoundAssumption, NoMailAssumption
DEF Init, Inv, TypeOK, WorkerInOrder, WaitingRows, RowInTurn, MessageIdOfSent,
    GivesUpWhenExhausted, Rows, Gone, InFlight, Picked, NotPicked, Exists

----------------------------------------------------------------------------
(* What the steps do to the rows.                                          *)

\* Replacing one row by another leaves a table of rows.
LEMMA OneRow ==
    ASSUME NEW table \in [Mails -> Rows], NEW m \in Mails, NEW row \in Rows
    PROVE  LET t == [table EXCEPT ![m] = row]
           IN  t \in [Mails -> Rows] /\ t[m] = row /\ \A n \in Mails : n # m => t[n] = table[n]
OBVIOUS

\* The mark at the start of _send_one counts one attempt.
LEMMA MarkedRow ==
    ASSUME NEW row \in Rows, row.attempts + 1 \in 0 .. MaxAttempts
    PROVE  LET r == Marked(row)
           IN  /\ r \in Rows /\ r.status = "sending" /\ r.attempts = row.attempts + 1
               /\ r.message_id = row.message_id
BY DEF Rows, Marked

\* A delivery that is recorded leaves a row that is sent.
LEMMA RecordedRow ==
    ASSUME NEW row \in Rows
    PROVE  LET r == Recorded(row)
           IN  r \in Rows /\ r.status = "sent" /\ r.message_id /\ r.attempts = row.attempts
BY DEF Rows, Recorded

\* A failed delivery, and the recovery of a stale row, keep the count of attempts.
LEMMA Failed ==
    ASSUME NEW row \in Rows, NEW next \in {"due", "later", "never"}
    PROVE  LET r == [row EXCEPT !.status = "failed", !.next = next]
           IN  /\ r \in Rows /\ r.status = "failed" /\ r.next = next
               /\ r.attempts = row.attempts /\ r.message_id = row.message_id
BY DEF Rows

\* A retry asked for by an administrator starts the count again.
LEMMA Reset ==
    ASSUME NEW row \in Rows
    PROVE  LET r == [row EXCEPT !.status = "pending", !.attempts = 0, !.next = "due"]
           IN  /\ r \in Rows /\ r.status = "pending" /\ r.attempts = 0
               /\ r.message_id = row.message_id
<1>1. 0 \in 0 .. MaxAttempts
    BY AttemptsAssumption
<1> QED
    BY <1>1 DEF Rows

\* The time that passes changes nothing else in a row.
LEMMA Aged ==
    ASSUME NEW row \in Rows
    PROVE  \A r \in {[row EXCEPT !.old = TRUE], [row EXCEPT !.stale = TRUE]} :
              /\ r \in Rows /\ r.status = row.status /\ r.attempts = row.attempts
              /\ r.next = row.next /\ r.message_id = row.message_id
BY DEF Rows

\* enqueue writes a row that is pending and due.
LEMMA Fresh ==
    LET r == [Gone("pending") EXCEPT !.next = "due"]
    IN  r \in Rows /\ r.status = "pending" /\ r.next = "due" /\ ~r.message_id
<1>1. 0 \in 0 .. MaxAttempts
    BY AttemptsAssumption
<1> QED
    BY <1>1 DEF Rows, Gone

----------------------------------------------------------------------------
(* The invariant is kept.                                                  *)

\* A step of the worker keeps the invariant.
LEMMA WorkerKeeps ==
    ASSUME Inv,
           \/ RecoverStale \/ SelectBatch \/ Deliver
           \/ RecordSent \/ RecordSentFails \/ RecordFailure \/ RecordFailureFails \/ Crash
           \/ \E m \in Mails : MarkSending(m) \/ MarkFails(m)
    PROVE  Inv'
<1> USE AttemptsAssumption, BoundAssumption, NoMailAssumption
    DEF Inv, TypeOK, WorkerInOrder, WaitingRows, RowInTurn, MessageIdOfSent,
        GivesUpWhenExhausted, Rows, InFlight, Picked, NotPicked, Exists
<1>1. CASE RecoverStale
    <2>1. /\ rows' \in [Mails -> Rows]
          /\ \A n \in Mails :
                /\ rows'[n].attempts = rows[n].attempts
                /\ rows'[n].message_id = rows[n].message_id
                /\ \/ rows'[n] = rows[n]
                   \/ /\ rows[n].status = "sending"
                      /\ rows'[n].status = "failed" /\ rows'[n].next = "due"
        <3> HIDE DEF Rows
        <3>1. \A n \in Mails :
                LET r == [rows[n] EXCEPT !.status = "failed", !.next = "due"]
                IN  /\ r \in Rows /\ r.status = "failed" /\ r.next = "due"
                    /\ r.attempts = rows[n].attempts /\ r.message_id = rows[n].message_id
            BY Failed
        <3> QED
            BY <1>1, <3>1 DEF RecoverStale
    <2>2. UNCHANGED <<batch, current, raced, retries, crashes>>
          /\ stage = "rest" /\ stage' = "select"
        BY <1>1 DEF RecoverStale
    <2>3. TypeOK' /\ WorkerInOrder' /\ RowInTurn'
        BY <2>1, <2>2
    <2>4. WaitingRows' /\ MessageIdOfSent' /\ GivesUpWhenExhausted'
        BY <2>1, <2>2
    <2> QED
        BY <2>3, <2>4
<1>2. CASE SelectBatch
    BY <1>2 DEF SelectBatch, Eligible
<1>3. ASSUME NEW m \in Mails, MarkSending(m) \/ MarkFails(m) PROVE Inv'
    <2> DEFINE r == Marked(rows[m])
    <2>1. m \in Picked /\ current = NoMail /\ m # current
        BY <1>3 DEF MarkSending, MarkFails
    <2>2. /\ stage = "pick"
          /\ \/ stage' = "deliver" /\ current' = m /\ batch' = batch
                /\ Update(m, r)
             \/ /\ stage' = IF Picked = {m} THEN "rest" ELSE "pick"
                /\ current' = NoMail /\ batch' = [batch EXCEPT ![m] = NotPicked]
          /\ UNCHANGED <<raced, retries, crashes>>
        BY ONLY <1>3 DEF MarkSending, MarkFails, Leave
    <2>3. CASE Exists(m) /\ Update(m, r)
        <3>1. r \in Rows /\ r.status = "sending" /\ r.attempts = rows[m].attempts + 1
            <4>1. rows[m] \in Rows /\ rows[m].attempts + 1 \in 0 .. MaxAttempts
                BY <2>1
            <4> HIDE DEF Rows
            <4> QED
                BY <4>1, MarkedRow
        <3>2. rows' = [rows EXCEPT ![m] = r]
            BY <2>3 DEF Update
        <3> HIDE DEF r
        <3>3. rows' \in [Mails -> Rows] /\ rows'[m] = r
              /\ \A n \in Mails : n # m => rows'[n] = rows[n]
            BY <3>1, <3>2
        <3>4. TypeOK' /\ WorkerInOrder' /\ RowInTurn'
            BY <2>1, <2>2, <2>3, <3>1, <3>3
        <3>5. WaitingRows' /\ MessageIdOfSent' /\ GivesUpWhenExhausted'
            BY <2>1, <2>2, <3>1, <3>3
        <3> QED
            BY <3>4, <3>5
    <2>4. CASE ~Exists(m) \/ ~Update(m, r)
        <3>1. UNCHANGED rows
            BY <1>3, <2>4 DEF MarkSending, MarkFails, Update
        <3>2. Exists(m) => stage' # "deliver"
            BY <2>2, <2>4
        <3>3. ~Exists(m) => rows[m].status = "deleted" /\ rows[m].attempts <= batch[m]
            BY <2>1
        <3> HIDE DEF r
        <3>4. TypeOK' /\ WorkerInOrder' /\ RowInTurn'
            BY <2>1, <2>2, <3>1, <3>2, <3>3
        <3>5. WaitingRows' /\ MessageIdOfSent' /\ GivesUpWhenExhausted'
            BY <2>1, <2>2, <3>1
        <3> QED
            BY <3>4, <3>5
    <2> QED
        BY <2>3, <2>4
<1>5. CASE Deliver
    BY <1>5 DEF Deliver
<1>6. CASE RecordSent \/ RecordSentFails
    <2> DEFINE r == Recorded(rows[current])
    <2>1. stage = "accepted" /\ current \in Mails /\ current \in Picked
        BY <1>6 DEF RecordSent, RecordSentFails
    <2>2. /\ \/ /\ batch' = [batch EXCEPT ![current] = NotPicked] /\ current' = NoMail
                /\ stage' = IF Picked = {current} THEN "rest" ELSE "pick"
             \/ stage' = "refused" /\ UNCHANGED <<batch, current>>
          /\ UNCHANGED <<raced, retries, crashes>>
        BY ONLY <1>6 DEF RecordSent, RecordSentFails, Leave
    <2>3. CASE Exists(current) /\ Update(current, r)
        <3>1. /\ r \in Rows /\ r.status = "sent" /\ r.message_id
              /\ r.attempts = rows[current].attempts
            <4> HIDE DEF Rows
            <4> QED
                BY <2>1, RecordedRow
        <3>2. rows' = [rows EXCEPT ![current] = r]
            BY <2>3 DEF Update
        <3> HIDE DEF r
        <3>3. rows' \in [Mails -> Rows] /\ rows'[current] = r
              /\ \A n \in Mails : n # current => rows'[n] = rows[n]
            BY <2>1, <3>1, <3>2
        <3>4. TypeOK' /\ WorkerInOrder' /\ RowInTurn'
            BY <2>1, <2>2, <2>3, <3>1, <3>3
        <3>5. WaitingRows' /\ MessageIdOfSent' /\ GivesUpWhenExhausted'
            BY <2>1, <2>2, <3>1, <3>3
        <3> QED
            BY <3>4, <3>5
    <2>4. CASE ~Exists(current) \/ ~Update(current, r)
        <3>1. UNCHANGED rows
            BY <1>6, <2>4 DEF RecordSent, RecordSentFails, Update
        <3> HIDE DEF r
        <3> QED
            BY <2>1, <2>2, <3>1
    <2> QED
        BY <2>3, <2>4
<1>8. CASE RecordFailure
    <2> DEFINE r == [rows[current] EXCEPT !.status = "failed", !.next = NextAttempt(current)]
    <2>1. current \in Mails /\ current \in Picked
        BY <1>8 DEF RecordFailure
    <2>2. CASE Exists(current)
        <3>1. r \in Rows /\ r.status = "failed" /\ r.attempts = rows[current].attempts
            <4>1. NextAttempt(current) \in {"due", "later", "never"}
                BY DEF NextAttempt
            <4>2. rows[current] \in Rows
                BY <2>1
            <4> QED
                BY ONLY <4>1, <4>2, Failed
        <3>3. r.next = "never" => r.attempts = MaxAttempts \/ current \in raced
            BY <1>8, <2>1, <2>2 DEF RecordFailure, NextAttempt
        <3>4. rows' = [rows EXCEPT ![current] = r]
            BY <1>8, <2>2 DEF RecordFailure, Update
        <3> HIDE DEF r
        <3>5. rows' \in [Mails -> Rows] /\ rows'[current] = r
              /\ \A n \in Mails : n # current => rows'[n] = rows[n]
            BY <2>1, <3>1, <3>4
        <3>6. /\ batch' = [batch EXCEPT ![current] = NotPicked] /\ current' = NoMail
              /\ stage' = IF Picked = {current} THEN "rest" ELSE "pick"
              /\ UNCHANGED <<raced, retries, crashes>>
            BY <1>8 DEF RecordFailure, Leave
        <3>7. TypeOK' /\ WorkerInOrder' /\ RowInTurn'
            BY <2>1, <3>1, <3>5, <3>6
        <3>8. WaitingRows' /\ MessageIdOfSent' /\ GivesUpWhenExhausted'
            BY <1>8, <2>1, <3>1, <3>3, <3>5, <3>6 DEF RecordFailure
        <3> QED
            BY <3>7, <3>8
    <2>3. CASE ~Exists(current)
        BY <1>8, <2>1, <2>3 DEF RecordFailure, Update, Leave
    <2> QED
        BY <2>2, <2>3
<1>9. CASE RecordFailureFails
    BY <1>9 DEF RecordFailureFails, Leave
<1>10. CASE Crash
    BY <1>10 DEF Crash
<1> QED
    BY <1>1, <1>2, <1>3, <1>5, <1>6, <1>8, <1>9, <1>10

\* So does a step of anybody else, or of time.
LEMMA OthersKeep ==
    ASSUME Inv,
           \/ ClearOld \/ CleanupOld
           \/ \E m \in Mails : \/ Enqueue(m) \/ Retry(m) \/ Cancel(m) \/ Bounce(m)
                              \/ ComesDue(m) \/ GrowsStale(m) \/ GrowsOld(m)
    PROVE  Inv'
<1> USE AttemptsAssumption, BoundAssumption, NoMailAssumption
    DEF Inv, TypeOK, WorkerInOrder, WaitingRows, RowInTurn, MessageIdOfSent,
        GivesUpWhenExhausted, Rows, InFlight, Picked, NotPicked, Exists, workerVars
<1>1. ASSUME NEW m \in Mails, Enqueue(m) PROVE Inv'
    <2>1. /\ rows' \in [Mails -> Rows]
          /\ rows'[m].status = "pending" /\ rows'[m].next = "due" /\ ~rows'[m].message_id
          /\ \A n \in Mails : n # m => rows'[n] = rows[n]
        <3> DEFINE r == [Gone("pending") EXCEPT !.next = "due"]
        <3>1. r \in Rows /\ r.status = "pending" /\ r.next = "due" /\ ~r.message_id
            <4> HIDE DEF Rows
            <4> QED
                BY Fresh
        <3>2. rows' = [rows EXCEPT ![m] = r]
            BY <1>1 DEF Enqueue
        <3> HIDE DEF r
        <3> QED
            BY <3>1, <3>2, OneRow
    <2>2. m \notin Picked /\ m # current
        BY <1>1 DEF Enqueue
    <2> QED
        BY <1>1, <2>1, <2>2 DEF Enqueue
<1>2. ASSUME NEW m \in Mails, Retry(m) PROVE Inv'
    <2>1. /\ rows' \in [Mails -> Rows]
          /\ rows'[m].status = "pending" /\ rows'[m].attempts = 0
          /\ rows'[m].message_id = rows[m].message_id
          /\ \A n \in Mails : n # m => rows'[n] = rows[n]
        <3> DEFINE r == [rows[m] EXCEPT !.status = "pending", !.attempts = 0, !.next = "due"]
        <3>1. r \in Rows /\ r.status = "pending" /\ r.attempts = 0
              /\ r.message_id = rows[m].message_id
            <4> HIDE DEF Rows
            <4> QED
                BY Reset
        <3>2. rows' = [rows EXCEPT ![m] = r]
            BY <1>2 DEF Retry
        <3> HIDE DEF r
        <3> QED
            BY <3>1, <3>2, OneRow
    <2>2. rows[m].status = "failed"
        BY <1>2 DEF Retry
    <2>3. stage \in InFlight => m # current
        BY <2>2
    <2>4. raced' \in SUBSET Mails /\ \A n \in Mails : n # m => (n \in raced' <=> n \in raced)
        BY <1>2 DEF Retry
    <2>5. m \in Picked => m \in raced'
        BY <1>2 DEF Retry
    <2>6. UNCHANGED <<batch, current, stage, crashes>> /\ retries' \in 0 .. MaxRetries
        <3>1. retries < MaxRetries /\ retries' = retries + 1
              /\ UNCHANGED <<batch, current, stage, crashes>>
            BY ONLY <1>2 DEF Retry
        <3> QED
            BY <3>1
    <2>7. TypeOK' /\ WorkerInOrder' /\ RowInTurn'
        BY <2>1, <2>2, <2>3, <2>4, <2>5, <2>6
    <2>8. WaitingRows' /\ GivesUpWhenExhausted'
        BY <2>1, <2>2, <2>3, <2>4, <2>5, <2>6
    <2>9. MessageIdOfSent'
        BY <2>1, <2>2
    <2> QED
        BY <2>7, <2>8, <2>9
<1>3. ASSUME NEW m \in Mails, Cancel(m) PROVE Inv'
    BY <1>3 DEF Cancel
<1>4. CASE ClearOld \/ CleanupOld
    <2>1. PICK which \in SUBSET Mails : Delete(which)
        BY <1>4 DEF ClearOld, CleanupOld
    <2>2. /\ rows' \in [Mails -> Rows]
          /\ \A n \in Mails :
                \/ rows'[n] = rows[n]
                \/ rows'[n].status = "deleted" /\ rows'[n].attempts = 0 /\ ~rows'[n].message_id
        BY <2>1 DEF Delete, Gone
    <2>3. UNCHANGED <<batch, current, stage, raced, crashes, retries>>
        BY <2>1 DEF Delete
    <2> QED
        BY <2>2, <2>3
<1>5. ASSUME NEW m \in Mails, Bounce(m) PROVE Inv'
    <2> DEFINE r == [rows[m] EXCEPT !.status = "bounced"]
    <2>1. /\ r \in Rows /\ r.status = "bounced" /\ r.message_id
          /\ r.attempts = rows[m].attempts
        BY <1>5 DEF Bounce
    <2>2. rows' = [rows EXCEPT ![m] = r] /\ UNCHANGED <<batch, current, stage, raced, crashes, retries>>
        BY <1>5 DEF Bounce
    <2>3. Exists(m)
        BY <1>5 DEF Bounce
    <2> HIDE DEF r
    <2>4. rows' \in [Mails -> Rows] /\ rows'[m] = r
          /\ \A n \in Mails : n # m => rows'[n] = rows[n]
        BY <2>1, <2>2
    <2> QED
        BY <2>1, <2>2, <2>3, <2>4
<1>6. ASSUME NEW m \in Mails, ComesDue(m) PROVE Inv'
    BY <1>6 DEF ComesDue
<1>7. ASSUME NEW m \in Mails, GrowsStale(m) PROVE Inv'
    <2>1. rows' \in [Mails -> Rows] /\ \A n \in Mails :
            /\ rows'[n].status = rows[n].status /\ rows'[n].attempts = rows[n].attempts
            /\ rows'[n].next = rows[n].next /\ rows'[n].message_id = rows[n].message_id
        <3> DEFINE r == [rows[m] EXCEPT !.stale = TRUE]
        <3>1. /\ r \in Rows /\ r.status = rows[m].status /\ r.attempts = rows[m].attempts
              /\ r.next = rows[m].next /\ r.message_id = rows[m].message_id
            <4> HIDE DEF Rows
            <4> QED
                BY Aged
        <3>2. rows' = [rows EXCEPT ![m] = r]
            BY <1>7 DEF GrowsStale
        <3> HIDE DEF r
        <3> QED
            BY <3>1, <3>2, OneRow
    <2> QED
        BY <1>7, <2>1 DEF GrowsStale
<1>8. ASSUME NEW m \in Mails, GrowsOld(m) PROVE Inv'
    <2>1. rows' \in [Mails -> Rows] /\ \A n \in Mails :
            /\ rows'[n].status = rows[n].status /\ rows'[n].attempts = rows[n].attempts
            /\ rows'[n].next = rows[n].next /\ rows'[n].message_id = rows[n].message_id
        <3> DEFINE r == [rows[m] EXCEPT !.old = TRUE]
        <3>1. /\ r \in Rows /\ r.status = rows[m].status /\ r.attempts = rows[m].attempts
              /\ r.next = rows[m].next /\ r.message_id = rows[m].message_id
            <4> HIDE DEF Rows
            <4> QED
                BY Aged
        <3>2. rows' = [rows EXCEPT ![m] = r]
            BY <1>8 DEF GrowsOld
        <3> HIDE DEF r
        <3> QED
            BY <3>1, <3>2, OneRow
    <2> QED
        BY <1>8, <2>1 DEF GrowsOld
<1> QED
    BY <1>1, <1>2, <1>3, <1>4, <1>5, <1>6, <1>7, <1>8

\* Every step keeps the invariant.
LEMMA NextInv == Inv /\ [Next]_vars => Inv'
<1> SUFFICES ASSUME Inv, [Next]_vars PROVE Inv'
    OBVIOUS
<1>1. CASE UNCHANGED vars
    BY <1>1 DEF vars, Inv, TypeOK, WorkerInOrder, WaitingRows, RowInTurn, MessageIdOfSent,
        GivesUpWhenExhausted, InFlight, Picked, Exists
<1>2. CASE Next
    BY <1>2, WorkerKeeps, OthersKeep DEF Next
<1> QED
    BY <1>1, <1>2

\* The invariant always holds.
LEMMA SpecInv == Spec => []Inv
<1> QED
    BY InitInv, NextInv, PTL DEF Spec

----------------------------------------------------------------------------
(* What follows.                                                           *)

\* The rows, the copies and the worker stay in their types.
THEOREM TypeCorrect == Spec => []TypeOK
<1>1. Inv => TypeOK
    BY DEF Inv
<1> QED
    BY <1>1, SpecInv, PTL

\* A letter is given up after max_attempts attempts and not before, but for
\* a retry that met its own delivery (outbound_queue.py:243-248).
THEOREM GivesUp == Spec => []GivesUpWhenExhausted
<1>1. Inv => GivesUpWhenExhausted
    BY DEF Inv
<1> QED
    BY <1>1, SpecInv, PTL

\* The row at its turn is the worker's, or deleted (outbound_queue.py:192-239).
THEOREM InFlightSafe == Spec => []InFlightUntouched
<1>1. Inv => InFlightUntouched
    BY DEF Inv, TypeOK, WorkerInOrder, RowInTurn, MessageIdOfSent, InFlight, InFlightUntouched, Picked
<1> QED
    BY <1>1, SpecInv, PTL

\* What was sent stays so unless the worker is about to write a failure over
\* its own unheard record, and what was returned or cancelled unless the
\* worker holds a copy (outbound_queue.py:160-170, 231-263,
\* mailserver.py:316-320).
THEOREM FinalStays == Spec => FinalIsFinal
<1> DEFINE Final(m) == \/ rows[m].status = "sent" /\ ~(m = current /\ stage = "refused")
                       \/ rows[m].status \in {"bounced", "cancelled"} /\ m \notin Picked
           Stays(m) == rows'[m].status \in {rows[m].status, "bounced", "deleted"}
           Kept == \A m \in Mails : Final(m) => Stays(m)
<1>1. Inv /\ [Next]_vars => [Kept]_vars
    <2> SUFFICES ASSUME Inv, Next, NEW n \in Mails, Final(n) PROVE Stays(n)
        OBVIOUS
    <2>1. rows \in [Mails -> Rows]
        BY DEF Inv, TypeOK
    <2>2. stage \in InFlight => current # n
        BY DEF Inv, WorkerInOrder, RowInTurn
    <2>3. n \in Picked => n = current
        BY DEF Inv, WaitingRows
    <2>4. stage \notin InFlight => current = NoMail
        BY DEF Inv, WorkerInOrder
    <2>5. CASE RecoverStale
        BY <2>1, <2>5 DEF RecoverStale
    <2>6. ASSUME NEW m \in Mails, MarkSending(m) \/ MarkFails(m) PROVE Stays(n)
        <3>1. m # n
            BY <2>3, <2>4, <2>6, NoMailAssumption DEF MarkSending, MarkFails, InFlight
        <3> QED
            BY <2>1, <2>6, <3>1 DEF MarkSending, MarkFails, Update
    <2>7. CASE RecordSent \/ RecordSentFails \/ RecordFailure
        BY <2>1, <2>2, <2>7 DEF RecordSent, RecordSentFails, RecordFailure, Update, InFlight
    <2>8. CASE ClearOld \/ CleanupOld
        BY <2>1, <2>8 DEF ClearOld, CleanupOld, Delete, Gone
    <2>9. ASSUME NEW m \in Mails,
                 Enqueue(m) \/ Retry(m) \/ Cancel(m) \/ Bounce(m)
          PROVE  Stays(n)
        BY <2>1, <2>9 DEF Enqueue, Retry, Cancel, Bounce, Rows
    <2>10. ASSUME NEW m \in Mails, ComesDue(m) \/ GrowsStale(m) \/ GrowsOld(m)
           PROVE  Stays(n)
        BY <2>1, <2>10 DEF ComesDue, GrowsStale, GrowsOld, Rows
    <2>11. CASE UNCHANGED rows
        BY <2>11
    <2> QED
        BY <2>5, <2>6, <2>7, <2>8, <2>9, <2>10, <2>11
        DEF Next, SelectBatch, Deliver, RecordFailureFails, Crash
<1> QED
    BY <1>1, SpecInv, PTL DEF Spec, FinalIsFinal

----------------------------------------------------------------------------
(* The letters.  Every step is one of LetterLife, or leaves alone what it    *)
(* sees.                                                                     *)

PhaseMap == [m \in Mails |-> PhaseOf(rows[m])]
TriesMap == [m \in Mails |-> rows[m].attempts]
RecordedOnes == {m \in Mails : rows[m].message_id}
Simulated == Life!Next \/ UNCHANGED Life!vars

\* A row of the batch that waits for its turn has not been given up.
ClaimedOpen ==
    \A m \in Picked : m # current /\ rows[m].status = "failed" => rows[m].next # "never"

LifeInv == Inv /\ ClaimedOpen

\* How the phase follows from the row.
LEMMA Phases ==
    ASSUME NEW row \in Rows
    PROVE  /\ row.status = "none" => PhaseOf(row) = "none"
           /\ row.status = "pending" => PhaseOf(row) = "waiting"
           /\ row.status = "sending" => PhaseOf(row) = "trying"
           /\ row.status = "sent" => PhaseOf(row) = "delivered"
           /\ row.status = "cancelled" => PhaseOf(row) = "withdrawn"
           /\ row.status = "bounced" => PhaseOf(row) = "returned"
           /\ row.status = "deleted" => PhaseOf(row) = "removed"
           /\ row.status = "failed" =>
                  PhaseOf(row) = IF Exhausted(row) THEN "given up" ELSE "waiting"
<1>1. /\ PhaseNames["none"] = "none" /\ PhaseNames["pending"] = "waiting"
      /\ PhaseNames["sending"] = "trying" /\ PhaseNames["sent"] = "delivered"
      /\ PhaseNames["cancelled"] = "withdrawn" /\ PhaseNames["bounced"] = "returned"
      /\ PhaseNames["deleted"] = "removed" /\ PhaseNames["failed"] = "waiting"
    BY DEF PhaseNames
<1> QED
    BY <1>1 DEF PhaseOf

\* A step that changes one row changes one letter.
LEMMA OneLetter ==
    ASSUME NEW m \in Mails, NEW row, rows \in [Mails -> Rows], rows' = [rows EXCEPT ![m] = row]
    PROVE  /\ PhaseMap' = [PhaseMap EXCEPT ![m] = PhaseOf(row)]
           /\ TriesMap' = [TriesMap EXCEPT ![m] = row.attempts]
           /\ row.attempts = rows[m].attempts => TriesMap' = TriesMap
           /\ row.message_id = rows[m].message_id => RecordedOnes' = RecordedOnes
           /\ row.message_id = TRUE => RecordedOnes' = RecordedOnes \cup {m}
<1>1. \A n \in Mails : rows'[n] = IF n = m THEN row ELSE rows[n]
    OBVIOUS
<1> QED
    BY <1>1 DEF PhaseMap, TriesMap, RecordedOnes

\* A step that changes neither phases nor attempts, nor the batch, is not seen.
LEMMA NotSeen ==
    ASSUME \A m \in Mails : /\ PhaseOf(rows'[m]) = PhaseOf(rows[m])
                            /\ rows'[m].attempts = rows[m].attempts
                            /\ rows'[m].message_id = rows[m].message_id,
           UNCHANGED <<batch, raced>>
    PROVE  Simulated
<1>1. /\ PhaseMap' = PhaseMap /\ TriesMap' = TriesMap /\ Picked' = Picked
      /\ RecordedOnes' = RecordedOnes
    BY DEF PhaseMap, TriesMap, Picked, RecordedOnes
<1> QED
    BY <1>1 DEF Simulated, Life!vars, PhaseMap, TriesMap, RecordedOnes

\* A letter of the batch that is not at its turn may be tried.
LEMMA ClaimedMayBeTried ==
    ASSUME LifeInv, NEW m \in Mails, m \in Picked, m # current, Exists(m)
    PROVE  /\ PhaseOf(rows[m]) \in {"waiting", "withdrawn", "returned"}
           /\ rows[m].attempts < MaxAttempts
<1>1. /\ rows[m] \in Rows /\ rows[m].status \in {"pending", "failed", "cancelled", "bounced"}
      /\ rows[m].attempts < MaxAttempts
    BY AttemptsAssumption
    DEF LifeInv, Inv, TypeOK, WaitingRows, Rows, Picked, NotPicked, Exists
<1>2. rows[m].status = "failed" => ~Exhausted(rows[m])
    BY <1>1, AttemptsAssumption DEF LifeInv, ClaimedOpen, Exhausted, Rows
<1> QED
    BY <1>1, <1>2, Phases

\* The worker leaves a letter of its batch as it is.
LEMMA LeavingSimulated ==
    ASSUME NEW m \in Mails, m \in Picked, Leave(m), UNCHANGED rows, batch \in [Mails -> Int]
    PROVE  Simulated
<1>1. Picked' = Picked \ {m} /\ raced' = raced
    BY DEF Leave, Picked, NotPicked
<1>2. PhaseMap' = PhaseMap /\ TriesMap' = TriesMap /\ RecordedOnes' = RecordedOnes
    BY DEF PhaseMap, TriesMap, RecordedOnes
<1>3. Life!Skip
    BY <1>1, <1>2 DEF Life!Skip, PhaseMap, TriesMap, RecordedOnes
<1> QED
    BY <1>3 DEF Simulated, Life!Next

\* What LetterLife sees of the worker.
LEMMA WorkerSimulated ==
    ASSUME LifeInv,
           \/ RecoverStale \/ SelectBatch \/ Deliver
           \/ RecordSent \/ RecordSentFails \/ RecordFailure \/ RecordFailureFails \/ Crash
           \/ \E m \in Mails : MarkSending(m) \/ MarkFails(m)
    PROVE  Simulated
<1>0. /\ rows \in [Mails -> Rows] /\ batch \in [Mails -> Int]
      /\ stage \in InFlight => current \in Mails /\ current \in Picked
      /\ stage \notin InFlight => current = NoMail
      /\ stage \in {"rest", "select"} => Picked = {}
    BY AttemptsAssumption DEF LifeInv, Inv, TypeOK, WorkerInOrder, Picked, NotPicked
<1>1. CASE RecoverStale
    <2> DEFINE S == {m \in Mails : rows[m].status = "sending" /\ rows[m].stale}
    <2>1. /\ S \in SUBSET {m \in Mails : PhaseMap[m] = "trying"}
        BY <1>0, Phases DEF PhaseMap
    <2>2. ASSUME NEW m \in Mails
          PROVE  /\ rows'[m].attempts = rows[m].attempts
                 /\ rows'[m].message_id = rows[m].message_id
                 /\ m \notin S => rows'[m] = rows[m]
                 /\ m \in S => PhaseOf(rows'[m]) =
                        IF rows[m].attempts = MaxAttempts THEN "given up" ELSE "waiting"
        <3>1. CASE m \in S
            <4> DEFINE r == [rows[m] EXCEPT !.status = "failed", !.next = "due"]
            <4>1. rows[m] \in Rows
                BY <1>0
            <4>2. /\ r \in Rows /\ r.status = "failed" /\ r.next = "due"
                  /\ r.attempts = rows[m].attempts /\ r.message_id = rows[m].message_id
                BY ONLY <4>1, Failed
            <4>3. rows'[m] = r
                BY <1>1, <3>1 DEF RecoverStale
            <4> HIDE DEF r
            <4> QED
                BY <3>1, <4>2, <4>3, Phases DEF Exhausted
        <3>2. CASE m \notin S
            BY <1>1, <3>2 DEF RecoverStale
        <3> QED
            BY <3>1, <3>2
    <2>3. TriesMap' = TriesMap /\ RecordedOnes' = RecordedOnes
        BY <2>2 DEF TriesMap, RecordedOnes
    <2>4. PhaseMap' = [m \in Mails |->
              IF m \notin S THEN PhaseMap[m]
              ELSE IF TriesMap[m] = MaxAttempts THEN "given up" ELSE "waiting"]
        BY <2>2 DEF PhaseMap, TriesMap
    <2>5. Picked = {} /\ Picked' = Picked /\ raced' = raced
        BY <1>0, <1>1 DEF RecoverStale, Picked
    <2> HIDE DEF S
    <2>6. Life!Recover
        BY <2>1, <2>3, <2>4, <2>5 DEF Life!Recover, PhaseMap, TriesMap, RecordedOnes
    <2> QED
        BY <2>6 DEF Simulated, Life!Next
<1>2. CASE SelectBatch
    <2>1. Picked = {} /\ UNCHANGED <<rows, raced>>
        BY <1>0, <1>2 DEF SelectBatch
    <2>2. Picked' \in SUBSET {m \in Mails : PhaseMap[m] = "waiting"}
        <3> SUFFICES ASSUME NEW m \in Mails, batch'[m] # NotPicked
                     PROVE  PhaseMap[m] = "waiting"
            BY DEF Picked
        <3>1. Eligible(m)
            BY <1>2 DEF SelectBatch
        <3>2. rows[m] \in Rows
            BY <1>0
        <3>3. rows[m].status = "failed" => ~Exhausted(rows[m])
            BY <3>1, <3>2, AttemptsAssumption DEF Eligible, Exhausted, Rows
        <3> QED
            BY <3>1, <3>2, <3>3, Phases DEF Eligible, PhaseMap
    <2>3. Life!Claim
        BY <2>1, <2>2 DEF Life!Claim, PhaseMap, TriesMap, RecordedOnes
    <2> QED
        BY <2>3 DEF Simulated, Life!Next
<1>3. ASSUME NEW m \in Mails, MarkSending(m) \/ MarkFails(m) PROVE Simulated
    <2>1. /\ m \in Picked /\ m # current /\ raced' = raced
          /\ \/ Picked' = Picked
             \/ Leave(m) /\ Picked' = Picked \ {m}
        <3>1. CASE MarkSending(m)
            <4>1. m \in Picked /\ raced' = raced /\ Picked' = Picked /\ stage = "pick"
                BY <3>1 DEF MarkSending, Picked
            <4>2. m # current
                BY <1>0, <4>1, NoMailAssumption DEF InFlight
            <4> QED
                BY <4>1, <4>2
        <3>2. CASE MarkFails(m)
            BY <1>0, <3>2, NoMailAssumption DEF MarkFails, Leave, InFlight, Picked, NotPicked
        <3> QED
            BY <1>3, <3>1, <3>2
    <2> DEFINE r == Marked(rows[m])
    <2>2. CASE Exists(m) /\ Update(m, r)
        <3>1. /\ PhaseMap[m] \in {"waiting", "withdrawn", "returned"}
              /\ TriesMap[m] < MaxAttempts
            BY <2>1, <2>2, ClaimedMayBeTried DEF PhaseMap, TriesMap
        <3>2. /\ r \in Rows /\ r.status = "sending" /\ r.attempts = rows[m].attempts + 1
              /\ r.message_id = rows[m].message_id
            <4>1. rows[m] \in Rows /\ rows[m].attempts + 1 \in 0 .. MaxAttempts
                BY <1>0, <3>1, AttemptsAssumption DEF Rows, TriesMap
            <4> QED
                BY ONLY <4>1, MarkedRow
        <3>3. rows' = [rows EXCEPT ![m] = r]
            BY <2>2 DEF Update
        <3> HIDE DEF r
        <3>4. /\ PhaseMap' = [PhaseMap EXCEPT ![m] = "trying"]
              /\ TriesMap' = [TriesMap EXCEPT ![m] = TriesMap[m] + 1]
              /\ RecordedOnes' = RecordedOnes
            <4>1. /\ PhaseMap' = [PhaseMap EXCEPT ![m] = PhaseOf(r)]
                  /\ TriesMap' = [TriesMap EXCEPT ![m] = r.attempts]
                  /\ RecordedOnes' = RecordedOnes
                BY <1>0, <3>2, <3>3, OneLetter
            <4>2. PhaseOf(r) = "trying" /\ r.attempts = TriesMap[m] + 1
                BY <3>2, Phases DEF TriesMap
            <4> QED
                BY <4>1, <4>2
        <3>5. Life!Try(m)
            BY <2>1, <3>1, <3>4 DEF Life!Try, Life!Becomes, PhaseMap, TriesMap, RecordedOnes
        <3> QED
            BY <3>5 DEF Simulated, Life!Next
    <2>3. CASE ~(Exists(m) /\ Update(m, r))
        <3>1. UNCHANGED rows
            BY <1>3, <2>3 DEF MarkSending, MarkFails, Update
        <3>2. CASE Leave(m)
            BY <1>0, <2>1, <3>1, <3>2, LeavingSimulated
        <3>3. CASE batch' = batch
            BY <2>1, <3>1, <3>3, NotSeen
        <3> QED
            BY <1>3, <3>2, <3>3 DEF MarkSending, MarkFails
    <2> QED
        BY <2>2, <2>3
<1>5. CASE Deliver
    BY <1>5, NotSeen DEF Deliver
<1>6. CASE RecordSent \/ RecordSentFails
    <2> DEFINE r == Recorded(rows[current])
    <2>1. /\ stage = "accepted" /\ current \in Mails /\ current \in Picked
          /\ Leave(current) \/ UNCHANGED <<batch, raced>>
        BY <1>0, <1>6 DEF RecordSent, RecordSentFails, InFlight
    <2>2. CASE Exists(current) /\ Update(current, r)
        <3>1. rows[current] \in Rows
            BY <1>0, <2>1
        <3>2. /\ r \in Rows /\ r.status = "sent" /\ r.message_id
              /\ r.attempts = rows[current].attempts
            BY ONLY <3>1, RecordedRow
        <3>3. rows' = [rows EXCEPT ![current] = r]
            BY <2>2 DEF Update
        <3>4. r.message_id = TRUE
            BY DEF Recorded
        <3> HIDE DEF r
        <3>5. /\ PhaseMap' = [PhaseMap EXCEPT ![current] = "delivered"]
              /\ TriesMap' = TriesMap
              /\ RecordedOnes' = RecordedOnes \cup {current}
            <4>1. /\ PhaseMap' = [PhaseMap EXCEPT ![current] = PhaseOf(r)]
                  /\ TriesMap' = TriesMap
                  /\ RecordedOnes' = RecordedOnes \cup {current}
                BY <1>0, <2>1, <3>2, <3>3, <3>4, OneLetter
            <4>2. PhaseOf(r) = "delivered"
                BY <3>2, Phases
            <4> QED
                BY <4>1, <4>2
        <3>6. PhaseMap[current] \in {"trying", "returned"}
            BY <2>1, <2>2, <3>1, Phases
            DEF LifeInv, Inv, RowInTurn, InFlight, Exists, PhaseMap
        <3>7. Picked' \in {Picked, Picked \ {current}} /\ raced' = raced
            BY <1>0, <2>1 DEF Leave, Picked, NotPicked
        <3>8. ASSUME NEW l \in Mails, l = current PROVE Life!Deliver(l)
            BY <2>1, <3>5, <3>6, <3>7, <3>8
            DEF Life!Deliver, Life!Becomes, PhaseMap, TriesMap, RecordedOnes
        <3> QED
            BY <2>1, <3>8 DEF Simulated, Life!Next
    <2>3. CASE ~(Exists(current) /\ Update(current, r))
        <3>1. UNCHANGED rows
            BY <1>6, <2>3 DEF RecordSent, RecordSentFails, Update
        <3>2. CASE Leave(current)
            BY <1>0, <2>1, <3>1, <3>2, LeavingSimulated
        <3>3. CASE UNCHANGED <<batch, raced>>
            BY <3>1, <3>3, NotSeen
        <3> QED
            BY <2>1, <3>2, <3>3
    <2> QED
        BY <2>2, <2>3
<1>7. CASE RecordFailure
    <2>1. current \in Mails /\ current \in Picked /\ Leave(current)
        BY <1>0, <1>7 DEF RecordFailure, InFlight
    <2>2. CASE Exists(current)
        <3> DEFINE next == NextAttempt(current)
                   r == [rows[current] EXCEPT !.status = "failed", !.next = next]
        <3>1. /\ rows[current] \in Rows /\ rows[current].status \in {"sending", "sent", "bounced"}
              /\ rows[current].attempts = batch[current] + 1 \/ current \in raced
              /\ rows[current].attempts \in 0..MaxAttempts /\ batch[current] \in Int
            BY <1>0, <1>7, <2>1, <2>2, AttemptsAssumption
            DEF LifeInv, Inv, RowInTurn, RecordFailure, InFlight, Exists, Rows
        <3>2. /\ next \in {"later", "never"}
              /\ next = "never" => rows[current].attempts = MaxAttempts \/ current \in raced
            <4>1. next = "never" => batch[current] + 1 >= MaxAttempts
                BY DEF NextAttempt
            <4> QED
                BY <3>1, <4>1, AttemptsAssumption DEF NextAttempt
        <3>3. rows' = [rows EXCEPT ![current] = r]
            BY <1>7, <2>2 DEF RecordFailure, Update
        <3> HIDE DEF next
        <3>4. /\ r \in Rows /\ r.status = "failed" /\ r.next = next
              /\ r.attempts = rows[current].attempts
              /\ r.message_id = rows[current].message_id
            <4>1. next \in {"due", "later", "never"} /\ rows[current] \in Rows
                BY <3>1, <3>2
            <4> QED
                BY ONLY <4>1, Failed
        <3> HIDE DEF r
        <3>5. /\ PhaseMap' = [PhaseMap EXCEPT ![current] = PhaseOf(r)]
              /\ TriesMap' = TriesMap /\ RecordedOnes' = RecordedOnes
            BY <1>0, <2>1, <3>3, <3>4, OneLetter
        <3>6. \/ PhaseOf(r) = "waiting" /\ TriesMap[current] < MaxAttempts
              \/ /\ PhaseOf(r) = "given up"
                 /\ TriesMap[current] = MaxAttempts \/ current \in raced
            <4>1. TriesMap[current] = rows[current].attempts
                BY <2>1 DEF TriesMap
            <4>2. Exhausted(r) <=> next = "never" \/ rows[current].attempts = MaxAttempts
                BY <3>4 DEF Exhausted
            <4>3. PhaseOf(r) = IF Exhausted(r) THEN "given up" ELSE "waiting"
                BY <3>4, Phases
            <4>4. rows[current].attempts # MaxAttempts => rows[current].attempts < MaxAttempts
                BY <3>1, AttemptsAssumption
            <4>5. CASE Exhausted(r)
                BY <3>2, <4>1, <4>2, <4>3, <4>5
            <4>6. CASE ~Exhausted(r)
                BY <4>1, <4>2, <4>3, <4>4, <4>6
            <4> QED
                BY <4>5, <4>6
        <3>7. \/ PhaseMap[current] = "trying"
              \/ PhaseMap[current] \in {"delivered", "returned"} /\ current \in RecordedOnes
            BY <2>1, <3>1, Phases DEF PhaseMap, RecordedOnes, LifeInv, Inv, MessageIdOfSent
        <3>8. Picked' = Picked \ {current} /\ raced' = raced
            BY <1>0, <2>1 DEF Leave, Picked, NotPicked
        <3>9. Life!Fail(current)
            BY <2>1, <3>5, <3>6, <3>7, <3>8 DEF Life!Fail, Life!Becomes, PhaseMap, TriesMap, RecordedOnes
        <3> QED
            BY <2>1, <3>9 DEF Simulated, Life!Next
    <2>3. CASE ~Exists(current)
        BY <1>0, <1>7, <2>1, <2>3, LeavingSimulated DEF RecordFailure, Update
    <2> QED
        BY <2>2, <2>3
<1>8. CASE RecordFailureFails
    BY <1>0, <1>8, LeavingSimulated DEF RecordFailureFails, InFlight
<1>9. CASE Crash
    <2>1. Picked' = Picked \ Picked /\ UNCHANGED <<rows, raced>>
        BY <1>9 DEF Crash, Picked
    <2>2. Life!Skip
        BY <2>1 DEF Life!Skip
    <2> QED
        BY <2>2 DEF Simulated, Life!Next
<1> QED
    BY <1>1, <1>2, <1>3, <1>5, <1>6, <1>7, <1>8, <1>9

\* What LetterLife sees of everybody else, and of time.
LEMMA OthersSimulated ==
    ASSUME LifeInv,
           \/ ClearOld \/ CleanupOld
           \/ \E m \in Mails : \/ Enqueue(m) \/ Retry(m) \/ Cancel(m) \/ Bounce(m)
                              \/ ComesDue(m) \/ GrowsStale(m) \/ GrowsOld(m)
    PROVE  Simulated
<1>0. rows \in [Mails -> Rows]
    BY DEF LifeInv, Inv, TypeOK
<1>1. ASSUME NEW m \in Mails, Enqueue(m) PROVE Simulated
    <2> DEFINE r == [Gone("pending") EXCEPT !.next = "due"]
    <2>1. r \in Rows /\ r.status = "pending" /\ r.attempts = 0 /\ r.message_id = FALSE
        BY Fresh DEF Gone
    <2>2. rows' = [rows EXCEPT ![m] = r] /\ rows[m].status = "none" /\ UNCHANGED workerVars
        BY <1>1 DEF Enqueue
    <2> HIDE DEF r
    <2>3. /\ PhaseMap' = [PhaseMap EXCEPT ![m] = "waiting"]
          /\ TriesMap' = [TriesMap EXCEPT ![m] = 0]
          /\ PhaseMap[m] = "none" /\ RecordedOnes' = RecordedOnes
        <3>1. /\ PhaseMap' = [PhaseMap EXCEPT ![m] = PhaseOf(r)]
              /\ TriesMap' = [TriesMap EXCEPT ![m] = r.attempts]
              /\ RecordedOnes' = RecordedOnes
            <4>1. rows[m].message_id = r.message_id
                BY <1>0, <2>1, <2>2 DEF LifeInv, Inv, MessageIdOfSent, Exists, Rows
            <4> QED
                BY <1>0, <2>1, <2>2, <4>1, OneLetter
        <3>2. PhaseOf(r) = "waiting" /\ PhaseOf(rows[m]) = "none"
            BY <1>0, <2>1, <2>2, Phases
        <3> QED
            BY <2>1, <3>1, <3>2 DEF PhaseMap
    <2>4. UNCHANGED <<Picked, raced>>
        BY <2>2 DEF workerVars, Picked
    <2>5. Life!Accept(m)
        BY <2>3, <2>4 DEF Life!Accept, Life!Becomes, PhaseMap, TriesMap, RecordedOnes
    <2> QED
        BY <2>5 DEF Simulated, Life!Next
<1>2. ASSUME NEW m \in Mails, Retry(m) PROVE Simulated
    <2> DEFINE r == [rows[m] EXCEPT !.status = "pending", !.attempts = 0, !.next = "due"]
    <2>1. rows[m] \in Rows /\ rows[m].status = "failed"
        BY <1>0, <1>2 DEF Retry
    <2>2. /\ r \in Rows /\ r.status = "pending" /\ r.attempts = 0
          /\ r.message_id = rows[m].message_id
        BY ONLY <2>1, Reset
    <2>3. rows' = [rows EXCEPT ![m] = r]
        BY <1>2 DEF Retry
    <2> HIDE DEF r
    <2>4. /\ PhaseMap' = [PhaseMap EXCEPT ![m] = "waiting"]
          /\ TriesMap' = [TriesMap EXCEPT ![m] = 0]
          /\ PhaseMap[m] \in {"waiting", "given up"} /\ RecordedOnes' = RecordedOnes
        <3>1. /\ PhaseMap' = [PhaseMap EXCEPT ![m] = PhaseOf(r)]
              /\ TriesMap' = [TriesMap EXCEPT ![m] = r.attempts]
              /\ RecordedOnes' = RecordedOnes
            BY <1>0, <2>2, <2>3, OneLetter
        <3>2. PhaseOf(r) = "waiting" /\ PhaseOf(rows[m]) \in {"waiting", "given up"}
            BY <2>1, <2>2, Phases
        <3> QED
            BY <2>2, <3>1, <3>2 DEF PhaseMap
    <2>5. /\ raced' = IF m \in Picked THEN raced \cup {m} ELSE raced \ {m}
          /\ Picked' = Picked
        BY <1>2 DEF Retry, Picked
    <2>6. Life!Retry(m)
        BY <2>4, <2>5 DEF Life!Retry, Life!Becomes, PhaseMap, TriesMap, RecordedOnes
    <2> QED
        BY <2>6 DEF Simulated, Life!Next
<1>3. ASSUME NEW m \in Mails, Cancel(m) PROVE Simulated
    <2> DEFINE r == [rows[m] EXCEPT !.status = "cancelled"]
    <2>1. rows[m] \in Rows /\ rows[m].status \in {"pending", "failed"}
        BY <1>0, <1>3 DEF Cancel
    <2>2. /\ r \in Rows /\ r.status = "cancelled" /\ r.attempts = rows[m].attempts
          /\ r.message_id = rows[m].message_id
        BY <2>1 DEF Rows
    <2>3. rows' = [rows EXCEPT ![m] = r] /\ UNCHANGED workerVars
        BY <1>3 DEF Cancel
    <2> HIDE DEF r
    <2>4. /\ PhaseMap' = [PhaseMap EXCEPT ![m] = "withdrawn"]
          /\ TriesMap' = TriesMap /\ RecordedOnes' = RecordedOnes
          /\ PhaseMap[m] \in {"waiting", "given up"}
        <3>1. /\ PhaseMap' = [PhaseMap EXCEPT ![m] = PhaseOf(r)] /\ TriesMap' = TriesMap
              /\ RecordedOnes' = RecordedOnes
            BY <1>0, <2>2, <2>3, OneLetter
        <3>2. PhaseOf(r) = "withdrawn" /\ PhaseOf(rows[m]) \in {"waiting", "given up"}
            BY <2>1, <2>2, Phases
        <3> QED
            BY <3>1, <3>2 DEF PhaseMap
    <2>5. UNCHANGED <<Picked, raced>>
        BY <2>3 DEF workerVars, Picked
    <2>6. Life!Withdraw(m)
        BY <2>4, <2>5 DEF Life!Withdraw, Life!Becomes, PhaseMap, TriesMap, RecordedOnes
    <2> QED
        BY <2>6 DEF Simulated, Life!Next
<1>4. CASE ClearOld \/ CleanupOld
    <2>1. PICK which \in SUBSET {m \in Mails : Exists(m)} : Delete(which)
        <3>1. CASE ClearOld
            <4> DEFINE old == {m \in Mails : Exists(m) /\ rows[m].old}
            <4>1. old \in SUBSET {m \in Mails : Exists(m)} /\ Delete(old)
                BY <3>1 DEF ClearOld
            <4> QED
                BY <4>1
        <3>2. CASE CleanupOld
            <4> DEFINE ended == {m \in Mails : /\ rows[m].old
                                               /\ rows[m].status \in
                                                    {"sent", "failed", "cancelled", "bounced"}}
            <4>1. Delete(ended)
                BY <3>2 DEF CleanupOld
            <4>2. ended \in SUBSET {m \in Mails : Exists(m)}
                BY DEF Exists
            <4> QED
                BY <4>1, <4>2
        <3> QED
            BY <1>4, <3>1, <3>2
    <2>2. Gone("deleted") \in Rows /\ PhaseOf(Gone("deleted")) = "removed"
        <3>1. 0 \in 0 .. MaxAttempts
            BY AttemptsAssumption
        <3>2. Gone("deleted") \in Rows /\ Gone("deleted").status = "deleted"
            BY <3>1 DEF Rows, Gone
        <3> QED
            BY <3>2, Phases
    <2>3. ASSUME NEW m \in Mails
          PROVE  /\ PhaseOf(rows'[m]) = IF m \in which THEN "removed" ELSE PhaseOf(rows[m])
                 /\ rows'[m].attempts = IF m \in which THEN 0 ELSE rows[m].attempts
                 /\ rows'[m].message_id = IF m \in which THEN FALSE ELSE rows[m].message_id
        <3>1. rows'[m] = IF m \in which THEN Gone("deleted") ELSE rows[m]
            BY <2>1 DEF Delete
        <3>2. Gone("deleted").attempts = 0 /\ Gone("deleted").message_id = FALSE
            BY DEF Gone
        <3> QED
            BY <2>2, <3>1, <3>2
    <2>4. /\ PhaseMap' = [m \in Mails |-> IF m \in which THEN "removed" ELSE PhaseMap[m]]
          /\ TriesMap' = [m \in Mails |-> IF m \in which THEN 0 ELSE TriesMap[m]]
          /\ RecordedOnes' = RecordedOnes \ which
        BY <2>3 DEF PhaseMap, TriesMap, RecordedOnes
    <2>5. which \in SUBSET {m \in Mails : PhaseMap[m] # "none"}
        <3> SUFFICES ASSUME NEW m \in which PROVE PhaseMap[m] # "none"
            BY <2>1
        <3>1. rows[m] \in Rows /\ rows[m].status \notin {"none", "deleted"}
            BY <1>0, <2>1 DEF Exists
        <3>2. rows[m].status \in {"pending", "sending", "sent", "failed", "cancelled", "bounced"}
            BY <3>1 DEF Rows
        <3> QED
            BY <2>1, <3>1, <3>2, Phases DEF PhaseMap
    <2>6. UNCHANGED <<Picked, raced>>
        BY <2>1 DEF Delete, workerVars, Picked
    <2>7. Life!Remove
        BY <2>4, <2>5, <2>6 DEF Life!Remove, PhaseMap, TriesMap, RecordedOnes
    <2> QED
        BY <2>7 DEF Simulated, Life!Next
<1>5. ASSUME NEW m \in Mails, Bounce(m) PROVE Simulated
    <2> DEFINE r == [rows[m] EXCEPT !.status = "bounced"]
    <2>1. rows[m] \in Rows /\ rows[m].message_id /\ rows[m].status # "bounced"
        BY <1>0, <1>5 DEF Bounce
    <2>2. /\ r \in Rows /\ r.status = "bounced" /\ r.attempts = rows[m].attempts
          /\ r.message_id = rows[m].message_id
        BY <2>1 DEF Rows
    <2>3. rows' = [rows EXCEPT ![m] = r] /\ UNCHANGED workerVars
        BY <1>5 DEF Bounce
    <2> HIDE DEF r
    <2>4. /\ PhaseMap' = [PhaseMap EXCEPT ![m] = "returned"]
          /\ TriesMap' = TriesMap /\ RecordedOnes' = RecordedOnes
          /\ PhaseMap[m] # "returned" /\ m \in RecordedOnes
        <3>1. /\ PhaseMap' = [PhaseMap EXCEPT ![m] = PhaseOf(r)] /\ TriesMap' = TriesMap
              /\ RecordedOnes' = RecordedOnes
            BY <1>0, <2>2, <2>3, OneLetter
        <3>2. PhaseOf(r) = "returned" /\ PhaseOf(rows[m]) # "returned"
            BY <2>1, <2>2, Phases DEF Rows
        <3> QED
            BY <2>1, <3>1, <3>2 DEF PhaseMap, RecordedOnes
    <2>5. UNCHANGED <<Picked, raced>>
        BY <2>3 DEF workerVars, Picked
    <2>6. Life!Return(m)
        BY <2>4, <2>5 DEF Life!Return, Life!Becomes, PhaseMap, TriesMap, RecordedOnes
    <2> QED
        BY <2>6 DEF Simulated, Life!Next
<1>6. ASSUME NEW m \in Mails, ComesDue(m) \/ GrowsStale(m) \/ GrowsOld(m)
      PROVE  Simulated
    <2>1. ASSUME NEW n \in Mails
          PROVE  /\ rows'[n].status = rows[n].status /\ rows'[n].attempts = rows[n].attempts
                 /\ rows'[n].message_id = rows[n].message_id
                 /\ rows'[n].next = "never" <=> rows[n].next = "never"
        BY <1>0, <1>6 DEF ComesDue, GrowsStale, GrowsOld, Rows
    <2>2. \A n \in Mails : PhaseOf(rows'[n]) = PhaseOf(rows[n])
        BY <2>1 DEF PhaseOf, Exhausted
    <2>3. UNCHANGED <<batch, raced>>
        BY <1>6 DEF ComesDue, GrowsStale, GrowsOld, workerVars
    <2> QED
        BY <2>1, <2>2, <2>3, NotSeen
<1> QED
    BY <1>1, <1>2, <1>3, <1>4, <1>5, <1>6

\* A letter whose row the worker has copied is not given up before its turn.
LEMMA NextClaimed == LifeInv /\ [Next]_vars => LifeInv'
<1> SUFFICES ASSUME LifeInv, [Next]_vars, NEW n \in Picked', n # current',
                    rows'[n].status = "failed"
             PROVE  rows'[n].next # "never"
    BY NextInv DEF LifeInv, ClaimedOpen
<1>1. /\ rows \in [Mails -> Rows] /\ n \in Mails
      /\ stage \in {"rest", "select"} => Picked = {}
      /\ stage \in InFlight => current \in Picked
      /\ batch \in [Mails -> Int]
    BY AttemptsAssumption DEF LifeInv, Inv, TypeOK, WorkerInOrder, Picked, NotPicked
<1>2. n \in Picked /\ n # current /\ rows[n].status = "failed" => rows[n].next # "never"
    BY DEF LifeInv, ClaimedOpen
<1>3. CASE RecoverStale
    BY <1>1, <1>3 DEF RecoverStale, Picked
<1>4. CASE SelectBatch
    BY <1>1, <1>4 DEF SelectBatch, Eligible, Picked
<1>5. ASSUME NEW m \in Mails, MarkSending(m) PROVE rows'[n].next # "never"
    <2>1. n # m /\ n \in Picked
        BY <1>5 DEF MarkSending, Picked
    <2>2. n # current
        BY <1>5, <1>1, NoMailAssumption DEF MarkSending, LifeInv, Inv, WorkerInOrder, InFlight
    <2> QED
        BY <1>1, <1>2, <1>5, <2>1, <2>2 DEF MarkSending, Update
<1>6. ASSUME NEW m \in Mails, m \in Picked, Leave(m),
             \A x \in Mails : x # m => rows'[x] = rows[x],
             stage \in InFlight => m = current
      PROVE  rows'[n].next # "never"
    <2>1. n # m /\ n \in Picked
        BY <1>1, <1>6 DEF Leave, Picked, NotPicked
    <2>2. n # current
        BY <1>1, <1>6, <2>1, NoMailAssumption DEF LifeInv, Inv, WorkerInOrder
    <2> QED
        BY <1>1, <1>2, <1>6, <2>1, <2>2
<1>7. CASE RecordSent \/ RecordFailure \/ RecordFailureFails
    BY <1>1, <1>6, <1>7 DEF RecordSent, RecordFailure, RecordFailureFails, Update, InFlight, Picked
<1>8. ASSUME NEW m \in Mails, MarkFails(m) PROVE rows'[n].next # "never"
    BY <1>1, <1>6, <1>8 DEF MarkFails, Update, InFlight
<1>9. CASE Deliver \/ RecordSentFails \/ UNCHANGED vars
    BY <1>1, <1>2, <1>9 DEF Deliver, RecordSentFails, Update, Recorded, Rows, vars, Picked
<1>10. CASE Crash
    BY <1>10 DEF Crash, Picked
<1>11. ASSUME NEW m \in Mails, Enqueue(m) \/ Retry(m) PROVE rows'[n].next # "never"
    <2>1. n \in Picked /\ n # current
        BY <1>11 DEF Enqueue, Retry, workerVars, Picked
    <2> QED
        BY <1>1, <1>2, <1>11, <2>1 DEF Enqueue, Retry, Gone, Rows
<1>12. ASSUME NEW m \in Mails,
              \/ Cancel(m) \/ Bounce(m) \/ ComesDue(m) \/ GrowsStale(m) \/ GrowsOld(m)
       PROVE  rows'[n].next # "never"
    <2>1. n \in Picked /\ n # current
        BY <1>12 DEF Cancel, Bounce, ComesDue, GrowsStale, GrowsOld, workerVars, Picked
    <2> QED
        BY <1>1, <1>2, <1>12, <2>1 DEF Cancel, Bounce, ComesDue, GrowsStale, GrowsOld, Rows
<1>13. CASE ClearOld \/ CleanupOld
    <2>1. n \in Picked /\ n # current
        BY <1>13 DEF ClearOld, CleanupOld, Delete, workerVars, Picked
    <2> QED
        BY <1>1, <1>2, <1>13, <2>1 DEF ClearOld, CleanupOld, Delete, Gone
<1> QED
    BY <1>3, <1>4, <1>5, <1>7, <1>8, <1>9, <1>10, <1>11, <1>12, <1>13 DEF Next

LEMMA InitLife == Init => LifeInv /\ Life!Init
<1> SUFFICES ASSUME Init PROVE ClaimedOpen /\ Life!Init
    BY InitInv DEF LifeInv
<1>1. Picked = {}
    BY DEF Init, Picked
<1>2. Gone("none").attempts = 0 /\ PhaseOf(Gone("none")) = "none"
    BY DEF Gone, PhaseOf, PhaseNames
<1> QED
    BY <1>1, <1>2 DEF Init, ClaimedOpen, Life!Init, Gone

\* The queue, its worker and everybody else who writes the table implement
\* LetterLife (outbound_queue.py:126-263, mailserver.py:294-338).
THEOREM ImplementsLife == Spec => LivesAsPromised
<1>1. LifeInv /\ [Next]_vars => [Life!Next]_(Life!vars)
    <2> SUFFICES ASSUME LifeInv, [Next]_vars PROVE Simulated
        BY DEF Simulated
    <2>1. CASE Next
        BY <2>1, WorkerSimulated, OthersSimulated DEF Next
    <2>2. CASE UNCHANGED vars
        BY <2>2, NotSeen DEF vars
    <2> QED
        BY <2>1, <2>2
<1> QED
    BY <1>1, InitLife, NextClaimed, PTL DEF Spec, LivesAsPromised, Life!Spec
=============================================================================
