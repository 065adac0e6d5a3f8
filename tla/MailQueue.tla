------------------------------ MODULE MailQueue ------------------------------
(***************************************************************************)
(* The outbound mail queue: the rows of email_queue, the one worker that   *)
(* takes them in batches and hands them over to the recipient's server     *)
(* (web/backend/core/mail/outbound_queue.py), and everyone else who writes *)
(* the same rows without asking it: the API (retry, cancel, clear), the    *)
(* reader of bounces and the daily cleanup (processor.py).                 *)
(*                                                                         *)
(* The batch is a SELECT ... FOR UPDATE SKIP LOCKED outside a transaction: *)
(* its locks are gone when it returns, and the worker goes on with copies  *)
(* of the rows.  A suppressed address or the hourly limit make enqueue     *)
(* return without a row: those letters never show here.                    *)
(***************************************************************************)
EXTENDS Integers, FiniteSets

CONSTANTS
    Mails,       \* ids of rows, in the order of nothing: priorities are free
    NoMail,
    MaxAttempts, \* email_queue.max_attempts
    BatchSize,   \* BATCH_SIZE
    MaxRetries,  \* bound: retries an administrator asks for
    MaxCrashes   \* bound: times the worker dies or is stopped

ASSUME NoMailAssumption == NoMail \notin Mails
ASSUME AttemptsAssumption == MaxAttempts \in Nat \ {0} /\ BatchSize \in Nat \ {0}
ASSUME BoundAssumption == MaxRetries \in Nat /\ MaxCrashes \in Nat

VARIABLES
    rows,     \* email_queue
    batch,    \* the attempts each row of the current batch was read with
    current,  \* the row _send_one is at
    stage,    \* where the worker stands
    raced,    \* ghost: letters last retried while the worker held a copy of them
    retries, crashes

vars == <<rows, batch, current, stage, raced, retries, crashes>>

\* next: next_attempt_at is past, ahead or NULL.  stale: last_attempt_at is
\* more than STALE_SENDING_MINUTES ago.  old: created_at is beyond retention.
Rows == [status : {"none", "pending", "sending", "sent", "failed", "cancelled",
                   "bounced", "deleted"},
         attempts : 0..MaxAttempts, next : {"due", "later", "never"},
         stale : BOOLEAN, old : BOOLEAN, message_id : BOOLEAN]

Gone(status) == [status |-> status, attempts |-> 0, next |-> "never",
                 stale |-> FALSE, old |-> FALSE, message_id |-> FALSE]

NotPicked == -1

TypeOK ==
    /\ rows \in [Mails -> Rows]
    /\ batch \in [Mails -> 0..MaxAttempts - 1 \cup {NotPicked}]
    /\ current \in Mails \cup {NoMail}
    /\ stage \in {"rest", "select", "pick", "deliver", "accepted", "refused"}
    /\ raced \subseteq Mails
    /\ retries \in 0..MaxRetries
    /\ crashes \in 0..MaxCrashes

Init ==
    /\ rows = [m \in Mails |-> Gone("none")]
    /\ batch = [m \in Mails |-> NotPicked]
    /\ current = NoMail
    /\ stage = "rest"
    /\ raced = {}
    /\ retries = 0
    /\ crashes = 0

Exists(m) == rows[m].status \notin {"none", "deleted"}
Picked == {m \in Mails : batch[m] # NotPicked}
workerVars == <<batch, current, stage, raced, crashes>>

----------------------------------------------------------------------------
(* The worker                                                              *)

\* (Mutant: rows left in sending are not looked for.)
RecoverNothing ==
    /\ stage = "rest"
    /\ stage' = "select"
    /\ UNCHANGED <<rows, batch, current, raced, retries, crashes>>

\* _recover_stale_sending
RecoverStale ==
    /\ stage = "rest"
    /\ stage' = "select"
    /\ rows' = [m \in Mails |->
            IF rows[m].status = "sending" /\ rows[m].stale
            THEN [rows[m] EXCEPT !.status = "failed", !.next = "due"]
            ELSE rows[m]]
    /\ UNCHANGED <<batch, current, raced, retries, crashes>>

\* (Mutant: the batch takes every row whose time has come.)
EligibleByTime(m) == Exists(m) /\ rows[m].next = "due" /\ rows[m].attempts < MaxAttempts

\* (Mutant: the batch takes rows without regard to max_attempts.)
EligibleForEver(m) == rows[m].status \in {"pending", "failed"} /\ rows[m].next = "due"

Eligible(m) ==
    /\ rows[m].status \in {"pending", "failed"}
    /\ rows[m].next = "due"
    /\ rows[m].attempts < MaxAttempts

\* The SELECT of _process_queue.
SelectBatch ==
    /\ stage = "select"
    /\ \E picked \in SUBSET {m \in Mails : Eligible(m)} :
          /\ Cardinality(picked) <= BatchSize
          /\ picked # {m \in Mails : Eligible(m)} => Cardinality(picked) = BatchSize
          /\ batch' = [m \in Mails |->
                IF m \in picked THEN rows[m].attempts ELSE NotPicked]
          /\ stage' = IF picked = {} THEN "rest" ELSE "pick"
    /\ UNCHANGED <<rows, current, raced, retries, crashes>>

\* The next row of the batch, or the end of the pass.
Leave(m) ==
    /\ batch' = [batch EXCEPT ![m] = NotPicked]
    /\ current' = NoMail
    /\ stage' = IF Picked = {m} THEN "rest" ELSE "pick"
    /\ UNCHANGED <<raced, retries, crashes>>

\* The UPDATEs of _send_one name the row by its id alone; without such a row
\* they change nothing.
Update(m, row) == rows' = IF Exists(m) THEN [rows EXCEPT ![m] = row] ELSE rows

Marked(row) == [row EXCEPT !.status = "sending", !.attempts = @ + 1, !.stale = FALSE]

MarkSending(m) ==
    /\ stage = "pick"
    /\ m \in Picked
    /\ Update(m, Marked(rows[m]))
    /\ current' = m
    /\ stage' = "deliver"
    /\ UNCHANGED <<batch, raced, retries, crashes>>

\* The mark stands before the try: when the call raises, with or without the
\* UPDATE carried out, _process_queue goes on to the next row.
MarkFails(m) ==
    /\ stage = "pick"
    /\ m \in Picked
    /\ Leave(m)
    /\ UNCHANGED rows \/ Update(m, Marked(rows[m]))

\* _deliver_smtp, _deliver_brevo.  The call may raise although a server has
\* accepted the letter, and its fallback then hands over another copy.
Deliver ==
    /\ stage = "deliver"
    /\ stage' \in {"accepted", "refused"}
    /\ UNCHANGED <<rows, batch, current, raced, retries, crashes>>

Recorded(row) == [row EXCEPT !.status = "sent", !.message_id = TRUE]

RecordSent ==
    /\ stage = "accepted"
    /\ Update(current, Recorded(rows[current]))
    /\ Leave(current)

\* The UPDATE stands inside the try: a call that raises counts as a failed
\* delivery, whether the UPDATE was carried out or not.
RecordSentFails ==
    /\ stage = "accepted"
    /\ stage' = "refused"
    /\ UNCHANGED rows \/ Update(current, Recorded(rows[current]))
    /\ UNCHANGED <<batch, current, raced, retries, crashes>>

\* (Mutant: the snapshot is taken to be counted already.)
NextAttemptTooEarly(m) == IF batch[m] + 2 >= MaxAttempts THEN "never" ELSE "later"

\* The attempts of the copy, not of the row, decide whether there is another.
NextAttempt(m) == IF batch[m] + 1 >= MaxAttempts THEN "never" ELSE "later"

RecordFailure ==
    /\ stage = "refused"
    /\ Update(current, [rows[current] EXCEPT !.status = "failed",
                                             !.next = NextAttempt(current)])
    /\ Leave(current)

RecordFailureFails ==
    /\ stage = "refused"
    /\ Leave(current)
    /\ UNCHANGED rows

\* stop() cancels the task (CancelledError is not an Exception), or the
\* process dies; it comes back with nothing but the table.
Crash ==
    /\ crashes < MaxCrashes
    /\ stage # "rest"
    /\ crashes' = crashes + 1
    /\ stage' = "rest"
    /\ batch' = [m \in Mails |-> NotPicked]
    /\ current' = NoMail
    /\ UNCHANGED <<rows, raced, retries>>

----------------------------------------------------------------------------
(* The others                                                              *)

\* enqueue (shared/mail_queue.py)
Enqueue(m) ==
    /\ rows[m].status = "none"
    /\ rows' = [rows EXCEPT ![m] = [Gone("pending") EXCEPT !.next = "due"]]
    /\ UNCHANGED <<workerVars, retries>>

\* retry_queue_item
Retry(m) ==
    /\ retries < MaxRetries
    /\ rows[m].status = "failed"
    /\ rows' = [rows EXCEPT ![m].status = "pending", ![m].attempts = 0, ![m].next = "due"]
    /\ retries' = retries + 1
    /\ raced' = IF m \in Picked THEN raced \cup {m} ELSE raced \ {m}
    /\ UNCHANGED <<batch, current, stage, crashes>>

\* (Mutant: a letter that is being sent is cancelled too.)
CancelInFlight(m) ==
    /\ rows[m].status \in {"pending", "failed", "sending", "sent"}
    /\ rows' = [rows EXCEPT ![m].status = "cancelled"]
    /\ UNCHANGED <<workerVars, retries>>

\* cancel_queue_item
Cancel(m) ==
    /\ rows[m].status \in {"pending", "failed"}
    /\ rows' = [rows EXCEPT ![m].status = "cancelled"]
    /\ UNCHANGED <<workerVars, retries>>

Delete(which) ==
    /\ which # {}
    /\ rows' = [m \in Mails |-> IF m \in which THEN Gone("deleted") ELSE rows[m]]
    /\ UNCHANGED <<workerVars, retries>>

\* clear_old_queue: whatever the status.
ClearOld == Delete({m \in Mails : Exists(m) /\ rows[m].old})

\* The second half of cleanup_old.
CleanupOld ==
    Delete({m \in Mails : /\ rows[m].old
                          /\ rows[m].status \in {"sent", "failed", "cancelled", "bounced"}})

\* (Mutant: a bounce is matched by the letter, not by the copy that was sent.)
BounceAny(m) ==
    /\ Exists(m)
    /\ rows[m].status # "bounced"
    /\ rows' = [rows EXCEPT ![m].status = "bounced"]
    /\ UNCHANGED <<workerVars, retries>>

\* _handle_bounce: found by the Message-ID of the copy the row recorded.
Bounce(m) ==
    /\ rows[m].message_id
    /\ rows[m].status # "bounced"
    /\ rows' = [rows EXCEPT ![m].status = "bounced"]
    /\ UNCHANGED <<workerVars, retries>>

ComesDue(m) ==
    /\ rows[m].next = "later"
    /\ rows' = [rows EXCEPT ![m].next = "due"]
    /\ UNCHANGED <<workerVars, retries>>

GrowsStale(m) ==
    /\ rows[m].status = "sending"
    /\ ~rows[m].stale
    /\ rows' = [rows EXCEPT ![m].stale = TRUE]
    /\ UNCHANGED <<workerVars, retries>>

GrowsOld(m) ==
    /\ Exists(m)
    /\ ~rows[m].old
    /\ rows' = [rows EXCEPT ![m].old = TRUE]
    /\ UNCHANGED <<workerVars, retries>>

Next ==
    \/ RecoverStale \/ SelectBatch \/ Deliver
    \/ RecordSent \/ RecordSentFails \/ RecordFailure \/ RecordFailureFails
    \/ Crash \/ ClearOld \/ CleanupOld
    \/ \E m \in Mails :
          \/ MarkSending(m) \/ MarkFails(m)
          \/ Enqueue(m) \/ Retry(m) \/ Cancel(m) \/ Bounce(m)
          \/ ComesDue(m) \/ GrowsStale(m) \/ GrowsOld(m)

Spec == Init /\ [][Next]_vars

\* The loop runs and time passes; the mark does not fail for ever.
Fairness ==
    /\ WF_vars(RecoverStale) /\ WF_vars(SelectBatch) /\ WF_vars(Deliver)
    /\ WF_vars(RecordSent \/ RecordSentFails)
    /\ WF_vars(RecordFailure \/ RecordFailureFails)
    /\ \A m \in Mails :
          /\ WF_vars(MarkSending(m) \/ MarkFails(m))
          /\ SF_vars(MarkSending(m))
          /\ WF_vars(ComesDue(m))
          /\ WF_vars(GrowsStale(m))

FairSpec == Spec /\ Fairness

----------------------------------------------------------------------------
(* Properties                                                              *)

Waiting(m) == rows[m].status = "pending" \/ (rows[m].status = "failed" /\ rows[m].next # "never")

\* The worker gives a letter up only after max_attempts attempts, through
\* failures, crashes, recoveries and retries; except for a retry that fell
\* between the SELECT and the end of its own delivery, after which the copied
\* count closes the row early (outbound_queue.py:243-248).
GivesUpWhenExhausted ==
    \A m \in Mails : (rows[m].status = "failed" /\ rows[m].next = "never")
                        => rows[m].attempts = MaxAttempts \/ m \in raced

\* A letter recorded as sent stays so and is not sent again, except where the
\* worker was not told that its own record of it was carried out and is about
\* to write a failure over it; a returned or a cancelled letter is not sent
\* again unless the worker already held a copy of its row
\* (outbound_queue.py:160-170, 231-263, mailserver.py:316-320).
FinalIsFinal ==
    [][\A m \in Mails :
          \/ rows[m].status = "sent" /\ ~(m = current /\ stage = "refused")
          \/ rows[m].status \in {"bounced", "cancelled"} /\ m \notin Picked
          => rows'[m].status \in {rows[m].status, "bounced", "deleted"}]_vars

\* From the mark to the outcome nobody takes the row from the worker, so that
\* a retry never starts a second delivery beside the first: only a clear of
\* the table removes it, its own unheard record ends it, or a bounce of an
\* earlier copy whose record was unheard (outbound_queue.py:192-239,
\* processor.py:160-166, mailserver.py:298-304).
InFlightUntouched ==
    stage \in {"deliver", "accepted", "refused"}
        => \/ rows[current].status \in {"sending", "deleted"}
           \/ rows[current].status = "sent" /\ stage = "refused"
           \/ rows[current].status = "bounced" /\ rows[current].message_id

Settled(m) ==
    /\ m # current
    /\ \/ rows[m].status \in {"sent", "bounced", "cancelled", "deleted"}
       \/ rows[m].status = "failed" /\ (rows[m].attempts = MaxAttempts \/ rows[m].next = "never")

\* Every letter is sent, given up, cancelled or removed in the end, whenever
\* the worker dies in the middle of it or is not told what became of an
\* UPDATE (outbound_queue.py:126-148, 231-263).
Settles ==
    \A m \in Mails : rows[m].status \in {"pending", "sending", "failed"} ~> Settled(m)

\* The cleanup leaves alone a letter that still waits for an attempt ("we do
\* not touch the unsent: a letter may wait for its attempt longer than the
\* retention, if the recipient is unreachable for long", processor.py:457-458).
CleanupSparesUnsent ==
    [][CleanupOld => \A m \in Mails : Waiting(m) => rows'[m].status # "deleted"]_vars

----------------------------------------------------------------------------
(* The letters as LetterLife sees them.                                    *)

\* 'failed' covers letters with another attempt ahead and letters without.
Exhausted(row) == row.next = "never" \/ row.attempts = MaxAttempts

PhaseNames == [none |-> "none", pending |-> "waiting", sending |-> "trying", sent |-> "delivered",
               failed |-> "waiting", cancelled |-> "withdrawn", bounced |-> "returned",
               deleted |-> "removed"]

PhaseOf(row) ==
    IF row.status = "failed" /\ Exhausted(row) THEN "given up" ELSE PhaseNames[row.status]

Life == INSTANCE LetterLife WITH
    Letters <- Mails,
    MaxTries <- MaxAttempts,
    phase <- [m \in Mails |-> PhaseOf(rows[m])],
    tries <- [m \in Mails |-> rows[m].attempts],
    claimed <- Picked,
    touched <- raced,
    recorded <- {m \in Mails : rows[m].message_id}

\* Although the worker goes on with copies of rows that everybody else may
\* write meanwhile, dies anywhere, updates rows by their id alone and may not
\* be told of an UPDATE that was carried out, each letter lives the life of
\* LetterLife (outbound_queue.py:126-263, mailserver.py:294-338).
LivesAsPromised == Life!Spec
=============================================================================
