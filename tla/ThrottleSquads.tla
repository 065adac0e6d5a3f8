--------------------------- MODULE ThrottleSquads ---------------------------
(***************************************************************************)
(* The two halves of a soft block (shared/throttle.py over the             *)
(* user_throttles table of shared/db/violations.py): the throttle record   *)
(* in the database and the move of the user to the reserve squad, which is *)
(* undone from the snapshot kept in the record.                            *)
(*                                                                         *)
(* The bot, the web API and the automation run apply and lift in different *)
(* processes on the same user, each a sequence of calls to the panel and   *)
(* to the database that may fail or be cut short.  Records of different    *)
(* users are independent, so one user is modelled.  A squad list is one    *)
(* value; the reserve list is the configured squad alone.                  *)
(***************************************************************************)
CONSTANTS
    Ops,        \* coroutines that apply or lift, in any process
    Homes,      \* squad lists an administrator gives the user
    NoSquads,   \* the empty squad list
    Reserve,    \* the list with nothing but the reserve squad
    NoSnapshot, \* prev_squads is NULL
    Faults      \* whether calls may fail and processes may die

ASSUME SquadsAssumption ==
    /\ Reserve \notin Homes \cup {NoSquads}
    /\ NoSnapshot \notin Homes \cup {NoSquads, Reserve}
ASSUME FaultsAssumption == Faults \in BOOLEAN

VARIABLES
    squads,  \* the user's activeInternalSquads in the panel
    home,    \* the list the user was last given by an administrator
    row,     \* the user's row of user_throttles
    pc,      \* where each coroutine stands
    seen     \* its local prev_squads

vars == <<squads, home, row, pc, seen>>

AllHomes == Homes \cup {NoSquads}
Squads == AllHomes \cup {Reserve}
Snapshots == AllHomes \cup {Reserve, NoSnapshot}

\* until: NULL, ahead, or over and not cleaned up yet.
Rows == [prev : Snapshots, until : {"never", "ahead", "over"}]
NoRow == [prev |-> NoSnapshot, until |-> "none"]

TypeOK ==
    /\ squads \in Squads
    /\ home \in AllHomes
    /\ row \in Rows \cup {NoRow}
    /\ pc \in [Ops -> {"idle", "move", "write", "remove", "restore"}]
    /\ seen \in [Ops -> Snapshots]

Init ==
    /\ squads \in AllHomes
    /\ home = squads
    /\ row = NoRow
    /\ pc = [o \in Ops |-> "idle"]
    /\ seen = [o \in Ops |-> NoSnapshot]

Go(o, label, snapshot) ==
    /\ pc' = [pc EXCEPT ![o] = label]
    /\ seen' = [seen EXCEPT ![o] = snapshot]

----------------------------------------------------------------------------
(* apply_throttle                                                          *)

\* (Mutant: a user who already sits in the reserve squad is moved again.)
ReadSquadsAlways(o) ==
    /\ pc[o] = "idle"
    /\ Go(o, "move", squads)
    /\ UNCHANGED <<squads, home, row>>

\* _current_squads: unreadable, or already the reserve list, means no move.
ReadSquads(o) ==
    /\ pc[o] = "idle"
    /\ \/ squads # Reserve /\ Go(o, "move", squads)
       \/ (squads = Reserve \/ Faults) /\ Go(o, "write", NoSnapshot)
    /\ UNCHANGED <<squads, home, row>>

\* _set_squads([squad]): a call that raises may still have been carried out.
Move(o) ==
    /\ pc[o] = "move"
    /\ \/ squads' = Reserve /\ Go(o, "write", seen[o])
       \/ Faults /\ squads' \in {squads, Reserve} /\ Go(o, "write", NoSnapshot)
    /\ UNCHANGED <<home, row>>

\* (Mutant: the upsert overwrites the snapshot.)
WriteOverwrites(o) ==
    /\ pc[o] = "write"
    /\ \E u \in {"never", "ahead"} : row' = [prev |-> seen[o], until |-> u]
    /\ Go(o, "idle", NoSnapshot)
    /\ UNCHANGED <<squads, home>>

\* (Mutant: the upsert leaves the snapshot of a record that stands as it is.)
WriteFirstOnly(o) ==
    /\ pc[o] = "write"
    /\ \E u \in {"never", "ahead"} :
          row' = [prev |-> IF row = NoRow THEN seen[o] ELSE row.prev, until |-> u]
    /\ Go(o, "idle", NoSnapshot)
    /\ UNCHANGED <<squads, home>>

\* add_user_throttle: an upsert that keeps an earlier snapshot; an empty
\* list is stored as NULL.
Write(o) ==
    LET snapshot == IF row.prev # NoSnapshot THEN row.prev
                    ELSE IF seen[o] = NoSquads THEN NoSnapshot ELSE seen[o]
    IN  /\ pc[o] = "write"
        /\ \/ \E u \in {"never", "ahead"} : row' = [prev |-> snapshot, until |-> u]
           \/ Faults /\ UNCHANGED row
        /\ Go(o, "idle", NoSnapshot)
        /\ UNCHANGED <<squads, home>>

----------------------------------------------------------------------------
(* lift_throttle                                                           *)

\* get_user_throttle: an expired record is not seen, nor is any while the
\* database is away; an error ends the operation.
GetRecord(o) ==
    /\ pc[o] = "idle"
    /\ \/ Go(o, "remove", IF row.until = "over" THEN NoSnapshot ELSE row.prev)
       \/ Faults /\ Go(o, "remove", NoSnapshot)
    /\ UNCHANGED <<squads, home, row>>

\* (Mutant: no snapshot is taken for an empty squad list.)
RemoveRestoresNothing(o) ==
    /\ pc[o] = "remove"
    /\ row' = NoRow
    /\ Go(o, "restore", IF seen[o] = NoSnapshot THEN NoSquads ELSE seen[o])
    /\ UNCHANGED <<squads, home>>

\* remove_user_throttle: whatever record there is by now.  A call that
\* raises may still have been carried out, and counts as nothing removed.
Remove(o) ==
    /\ pc[o] = "remove"
    /\ \/ /\ row' = NoRow
          /\ IF row # NoRow /\ seen[o] # NoSnapshot
             THEN Go(o, "restore", seen[o])
             ELSE Go(o, "idle", NoSnapshot)
       \/ Faults /\ row' \in {row, NoRow} /\ Go(o, "idle", NoSnapshot)
    /\ UNCHANGED <<squads, home>>

\* (Mutant: the snapshot is read back from the record already deleted.)
RestoreFromRow(o) ==
    /\ pc[o] = "restore"
    /\ squads' = row.prev
    /\ Go(o, "idle", NoSnapshot)
    /\ UNCHANGED <<home, row>>

\* _set_squads(prev_squads): a failure is only logged.
Restore(o) ==
    /\ pc[o] = "restore"
    /\ squads' = seen[o] \/ (Faults /\ UNCHANGED squads)
    /\ Go(o, "idle", NoSnapshot)
    /\ UNCHANGED <<home, row>>

----------------------------------------------------------------------------
(* Time, the loop, the administrator, and processes that die.              *)

Expire ==
    /\ row.until = "ahead"
    /\ row' = [row EXCEPT !.until = "over"]
    /\ UNCHANGED <<squads, home, pc, seen>>

\* cleanup_expired_throttles, by the loop of throttle_sync.
Cleanup ==
    /\ row.until = "over"
    /\ row' = NoRow
    /\ UNCHANGED <<squads, home, pc, seen>>

\* The administrator gives a user without a soft block other squads.
Assign ==
    /\ row = NoRow
    /\ \A o \in Ops : pc[o] = "idle"
    /\ \E s \in AllHomes : squads' = s /\ home' = s
    /\ UNCHANGED <<row, pc, seen>>

Die(o) ==
    /\ Faults
    /\ pc[o] # "idle"
    /\ Go(o, "idle", NoSnapshot)
    /\ UNCHANGED <<squads, home, row>>

Next ==
    \/ \E o \in Ops : \/ ReadSquads(o) \/ Move(o) \/ Write(o)
                      \/ GetRecord(o) \/ Remove(o) \/ Restore(o) \/ Die(o)
    \/ Expire \/ Cleanup \/ Assign

Spec == Init /\ [][Next]_vars

----------------------------------------------------------------------------
(* Properties                                                              *)

\* However applies and lifts of several processes interleave, fail or die,
\* every snapshot, stored or about to be stored or restored, is the list the
\* administrator gave, never the reserve squad (throttle.py:92-100).
SnapshotIsHome ==
    /\ row.prev \in {home, NoSnapshot}
    /\ \A o \in Ops : seen[o] \in {home, NoSnapshot}

\* A soft block and its lifting leave the user in the reserve squad or where
\* the administrator put him, nowhere else (throttle.py:114-145).
HomeOrReserve == squads \in {home, Reserve}

\* A second soft block on top of the first does not lose the snapshot
\* (violations.py:2011-2013).
SnapshotKept ==
    [][row.prev # NoSnapshot /\ row' # NoRow => row'.prev = row.prev]_vars

\* A coroutine on its way to store the snapshot, or to restore it.
Carries(o) == pc[o] \in {"write", "restore"} /\ seen[o] # NoSnapshot

\* In the reserve squad, with nothing left that would bring the user back.
Stranded ==
    /\ squads = Reserve /\ home # NoSquads
    /\ row.prev = NoSnapshot
    /\ \A o \in Ops : ~Carries(o)

\* Whatever applies and lifts at once, only three things strand a user: a
\* record that had run out is deleted, a lifting that has seen no snapshot
\* deletes one written since, or a coroutine fails with the snapshot in its
\* hands and writes no record (throttle.py:73-144, violations.py:2013, 2066-2078).
StrandedOnlyByLoss ==
    [][~Stranded /\ Stranded' =>
        \/ /\ row # NoRow /\ row' = NoRow
           /\ \/ row.until = "over"
              \/ \E o \in Ops : pc[o] = "remove" /\ seen[o] = NoSnapshot
        \/ /\ Faults /\ row' \in {row, NoRow}
           /\ \E o \in Ops : seen[o] # NoSnapshot /\ seen'[o] = NoSnapshot]_vars

\* As long as the user sits in the reserve squad there is a snapshot to undo
\* the move from ("without the snapshot there would be nowhere to lift the
\* punishment to: the user would stay in the reserve squad for ever",
\* throttle.py:9-12).
ReserveHasSnapshot ==
    (squads = Reserve /\ home # NoSquads /\ \A o \in Ops : pc[o] = "idle")
        => row.prev # NoSnapshot
=============================================================================
