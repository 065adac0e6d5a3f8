------------------------ MODULE ThrottleSquadsProofs ------------------------
(***************************************************************************)
(* Proofs about ThrottleSquads for any number of coroutines and any squad  *)
(* lists, with or without faults.                                          *)
(***************************************************************************)
EXTENDS ThrottleSquads, TLAPS

\* What the properties rest on: a coroutine keeps no snapshot between
\* operations, and goes to restore only with one.
LocalSnapshot ==
    \A o \in Ops : /\ pc[o] = "idle" => seen[o] = NoSnapshot
                   /\ pc[o] = "restore" => seen[o] # NoSnapshot

Inv == TypeOK /\ LocalSnapshot /\ SnapshotIsHome /\ HomeOrReserve

\* Init establishes the invariant.
LEMMA InitInv == Init => Inv
<1> SUFFICES ASSUME Init PROVE Inv
    OBVIOUS
<1>1. TypeOK
    BY DEF Init, TypeOK, AllHomes, Squads, Snapshots
<1>2. LocalSnapshot /\ SnapshotIsHome /\ HomeOrReserve
    BY DEF Init, LocalSnapshot, SnapshotIsHome, HomeOrReserve, NoRow
<1> QED
    BY <1>1, <1>2 DEF Inv

\* A step of a coroutine that takes a snapshot along keeps the parts of the
\* invariant that speak of local snapshots.
LEMMA GoKeeps ==
    ASSUME Inv, NEW o \in Ops,
           NEW label \in {"idle", "move", "write", "remove", "restore"},
           NEW snapshot \in Snapshots, Go(o, label, snapshot),
           snapshot \in {home, NoSnapshot},
           label = "idle" => snapshot = NoSnapshot,
           label = "restore" => snapshot # NoSnapshot
    PROVE  /\ pc' \in [Ops -> {"idle", "move", "write", "remove", "restore"}]
           /\ seen' \in [Ops -> Snapshots]
           /\ \A p \in Ops : seen'[p] \in {home, NoSnapshot}
           /\ LocalSnapshot'
<1>1. /\ pc' \in [Ops -> {"idle", "move", "write", "remove", "restore"}]
      /\ seen' \in [Ops -> Snapshots]
    BY DEF Inv, TypeOK, Go
<1>2. \A p \in Ops : seen'[p] \in {home, NoSnapshot}
    BY DEF Inv, TypeOK, SnapshotIsHome, Go
<1>3. LocalSnapshot'
    BY DEF Inv, TypeOK, LocalSnapshot, Go
<1> QED
    BY <1>1, <1>2, <1>3

\* Every step keeps the invariant.
LEMMA NextInv == Inv /\ [Next]_vars => Inv'
<1> SUFFICES ASSUME Inv, [Next]_vars PROVE Inv'
    OBVIOUS
<1> USE SquadsAssumption DEF Inv
<1>1. ASSUME NEW o \in Ops, ReadSquads(o) PROVE Inv'
    <2>1. CASE squads # Reserve /\ Go(o, "move", squads)
        <3>1. squads \in {home, NoSnapshot} /\ squads \in Snapshots
            BY <2>1 DEF HomeOrReserve, TypeOK, Squads, Snapshots, AllHomes
        <3> QED
            BY <1>1, <2>1, <3>1, GoKeeps
            DEF ReadSquads, TypeOK, SnapshotIsHome, HomeOrReserve
    <2>2. CASE Go(o, "write", NoSnapshot)
        BY <1>1, <2>2, GoKeeps
        DEF ReadSquads, TypeOK, SnapshotIsHome, HomeOrReserve, Snapshots
    <2> QED
        BY <1>1, <2>1, <2>2 DEF ReadSquads
<1>2. ASSUME NEW o \in Ops, Move(o) PROVE Inv'
    <2>1. squads' \in {squads, Reserve} /\ UNCHANGED <<home, row>>
        BY <1>2 DEF Move
    <2>2. TypeOK!1' /\ TypeOK!2' /\ TypeOK!3' /\ HomeOrReserve'
        BY <2>1 DEF TypeOK, HomeOrReserve, Squads, AllHomes
    <2>3. \E s \in {seen[o], NoSnapshot} : Go(o, "write", s)
        BY <1>2 DEF Move
    <2>4. PICK s \in {seen[o], NoSnapshot} : Go(o, "write", s)
        BY <2>3
    <2>5. s \in {home, NoSnapshot} /\ s \in Snapshots
        BY <2>4 DEF SnapshotIsHome, TypeOK, Snapshots
    <2> QED
        BY <2>1, <2>2, <2>4, <2>5, GoKeeps DEF TypeOK, SnapshotIsHome
<1>3. ASSUME NEW o \in Ops, Write(o) PROVE Inv'
    <2>1. Go(o, "idle", NoSnapshot) /\ UNCHANGED <<squads, home>>
        BY <1>3 DEF Write
    <2>2. row' \in Rows \cup {NoRow} /\ row'.prev \in {home, NoSnapshot}
        BY <1>3 DEF Write, TypeOK, SnapshotIsHome, Rows, NoRow, Snapshots
    <2> QED
        BY <2>1, <2>2, GoKeeps
        DEF TypeOK, SnapshotIsHome, HomeOrReserve, Snapshots
<1>4. ASSUME NEW o \in Ops, GetRecord(o) PROVE Inv'
    <2> DEFINE s == IF row.until = "over" THEN NoSnapshot ELSE row.prev
    <2>1. s \in {home, NoSnapshot} /\ s \in Snapshots
        BY DEF SnapshotIsHome, TypeOK, Snapshots, AllHomes
    <2>2. /\ Go(o, "remove", s) \/ Go(o, "remove", NoSnapshot)
          /\ UNCHANGED <<squads, home, row>>
        BY <1>4 DEF GetRecord
    <2> HIDE DEF s
    <2>3. CASE Go(o, "remove", s)
        BY <2>1, <2>2, <2>3, GoKeeps DEF TypeOK, SnapshotIsHome, HomeOrReserve
    <2>4. CASE Go(o, "remove", NoSnapshot)
        BY <2>2, <2>4, GoKeeps DEF TypeOK, SnapshotIsHome, HomeOrReserve, Snapshots
    <2> QED
        BY <2>2, <2>3, <2>4
<1>5. ASSUME NEW o \in Ops, Remove(o) PROVE Inv'
    <2>1. row' \in {row, NoRow} /\ UNCHANGED <<squads, home>>
        BY <1>5 DEF Remove
    <2>2. TypeOK!1' /\ TypeOK!2' /\ TypeOK!3' /\ HomeOrReserve'
        BY <2>1 DEF TypeOK, HomeOrReserve
    <2>3. row'.prev \in {home, NoSnapshot}
        BY <2>1 DEF SnapshotIsHome, NoRow
    <2>4. CASE Go(o, "restore", seen[o]) /\ seen[o] # NoSnapshot
        <3>1. seen[o] \in {home, NoSnapshot} /\ seen[o] \in Snapshots
            BY DEF SnapshotIsHome, TypeOK
        <3> QED
            BY <2>1, <2>2, <2>3, <2>4, <3>1, GoKeeps DEF TypeOK, SnapshotIsHome
    <2>5. CASE Go(o, "idle", NoSnapshot)
        BY <2>1, <2>2, <2>3, <2>5, GoKeeps DEF TypeOK, SnapshotIsHome, Snapshots
    <2> QED
        BY <1>5, <2>4, <2>5 DEF Remove
<1>6. ASSUME NEW o \in Ops, Restore(o) PROVE Inv'
    <2>1. seen[o] = home
        BY <1>6 DEF Restore, LocalSnapshot, SnapshotIsHome
    <2>2. squads' \in {squads, home} /\ UNCHANGED <<home, row>>
        BY <1>6, <2>1 DEF Restore
    <2> QED
        BY <1>6, <2>2, GoKeeps
        DEF Restore, TypeOK, SnapshotIsHome, HomeOrReserve, Snapshots, Squads
<1>7. ASSUME NEW o \in Ops, Die(o) PROVE Inv'
    BY <1>7, GoKeeps DEF Die, TypeOK, SnapshotIsHome, HomeOrReserve, Snapshots
<1>8. CASE Expire \/ Cleanup
    <2>1. row' \in Rows \cup {NoRow} /\ row'.prev \in {row.prev, NoSnapshot}
        BY <1>8 DEF Expire, Cleanup, TypeOK, Rows, NoRow
    <2> QED
        BY <1>8, <2>1
        DEF Expire, Cleanup, TypeOK, SnapshotIsHome, HomeOrReserve, LocalSnapshot
<1>9. CASE Assign
    BY <1>9 DEF Assign, TypeOK, SnapshotIsHome, HomeOrReserve, LocalSnapshot, Squads, NoRow
<1>10. CASE UNCHANGED vars
    BY <1>10 DEF vars, TypeOK, SnapshotIsHome, HomeOrReserve, LocalSnapshot
<1> QED
    BY <1>1, <1>2, <1>3, <1>4, <1>5, <1>6, <1>7, <1>8, <1>9, <1>10 DEF Next

\* The invariant always holds.
LEMMA SpecInv == Spec => []Inv
<1> QED
    BY InitInv, NextInv, PTL DEF Spec

\* The squad lists, the record and the coroutines stay in their types.
THEOREM TypeCorrect == Spec => []TypeOK
<1>1. Inv => TypeOK
    BY DEF Inv
<1> QED
    BY <1>1, SpecInv, PTL

\* However many processes apply and lift at once, every snapshot is the list
\* the administrator gave (throttle.py:92-100).
THEOREM SnapshotSafe == Spec => []SnapshotIsHome
<1>1. Inv => SnapshotIsHome
    BY DEF Inv
<1> QED
    BY <1>1, SpecInv, PTL

\* The user sits where the administrator put him or in the reserve squad
\* (throttle.py:114-145).
THEOREM SquadsSafe == Spec => []HomeOrReserve
<1>1. Inv => HomeOrReserve
    BY DEF Inv
<1> QED
    BY <1>1, SpecInv, PTL

\* A stored snapshot is never replaced while its record stands
\* (violations.py:2011-2013).
THEOREM SnapshotStays == Spec => SnapshotKept
<1> DEFINE Kept == row.prev # NoSnapshot /\ row' # NoRow => row'.prev = row.prev
<1>1. Inv /\ [Next]_vars => [Kept]_vars
    <2> SUFFICES ASSUME Inv, Next PROVE Kept
        BY DEF vars
    <2>1. ASSUME NEW o \in Ops, Write(o) PROVE Kept
        BY <2>1 DEF Write
    <2>2. ASSUME NEW o \in Ops, Remove(o) PROVE Kept
        BY <2>2 DEF Remove
    <2>3. CASE Expire
        BY <2>3 DEF Expire, Inv, TypeOK, Rows, NoRow
    <2>4. CASE Cleanup
        BY <2>4 DEF Cleanup
    <2>5. CASE UNCHANGED row
        BY <2>5
    <2> QED
        BY <2>1, <2>2, <2>3, <2>4, <2>5
        DEF Next, ReadSquads, Move, GetRecord, Restore, Die, Assign
<1> QED
    BY <1>1, SpecInv, PTL DEF Spec, SnapshotKept

----------------------------------------------------------------------------
(* What strands a user.                                                    *)

\* A coroutine moves the user only with the list it has read.
MovesWithSnapshot == \A o \in Ops : pc[o] = "move" => seen[o] # NoSnapshot

LossInv == Inv /\ MovesWithSnapshot

\* Every step keeps that.
LEMMA NextLossInv == LossInv /\ [Next]_vars => LossInv'
<1> SUFFICES ASSUME LossInv, [Next]_vars PROVE MovesWithSnapshot'
    BY NextInv DEF LossInv
<1> USE DEF LossInv, MovesWithSnapshot
<1>1. ASSUME NEW o \in Ops, NEW label, NEW snapshot, Go(o, label, snapshot),
             label = "move" => snapshot # NoSnapshot
      PROVE  MovesWithSnapshot'
    BY <1>1 DEF Go, Inv, TypeOK
<1>2. ASSUME NEW o \in Ops, ReadSquads(o) PROVE MovesWithSnapshot'
    <2>1. squads # NoSnapshot
        BY SquadsAssumption DEF Inv, TypeOK, Squads, AllHomes
    <2> QED
        BY <1>1, <1>2, <2>1 DEF ReadSquads
<1>3. ASSUME NEW o \in Ops,
             Move(o) \/ Write(o) \/ GetRecord(o) \/ Remove(o) \/ Restore(o) \/ Die(o)
      PROVE  MovesWithSnapshot'
    BY <1>1, <1>3 DEF Move, Write, GetRecord, Remove, Restore, Die
<1>4. CASE Expire \/ Cleanup \/ Assign \/ UNCHANGED vars
    BY <1>4 DEF Expire, Cleanup, Assign, vars
<1> QED
    BY <1>2, <1>3, <1>4 DEF Next

\* The coroutines that do not step carry what they carried.
LEMMA OthersCarry ==
    ASSUME TypeOK, NEW o \in Ops, NEW label, NEW snapshot, Go(o, label, snapshot)
    PROVE  /\ \A p \in Ops \ {o} : Carries(p)' = Carries(p)
           /\ Carries(o)' = (label \in {"write", "restore"} /\ snapshot # NoSnapshot)
           /\ seen'[o] = snapshot
BY DEF TypeOK, Go, Carries

\* The three ways to strand a user.
Loss ==
    \/ /\ row # NoRow /\ row' = NoRow
       /\ \/ row.until = "over"
          \/ \E o \in Ops : pc[o] = "remove" /\ seen[o] = NoSnapshot
    \/ /\ Faults /\ row' \in {row, NoRow}
       /\ \E o \in Ops : seen[o] # NoSnapshot /\ seen'[o] = NoSnapshot

\* A soft block strands nobody but by a failure: what it moves it can undo.
LEMMA ApplyStrands ==
    ASSUME LossInv, NEW o \in Ops, ReadSquads(o) \/ Move(o) \/ Write(o), Stranded'
    PROVE  Stranded \/ Loss
<1> USE DEF LossInv, Inv
<1>1. CASE ReadSquads(o)
    <2>1. PICK label \in {"move", "write"}, snapshot \in {squads, NoSnapshot} :
              Go(o, label, snapshot)
        BY <1>1 DEF ReadSquads
    <2>2. pc[o] = "idle" /\ UNCHANGED <<squads, home, row>>
        BY <1>1 DEF ReadSquads
    <2>3. ~Carries(o)
        BY <2>2 DEF Carries
    <2>4. \A p \in Ops : ~Carries(p)
        BY <2>1, <2>3, OthersCarry DEF Stranded
    <2> QED
        BY <2>2, <2>4 DEF Stranded
<1>2. CASE Move(o)
    <2>1. seen[o] # NoSnapshot
        BY <1>2 DEF Move, MovesWithSnapshot
    <2>2. CASE Go(o, "write", seen[o])
        <3>1. Carries(o)'
            BY <2>1, <2>2, OthersCarry
        <3> QED
            BY <3>1 DEF Stranded
    <2>3. CASE Faults /\ Go(o, "write", NoSnapshot)
        <3>1. seen'[o] = NoSnapshot
            BY <2>3, OthersCarry
        <3> QED
            BY <1>2, <2>1, <2>3, <3>1 DEF Loss, Move
    <2> QED
        BY <1>2, <2>2, <2>3 DEF Move
<1>3. CASE Write(o)
    <2>1. pc[o] = "write" /\ Go(o, "idle", NoSnapshot) /\ UNCHANGED <<squads, home>>
        BY <1>3 DEF Write
    <2>2. \A p \in Ops \ {o} : ~Carries(p)
        BY <2>1, OthersCarry DEF Stranded
    <2>3. CASE seen[o] = NoSnapshot
        <3>1. row.prev = NoSnapshot
            BY <1>3, <2>3 DEF Write, Stranded
        <3>2. ~Carries(o)
            BY <2>3 DEF Carries
        <3> QED
            BY <2>1, <2>2, <3>1, <3>2 DEF Stranded
    <2>4. CASE seen[o] # NoSnapshot
        <3>1. seen[o] # NoSquads
            BY <2>1, <2>4 DEF SnapshotIsHome, Stranded
        <3>2. Faults /\ row' = row
            BY <1>3, <2>4, <3>1 DEF Write, Stranded
        <3>3. seen'[o] = NoSnapshot
            BY <2>1, OthersCarry
        <3> QED
            BY <2>4, <3>2, <3>3 DEF Loss
    <2> QED
        BY <2>3, <2>4
<1> QED
    BY <1>1, <1>2, <1>3

\* A lifting strands nobody but blindly or by a failure.
LEMMA LiftStrands ==
    ASSUME LossInv, NEW o \in Ops, GetRecord(o) \/ Remove(o) \/ Restore(o) \/ Die(o), Stranded'
    PROVE  Stranded \/ Loss
<1> USE DEF LossInv, Inv
<1>1. CASE GetRecord(o)
    <2>1. PICK snapshot : Go(o, "remove", snapshot)
        BY <1>1 DEF GetRecord
    <2>2. pc[o] = "idle" /\ UNCHANGED <<squads, home, row>>
        BY <1>1 DEF GetRecord
    <2>3. ~Carries(o)
        BY <2>2 DEF Carries
    <2>4. \A p \in Ops : ~Carries(p)
        BY <2>1, <2>3, OthersCarry DEF Stranded
    <2> QED
        BY <2>2, <2>4 DEF Stranded
<1>2. CASE Remove(o)
    <2>1. pc[o] = "remove" /\ row' \in {row, NoRow} /\ UNCHANGED <<squads, home>>
        BY <1>2 DEF Remove
    <2>2. ~Carries(o)
        BY <2>1 DEF Carries
    <2>3. \A p \in Ops \ {o} : ~Carries(p)
        BY <1>2, OthersCarry DEF Remove, Stranded
    <2>4. CASE row' = row
        BY <2>1, <2>2, <2>3, <2>4 DEF Stranded
    <2>5. CASE row # NoRow /\ row' = NoRow /\ seen[o] = NoSnapshot
        BY <2>1, <2>5 DEF Loss
    <2>6. CASE row # NoRow /\ row' = NoRow /\ seen[o] # NoSnapshot
        <3>1. CASE Go(o, "restore", seen[o])
            BY <2>6, <3>1, OthersCarry DEF Stranded
        <3>2. CASE Faults /\ Go(o, "idle", NoSnapshot)
            <4>1. seen'[o] = NoSnapshot
                BY <3>2, OthersCarry
            <4> QED
                BY <2>6, <3>2, <4>1 DEF Loss
        <3> QED
            BY <1>2, <2>6, <3>1, <3>2 DEF Remove
    <2> QED
        BY <2>1, <2>4, <2>5, <2>6
<1>3. CASE Restore(o)
    <2>1. seen[o] = home /\ seen[o] # NoSnapshot
        BY <1>3 DEF Restore, LocalSnapshot, SnapshotIsHome
    <2>2. squads' # home
        BY <1>3, SquadsAssumption DEF Restore, Stranded, TypeOK, AllHomes
    <2>3. Faults
        BY <1>3, <2>1, <2>2 DEF Restore
    <2>4. seen'[o] = NoSnapshot
        BY <1>3, OthersCarry DEF Restore
    <2> QED
        BY <1>3, <2>1, <2>3, <2>4 DEF Loss, Restore
<1>4. CASE Die(o)
    <2>1. Faults /\ Go(o, "idle", NoSnapshot) /\ UNCHANGED <<squads, home, row>>
        BY <1>4 DEF Die
    <2>2. seen'[o] = NoSnapshot /\ \A p \in Ops \ {o} : ~Carries(p)
        BY <2>1, OthersCarry DEF Stranded
    <2>3. CASE seen[o] # NoSnapshot
        BY <2>1, <2>2, <2>3 DEF Loss
    <2>4. CASE seen[o] = NoSnapshot
        BY <2>1, <2>2, <2>4 DEF Stranded, Carries
    <2> QED
        BY <2>3, <2>4
<1> QED
    BY <1>1, <1>2, <1>3, <1>4

\* A user is left in the reserve squad for good only by a record that had run
\* out, by a lifting that saw no snapshot, or by a failure, however many
\* coroutines apply and lift at once (throttle.py:73-144, violations.py:2013).
THEOREM StrandedByLoss == Spec => StrandedOnlyByLoss
<1>1. Init => LossInv
    BY InitInv DEF LossInv, MovesWithSnapshot, Init
<1>2. LossInv /\ [Next]_vars => [~Stranded /\ Stranded' => Loss]_vars
    <2> SUFFICES ASSUME LossInv, Next, ~Stranded, Stranded' PROVE Loss
        BY DEF vars
    <2>1. ~Expire
        BY DEF Expire, Stranded, Carries, LossInv, Inv, TypeOK, Rows, NoRow
    <2>2. CASE Cleanup
        BY <2>2 DEF Cleanup, Loss, NoRow
    <2>3. ~Assign
        BY SquadsAssumption DEF Assign, Stranded, AllHomes
    <2> QED
        BY <2>1, <2>2, <2>3, ApplyStrands, LiftStrands DEF Next
<1>3. StrandedOnlyByLoss <=> [][~Stranded /\ Stranded' => Loss]_vars
    BY DEF StrandedOnlyByLoss, Loss
<1> QED
    BY <1>1, <1>2, <1>3, NextLossInv, PTL DEF Spec
=============================================================================
