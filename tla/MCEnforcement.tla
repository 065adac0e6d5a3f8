--------------------------- MODULE MCEnforcement ----------------------------
(* Small instances of Enforcement.  The rules: "warn, then block for a time *)
(* unless something changed", which the engine's comments recommend, and a  *)
(* block for a time at once.                                                *)
EXTENDS Enforcement

WarnThenBlock == <<[act |-> "warn", delayed |-> FALSE, timed |-> FALSE],
                   [act |-> "block", delayed |-> TRUE, timed |-> TRUE]>>
BlockForATime == <<[act |-> "block", delayed |-> FALSE, timed |-> TRUE]>>
Rules == {WarnThenBlock, BlockForATime}
OneRule == {WarnThenBlock}

\* Whoever is not watched may be an accomplice.
Circle == {{}, Users \ Watched}

\* Nothing reads the mirror and the whitelist entry of somebody who is not
\* watched, the verdict on a violator who has been handled, or the score of a
\* violation that is closed: states that differ in them only are one.
RowInView(v) ==
    IF Pending(v) THEN violations[v]
    ELSE [user |-> violations[v].user, action |-> violations[v].action, by |-> violations[v].by]
View == <<pending_violation_users, cooldown, at, remaining, [u \in remaining |-> verdict[u]],
          info \cap remaining, user, vid, targets, blocked, automation, status,
          [u \in Watched |-> mirror[u]], [v \in Recorded |-> RowInView(v)],
          whitelist \cap Watched, resolving, ban, excused, faults, events, moves>>
=============================================================================
