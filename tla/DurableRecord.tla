--------------------------- MODULE DurableRecord ---------------------------
(***************************************************************************)
(* What the sessions rely on of a small file that is only ever replaced or *)
(* removed as a whole: the credential, the profile, the leave journal.  An *)
(* operation takes effect at once or not at all, also one that fails; a    *)
(* store that succeeds survives a power loss, and what was only attempted  *)
(* may or may not.                                                         *)
(***************************************************************************)
CONSTANTS Value, Absent, Idle

VARIABLES value,   \* what a load finds
          stable,  \* what it may find after a power loss
          op,      \* the operation under way: a value to store, Absent, or Idle
          reply    \* what the last operation returned

vars == <<value, stable, op, reply>>

Init == value = Absent /\ stable = {Absent} /\ op = Idle /\ reply = "none"

Begin(v) == op = Idle /\ op' = v /\ reply' = "none" /\ UNCHANGED <<value, stable>>

Effect ==
  /\ op # Idle
  /\ value' = op /\ stable' = stable \cup {op}
  /\ UNCHANGED <<op, reply>>

Stored ==
  /\ op # Idle /\ value = op
  /\ op' = Idle /\ stable' = {value} /\ reply' = "ok"
  /\ UNCHANGED value

\* A removal of what is not there promises nothing more.
AlreadyGone ==
  /\ op = Absent /\ value = Absent
  /\ op' = Idle /\ reply' = "ok"
  /\ UNCHANGED <<value, stable>>

Failed == op # Idle /\ op' = Idle /\ reply' = "failed" /\ UNCHANGED <<value, stable>>

Crash == op' = Idle /\ reply' = "none" /\ UNCHANGED <<value, stable>>

PowerLoss ==
  /\ \E v \in stable : value' = v /\ stable' = {v}
  /\ op' = Idle /\ reply' = "none"

Next ==
  \/ \E v \in Value \cup {Absent} : Begin(v)
  \/ Effect \/ Stored \/ AlreadyGone \/ Failed \/ Crash \/ PowerLoss

Spec == Init /\ [][Next]_vars
=============================================================================
