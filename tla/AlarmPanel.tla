----------------------------- MODULE AlarmPanel -----------------------------
(***************************************************************************)
(* What the area monitor promises its operator, without registers, timers  *)
(* or outputs.  An alarm of a level (1 alarm, 2 over-range, 3 overload) is *)
(* latched.  It rises to the highest level the reading reaches and never   *)
(* sinks to a lower one; it is cleared only when it has been acknowledged  *)
(* (by a press, or after its minute in automatic mode), a reset is given   *)
(* and the reading is below its limit; only a failure of the detector link *)
(* takes it away unacknowledged.  A press counts until an evaluation uses  *)
(* it up or it is taken back, and no evaluation leaves one unheeded.  A    *)
(* high-voltage fault is reported only when nothing else is.               *)
(***************************************************************************)
EXTENDS Naturals

VARIABLES
  status,                  \* "clear", "raised", "acked", "hv", "link"
  level,                   \* of the alarm that stands, 0 without one
  ack, reset,              \* presses that no evaluation has used up
  minute,                  \* the alarm has been unacknowledged for a minute
  auto,                    \* the monitor acknowledges and resets by itself
  over,                    \* the levels whose limit the reading reaches
  down                     \* the detector link has failed

display   == <<status, level>>
presses   == <<ack, reset>>
situation == <<auto, over, down>>
panelVars == <<display, presses, minute, situation>>

PanelInit == /\ status = "clear" /\ level = 0
             /\ ~ack /\ ~reset /\ ~minute /\ ~down

Acknowledged == \/ status = "acked"
                \/ status = "raised" /\ (ack \/ (auto /\ minute))
Released     == Acknowledged /\ (reset \/ auto) /\ level \notin over
NoneHigher   == ~down /\ \A l \in over : l <= level

(* A new alarm, or a higher one.  A press acknowledges it at once, the     *)
(* minute of a lower alarm does not.                                       *)
Rise == /\ ~down
        /\ level' \in over /\ level' > level /\ \A l \in over : l <= level'
        /\ status' = IF ack THEN "acked" ELSE "raised"

Stand == /\ NoneHigher /\ level > 0 /\ ~Released
         /\ status' = IF Acknowledged THEN "acked" ELSE "raised"
         /\ UNCHANGED level

Clear == NoneHigher /\ level > 0 /\ Released /\ status' = "clear" /\ level' = 0

NoAlarm == /\ NoneHigher /\ level = 0 /\ UNCHANGED level
           /\ status' \in IF status = "link" THEN {"clear"} ELSE {"clear", "hv"}

LinkFailure == down /\ status' = "link" /\ level' = 0

Evaluation == /\ ~ack' /\ ~reset'
              /\ Rise \/ Stand \/ Clear \/ NoAlarm \/ LinkFailure
              /\ minute' = (minute /\ UNCHANGED display)
              /\ UNCHANGED situation

(* What happens around the panel changes none of what it shows, and no     *)
(* press but by another one or by taking it back.                          *)
Press == /\ ack' \in BOOLEAN /\ reset' \in BOOLEAN
         /\ UNCHANGED <<display, minute, situation>>
MinutePasses == status = "raised" /\ minute' /\ UNCHANGED <<display, presses, situation>>
SituationChanges == UNCHANGED <<display, presses, minute>>

PanelNext == SituationChanges \/ Press \/ MinutePasses \/ Evaluation

PanelSpec == PanelInit /\ [][PanelNext]_panelVars
=============================================================================
