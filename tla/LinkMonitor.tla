----------------------------- MODULE LinkMonitor -----------------------------
(***************************************************************************)
(* What the detector link promises to the rest of the monitor, without the *)
(* Modbus machinery: the one-second clock counts the seconds of silence, a *)
(* valid reply ends the silence and clears the failure, and a failure is   *)
(* declared only after two silent seconds, and then without fail.          *)
(***************************************************************************)
EXTENDS Naturals

CONSTANT SilenceCap        \* silence is counted up to this many (>= 2) seconds

VARIABLES silence,         \* seconds since the last valid reply was used
          failed           \* the link is declared failed

monitorVars == <<silence, failed>>

LongSilence == 2

MonitorInit == silence = 0 /\ failed = FALSE

Second == /\ silence' = IF silence < SilenceCap THEN silence + 1 ELSE silence
          /\ UNCHANGED failed

Answered == silence' = 0 /\ failed' = FALSE

Declare == /\ silence >= LongSilence
           /\ failed' = TRUE
           /\ UNCHANGED silence

MonitorNext == Second \/ Answered \/ Declare

MonitorSpec == /\ MonitorInit
               /\ [][MonitorNext]_monitorVars
               /\ WF_monitorVars(Declare)
=============================================================================
