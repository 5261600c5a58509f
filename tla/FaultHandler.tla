---------------------------- MODULE FaultHandler ----------------------------
(***************************************************************************)
(* Check_Fault_Conditions (Fault_Handler.c): the alarm state machine, the  *)
(* status registers it keeps in both Modbus banks, and the annunciator it  *)
(* drives (lamps, buzzer, relay), with what it races against: the          *)
(* push-button interrupts (HAL_GPIO_EXTI_Callback), the acknowledge and    *)
(* reset registers a PC writes, readings from the detector, changed        *)
(* limits, the failing and healing link, and an export of the SD card,     *)
(* during which the superloop runs nothing else (main.c).                  *)
(*                                                                         *)
(* The three limits and the dose are compared in uR/h after conversion, so *)
(* they are natural numbers here; the limits need not be in any order.     *)
(* tainted and missed are history variables: no action reads them.         *)
(***************************************************************************)
EXTENDS Naturals

CONSTANTS Doses,           \* the dose rates that are read
          LimitChoices,    \* the limits that can be configured
          AgmModes,        \* 0 manual, 1 automatic acknowledgement and reset
          AudioModes,      \* 1: the buzzer sounds
          Voltages,        \* how the HV readings lie to (400, 700)
          PcBlocks,        \* the status registers PC writes cover
          Exports          \* SD card exports occur

Limits    == [alarm : Nat, overrun : Nat, overload : Nat]
StatusRegs == {"Overload", "Overrun", "Alarm", "Hv_Fault", "Dtc_Fault", "ACK", "Reset"}

ASSUME DosesAssumption  == Doses \subseteq Nat /\ 0 \in Doses
ASSUME LimitsAssumption == LimitChoices \subseteq Limits
ASSUME ModesAssumption  == AgmModes \subseteq {0, 1} /\ AudioModes \subseteq {0, 1}
ASSUME VoltagesAssumption == Voltages \subseteq {"in", "out", "neither"}
ASSUME BlocksAssumption == PcBlocks \subseteq SUBSET StatusRegs
ASSUME ExportsAssumption == Exports \in BOOLEAN

VARIABLES
  State_Flag, prevState,
  regs,                    \* the status registers that hold 1, in both banks
  lit,                     \* the outputs that are on
  Ack_Button, Reset_Button,
  ackTimer,                \* last_tick_time_ack: "running", "expired" (60 s)
  hvTimer,                 \* boot_up_time_tick_hv: "unset" (0), "running",
                           \* "expired" (5 s)
  dose,                    \* dose_uRh
  hv,                      \* the HV reading: "in" (400, 700), "out" of it, or
                           \* "neither" (exactly a bound, or FREQ_DTC is set)
  limits, agm_mode, audio_mode,
  silent,                  \* Dtc_Failed_Timeout >= 3
  Dtc_Failed_Status, Prev_Dtc_Failed_Status,
  secondDue,               \* g_1s_flags.current_4_20mA
  loop,                    \* the 4-20 mA output: a "level" or the "fault" current
  read_sd_flag,            \* an SD card export is requested
  exporting,               \* the superloop runs sd_task and nothing else
  tainted,                 \* the status registers that hold what a PC wrote
  missed                   \* successive checks that left a reading unannounced

alarmVars  == <<State_Flag, regs, ackTimer, hvTimer, Prev_Dtc_Failed_Status>>
outVars    == <<prevState, lit>>
buttonVars == <<Ack_Button, Reset_Button>>
readVars   == <<dose, hv>>
confVars   == <<limits, agm_mode, audio_mode>>
linkVars   == <<silent, Dtc_Failed_Status>>
loopVars   == <<secondDue, loop>>
sdVars     == <<read_sd_flag, exporting>>
histVars   == <<tainted, missed>>
vars == <<alarmVars, outVars, buttonVars, readVars, confVars, linkVars, loopVars,
          sdVars, histVars>>

Raised == {"Alarm", "Overrun", "Overload"}
Acked  == {"Ack_Alarm", "Ack_Overrun", "Ack_OverLoad"}
States == Raised \cup Acked \cup {"Normal", "Hv_Fault", "Dtc_Failed"}

AckOf(s) == CASE s = "Alarm"    -> "Ack_Alarm"
              [] s = "Overrun"  -> "Ack_Overrun"
              [] s = "Overload" -> "Ack_OverLoad"
              [] OTHER          -> s

Init ==
  /\ State_Flag = "Normal" /\ prevState = "Normal"
  /\ regs = {"Reset"} /\ lit = {"green", "relay1"}
  /\ Ack_Button = 0 /\ Reset_Button = 0
  /\ ackTimer = "running" /\ hvTimer = "unset"
  /\ dose = 0 /\ hv = "out"
  /\ limits \in LimitChoices /\ agm_mode \in AgmModes /\ audio_mode \in AudioModes
  /\ silent = FALSE /\ Dtc_Failed_Status = FALSE /\ Prev_Dtc_Failed_Status = FALSE
  /\ secondDue = FALSE /\ loop = "level"
  /\ read_sd_flag = FALSE /\ exporting = FALSE
  /\ tainted = {} /\ missed = 0

-----------------------------------------------------------------------------
(* Check_Fault_Conditions is a pipeline over the state flag, the registers *)
(* and the two timers: link (lines 165-208), raise and HV fault (223-275), *)
(* HV recovery (277-283), acknowledge (289-313), reset (316-329).          *)

Machine == [flag |-> State_Flag, regs |-> regs, tainted |-> tainted, ackTimer |-> ackTimer,
            hvTimer |-> IF hvTimer = "unset" THEN "running" ELSE hvTimer]

LinkFailed == Dtc_Failed_Status \/ silent
Radiation  == IF LinkFailed THEN 0 ELSE dose

(* Each group of SET_REGs writes some of the registers and no other, so    *)
(* that what a PC wrote to one lasts until that one is written again.      *)
SetRegs(m, ones, zeros) ==
  [m EXCEPT !.regs = (@ \ zeros) \cup ones, !.tainted = @ \ (ones \cup zeros)]

LinkStep(m) ==
  CASE LinkFailed = Prev_Dtc_Failed_Status -> m
    [] LinkFailed /\ ~Prev_Dtc_Failed_Status ->
         [SetRegs(m, {"Dtc_Fault"}, StatusRegs \ {"Dtc_Fault"}) EXCEPT !.flag = "Dtc_Failed"]
    [] OTHER ->
         [SetRegs(m, {"Reset"}, StatusRegs \ {"Reset"}) EXCEPT !.flag = "Normal",
                                                               !.hvTimer = "running"]

AnnunciateKeepingAck(m, alarm, cleared) ==     \* mutant: an old ACK stays
  [SetRegs(m, {alarm}, cleared \ {"ACK"}) EXCEPT !.flag = alarm, !.ackTimer = "running"]
Annunciate(m, alarm, cleared) ==
  [SetRegs(m, {alarm}, cleared) EXCEPT !.flag = alarm, !.ackTimer = "running"]

OverloadDue(m) == /\ Radiation >= limits.overload
                  /\ m.flag \notin {"Overload", "Ack_OverLoad", "Dtc_Failed"}
OverrunDueUnlessAcked(m) ==              \* mutant: an acknowledged alarm stays
  /\ Radiation >= limits.overrun
  /\ m.flag \notin Acked \cup {"Overrun", "Overload", "Dtc_Failed"}
OverrunDue(m)  == /\ Radiation >= limits.overrun
                  /\ m.flag \notin {"Overrun", "Overload", "Ack_OverLoad", "Ack_Overrun", "Dtc_Failed"}
AlarmDue(m)    == /\ Radiation >= limits.alarm
                  /\ m.flag \notin Raised \cup Acked \cup {"Dtc_Failed"}
HvFaultDue(m)  == hv = "out" /\ m.flag = "Normal" /\ m.hvTimer = "expired"

Raise(m) ==
  IF OverloadDue(m)
    THEN Annunciate(m, "Overload", {"Alarm", "Overrun", "Reset", "ACK", "Hv_Fault"})
  ELSE IF OverrunDue(m)
    THEN Annunciate(m, "Overrun", {"Alarm", "Reset", "ACK", "Hv_Fault"})
  ELSE IF AlarmDue(m)
    THEN Annunciate(m, "Alarm", {"Reset", "Hv_Fault"})
  ELSE IF HvFaultDue(m)
    THEN [SetRegs(m, {"Hv_Fault"}, {"Reset"}) EXCEPT !.flag = "Hv_Fault", !.hvTimer = "unset"]
  ELSE m

HvRecover(m) ==
  IF m.flag = "Hv_Fault" /\ hv = "in"
    THEN [SetRegs(m, {"Reset"}, {"Hv_Fault"}) EXCEPT !.flag = "Normal"]
    ELSE m

AckGivenByHand(m) == Ack_Button = 1      \* mutant: no automatic acknowledgement
AckGiven(m) == Ack_Button = 1 \/ (agm_mode = 1 /\ m.ackTimer = "expired")

Acknowledge(m) ==
  IF m.flag \in Raised /\ AckGiven(m)
    THEN [SetRegs(m, {"ACK"}, {}) EXCEPT !.flag = AckOf(@), !.ackTimer = "running"]
    ELSE m

BelowItsLimitUnacked(flag) ==            \* mutant: clears an alarm nobody acknowledged
  \/ flag \in {"Overload", "Ack_OverLoad"} /\ Radiation < limits.overload
  \/ flag \in {"Alarm", "Ack_Alarm"}       /\ Radiation < limits.alarm
  \/ flag \in {"Overrun", "Ack_Overrun"}   /\ Radiation < limits.overrun
BelowItsLimit(flag) ==
  \/ flag = "Ack_OverLoad" /\ Radiation < limits.overload
  \/ flag = "Ack_Alarm"    /\ Radiation < limits.alarm
  \/ flag = "Ack_Overrun"  /\ Radiation < limits.overrun

ResetToNormal(m) ==
  IF BelowItsLimit(m.flag) /\ (Reset_Button = 1 \/ agm_mode = 1)
    THEN [SetRegs(m, {"Reset"}, {"ACK", "Overload", "Overrun", "Alarm", "Hv_Fault"})
            EXCEPT !.flag = "Normal"]
    ELSE m

Checked == ResetToNormal(Acknowledge(HvRecover(Raise(LinkStep(Machine)))))

(* ProcessSystem: the outputs are set when the state changes, by its       *)
(* handler (lines 394-471).                                                *)
Sounding == IF audio_mode = 1 THEN {"buzzer"} ELSE {}
Handler(flag) ==
  CASE flag \in Raised                   -> {"red"} \cup Sounding
    [] flag \in Acked                    -> {"red"}
    [] flag \in {"Dtc_Failed", "Hv_Fault"} -> {"yellow"}
    [] flag = "Normal"                   -> {"green", "relay1"}

Toggle(lamp, outputs) ==
  IF lamp \in outputs THEN outputs \ {lamp} ELSE outputs \cup {lamp}

(* toggle_buzzer_red_yellow_leds: while an alarm is annunciated the buzzer *)
(* is set again from audio_mode every 500 ms and the red lamp toggles      *)
(* every 200 ms, as the yellow one does in a failure.                      *)
BlinkAny(flag, outputs, due) ==          \* mutant: the red lamp toggles in any state
  IF "red" \in due THEN Toggle("red", outputs) ELSE outputs
Blink(flag, outputs, due) ==
  LET heard == IF flag \in Raised /\ "beep" \in due
                 THEN (outputs \ {"buzzer"}) \cup Sounding ELSE outputs
  IN CASE flag \in Raised /\ "red" \in due -> Toggle("red", heard)
       [] flag \in {"Dtc_Failed", "Hv_Fault"} /\ "yellow" \in due -> Toggle("yellow", heard)
       [] OTHER -> heard
Blinked(flag, outputs) == {Blink(flag, outputs, due) : due \in SUBSET {"beep", "red", "yellow"}}

Level(flag) == CASE flag \in {"Alarm", "Ack_Alarm"}       -> 1
                 [] flag \in {"Overrun", "Ack_Overrun"}   -> 2
                 [] flag \in {"Overload", "Ack_OverLoad"} -> 3
                 [] OTHER -> 0
Demanded == CASE Radiation >= limits.overload -> 3
              [] Radiation < limits.overload /\ Radiation >= limits.overrun -> 2
              [] Radiation < limits.overload /\ Radiation < limits.overrun
                   /\ Radiation >= limits.alarm -> 1
              [] OTHER -> 0

Check ==
  /\ ~exporting
  /\ Ack_Button' = 0 /\ Reset_Button' = 0
  /\ LET m == Checked
     IN /\ State_Flag' = m.flag /\ regs' = m.regs /\ tainted' = m.tainted
        /\ ackTimer' = m.ackTimer /\ hvTimer' = m.hvTimer
  /\ Dtc_Failed_Status' = LinkFailed /\ Prev_Dtc_Failed_Status' = LinkFailed
  /\ prevState' = State_Flag'
  /\ lit' \in Blinked(State_Flag', IF State_Flag' = prevState THEN lit ELSE Handler(State_Flag'))
  /\ missed' = IF ~LinkFailed /\ Demanded > Level(State_Flag')
                 THEN (IF missed < 2 THEN missed + 1 ELSE 2) ELSE 0
  /\ exporting' = read_sd_flag
  /\ UNCHANGED <<readVars, confVars, silent, loopVars, read_sd_flag>>

-----------------------------------------------------------------------------
(* The rest of the superloop: a reading or an acknowledgement from the     *)
(* detector, three polls without one, a changed configuration, commands    *)
(* and block writes of a PC, the 4-20 mA output, the SD card export.       *)

Answer ==
  /\ ~exporting
  /\ silent' = FALSE /\ Dtc_Failed_Status' = FALSE
  /\ UNCHANGED <<alarmVars, outVars, buttonVars, confVars, loopVars, sdVars, histVars>>

Reading(d, h) == Answer /\ dose' = d /\ hv' = h
WriteAnswered == Answer /\ UNCHANGED readVars

ThreePollsUnanswered ==
  /\ ~exporting
  /\ silent' = TRUE
  /\ UNCHANGED <<alarmVars, outVars, buttonVars, readVars, confVars,
                 Dtc_Failed_Status, loopVars, sdVars, histVars>>

Configure(l, mode, audio) ==
  /\ ~exporting
  /\ limits' = l /\ agm_mode' = mode /\ audio_mode' = audio
  /\ UNCHANGED <<alarmVars, outVars, buttonVars, readVars, linkVars, loopVars,
                 sdVars, histVars>>

(* A single write of the ACK or the Reset register sets the button it      *)
(* stands for, and a 0 takes back a press that no check has seen yet.      *)
PcAck(v) ==
  /\ ~exporting
  /\ Ack_Button' = v
  /\ UNCHANGED <<alarmVars, outVars, Reset_Button, readVars, confVars, linkVars,
                 loopVars, sdVars, histVars>>

PcReset(v) ==
  /\ ~exporting
  /\ Reset_Button' = v
  /\ UNCHANGED <<alarmVars, outVars, Ack_Button, readVars, confVars, linkVars,
                 loopVars, sdVars, histVars>>

(* Any other write that covers status registers stores what the PC sent in *)
(* both banks: ones, but ACK and Reset become button presses and are       *)
(* zeroed (check_ack_and_reset_rs485, check_ack_and_reset_tcp).            *)
PcBlockWrite(covered, ones) ==
  /\ ~exporting
  /\ regs' = (regs \ covered) \cup (ones \ {"ACK", "Reset"})
  /\ Ack_Button' = IF "ACK" \notin covered THEN Ack_Button
                   ELSE IF "ACK" \in ones THEN 1 ELSE 0
  /\ Reset_Button' = IF "Reset" \notin covered THEN Reset_Button
                     ELSE IF "Reset" \in ones THEN 1 ELSE 0
  /\ tainted' = tainted \cup covered
  /\ UNCHANGED <<State_Flag, ackTimer, hvTimer, Prev_Dtc_Failed_Status, outVars,
                 readVars, confVars, linkVars, loopVars, sdVars, missed>>

CurrentLoopAlarms ==       \* mutant: the two failures are not shown
  /\ ~exporting
  /\ secondDue
  /\ secondDue' = FALSE
  /\ loop' = IF State_Flag \in Raised THEN "fault" ELSE "level"
  /\ UNCHANGED <<alarmVars, outVars, buttonVars, readVars, confVars, linkVars,
                 sdVars, histVars>>
CurrentLoop ==             \* e4_20mA_task, Set_4to20MA
  /\ ~exporting
  /\ secondDue
  /\ secondDue' = FALSE
  /\ loop' = IF State_Flag # "Normal" THEN "fault" ELSE "level"
  /\ UNCHANGED <<alarmVars, outVars, buttonVars, readVars, confVars, linkVars,
                 sdVars, histVars>>

(* read_sd_flag is set and taken back by the menu and the PCs; the         *)
(* superloop looks at it when the pass is over.                            *)
RequestExport(wanted) ==
  /\ Exports
  /\ ~exporting
  /\ read_sd_flag' = wanted
  /\ UNCHANGED <<alarmVars, outVars, buttonVars, readVars, confVars, linkVars,
                 loopVars, exporting, histVars>>

EndExport ==               \* sd_task has sent the last record, or gives up
  /\ exporting
  /\ read_sd_flag' = FALSE /\ exporting' = FALSE
  /\ UNCHANGED <<alarmVars, outVars, buttonVars, readVars, confVars, linkVars,
                 loopVars, histVars>>

-----------------------------------------------------------------------------
(* Interrupts and the passing of time, which nothing holds up.             *)

PressAckCounted ==         \* mutant: the press is counted
  /\ Ack_Button' = Ack_Button + 1
  /\ UNCHANGED <<alarmVars, outVars, Reset_Button, readVars, confVars, linkVars,
                 loopVars, sdVars, histVars>>
PressAck ==
  /\ Ack_Button' = 1
  /\ UNCHANGED <<alarmVars, outVars, Reset_Button, readVars, confVars, linkVars,
                 loopVars, sdVars, histVars>>

PressReset ==
  /\ Reset_Button' = 1
  /\ UNCHANGED <<alarmVars, outVars, Ack_Button, readVars, confVars, linkVars,
                 loopVars, sdVars, histVars>>

RtcSecond ==
  /\ secondDue' = TRUE
  /\ UNCHANGED <<alarmVars, outVars, buttonVars, readVars, confVars, linkVars,
                 loop, sdVars, histVars>>

AckMinutePasses ==
  /\ ackTimer = "running" /\ ackTimer' = "expired"
  /\ UNCHANGED <<State_Flag, regs, hvTimer, Prev_Dtc_Failed_Status, outVars,
                 buttonVars, readVars, confVars, linkVars, loopVars,
                 sdVars, histVars>>

HvGracePasses ==
  /\ hvTimer = "running" /\ hvTimer' = "expired"
  /\ UNCHANGED <<State_Flag, regs, ackTimer, Prev_Dtc_Failed_Status, outVars,
                 buttonVars, readVars, confVars, linkVars, loopVars,
                 sdVars, histVars>>

-----------------------------------------------------------------------------
Superloop ==
  \/ Check \/ CurrentLoop \/ WriteAnswered \/ ThreePollsUnanswered
  \/ EndExport \/ (\E wanted \in BOOLEAN : RequestExport(wanted))
  \/ \E d \in Doses, h \in Voltages : Reading(d, h)
  \/ \E l \in LimitChoices, m \in AgmModes, a \in AudioModes : Configure(l, m, a)
  \/ \E v \in {0, 1} : PcAck(v) \/ PcReset(v)
  \/ \E covered \in PcBlocks : \E ones \in SUBSET covered : PcBlockWrite(covered, ones)

Interrupt == PressAck \/ PressReset \/ RtcSecond \/ AckMinutePasses \/ HvGracePasses

Next == Superloop \/ Interrupt

Spec == Init /\ [][Next]_vars

(* The superloop turns, the clock ticks, and every SD card export ends.    *)
FairSpec == /\ Spec
            /\ SF_vars(Check) /\ SF_vars(CurrentLoop)
            /\ WF_vars(EndExport)
            /\ WF_vars(RtcSecond) /\ WF_vars(AckMinutePasses) /\ WF_vars(HvGracePasses)

-----------------------------------------------------------------------------
(* Every variable keeps its type: the state flag one of the nine states,   *)
(* the outputs the five the annunciator drives (Fault_Handler.c).          *)
AlarmTypes == /\ State_Flag \in States /\ prevState \in States
              /\ regs \subseteq StatusRegs /\ tainted \subseteq StatusRegs
              /\ ackTimer \in {"running", "expired"}
              /\ hvTimer \in {"unset", "running", "expired"}
OutputTypes == lit \subseteq {"red", "green", "yellow", "buzzer", "relay1"}
InputTypes == /\ Ack_Button \in {0, 1} /\ Reset_Button \in {0, 1}
              /\ dose \in Doses /\ hv \in {"in", "out", "neither"}
              /\ limits \in Limits /\ agm_mode \in {0, 1} /\ audio_mode \in {0, 1}
FlagTypes == /\ silent \in BOOLEAN
             /\ Dtc_Failed_Status \in BOOLEAN /\ Prev_Dtc_Failed_Status \in BOOLEAN
             /\ secondDue \in BOOLEAN /\ read_sd_flag \in BOOLEAN
             /\ exporting \in BOOLEAN
TypeOK == /\ AlarmTypes /\ OutputTypes /\ InputTypes /\ FlagTypes
          /\ loop \in {"level", "fault"} /\ missed \in 0..2

(* The status registers of both banks show the state, and nothing else,    *)
(* whatever path led to it: each of the SET_REG groups writes a different  *)
(* subset of the seven.  A PC may overwrite some of them, and what it      *)
(* wrote to a register lasts until the monitor next writes that register;  *)
(* the others still show the state.                                        *)
Shown(flag) ==
  CASE flag = "Normal"     -> {"Reset"}
    [] flag = "Dtc_Failed" -> {"Dtc_Fault"}
    [] flag = "Hv_Fault"   -> {"Hv_Fault"}
    [] flag \in Raised     -> {flag}
    [] flag = "Ack_Alarm"    -> {"Alarm", "ACK"}
    [] flag = "Ack_Overrun"  -> {"Overrun", "ACK"}
    [] flag = "Ack_OverLoad" -> {"Overload", "ACK"}
RegistersAgree == /\ regs \ tainted = Shown(State_Flag) \ tainted
                  /\ State_Flag = "Dtc_Failed" <=> Prev_Dtc_Failed_Status

(* The outputs belong to the state although a handler runs only when the   *)
(* state changes and the blinker toggles them later: the relay and the     *)
(* green lamp say Normal and nothing else, the buzzer never outlives its   *)
(* alarm, an acknowledged alarm keeps its red lamp (ProcessSystem,         *)
(* toggle_buzzer_red_yellow_leds).                                         *)
OutputsFollowState ==
  /\ prevState = State_Flag
  /\ "relay1" \in lit <=> State_Flag = "Normal"
  /\ "green" \in lit <=> State_Flag = "Normal"
  /\ "buzzer" \in lit => State_Flag \in Raised
  /\ State_Flag \in Acked => lit = {"red"}
  /\ "yellow" \in lit => State_Flag \in {"Dtc_Failed", "Hv_Fault"}

(* A reading that calls for an alarm is announced, at the level it calls   *)
(* for or above, within two checks: the reset of a higher alarm can hide   *)
(* it for one check, never for two, and no order of the three limits       *)
(* breaks this (the else-if chain of lines 223-275).                       *)
AnnouncedWithinOneLoop == missed < 2

(* The latch: the alarms rise, are acknowledged and cleared as AlarmPanel  *)
(* says, whatever the order of presses, readings, limits and failures; an  *)
(* alarm never sinks to a lower one, is never cleared unacknowledged, and  *)
(* no press is lost but by a PC that takes it back.                        *)
StatusOf(flag) == CASE flag \in Raised       -> "raised"
                    [] flag \in Acked        -> "acked"
                    [] flag = "Hv_Fault"     -> "hv"
                    [] flag = "Dtc_Failed"   -> "link"
                    [] flag = "Normal"       -> "clear"
LimitOf(l) == CASE l = 1 -> limits.alarm [] l = 2 -> limits.overrun [] l = 3 -> limits.overload
Panel == INSTANCE AlarmPanel
           WITH status <- StatusOf(State_Flag), level <- Level(State_Flag),
                ack <- Ack_Button = 1, reset <- Reset_Button = 1,
                minute <- State_Flag \in Raised /\ ackTimer = "expired",
                auto <- agm_mode = 1, down <- LinkFailed,
                over <- {l \in 1..3 : Radiation >= LimitOf(l)}
AlarmsAreLatched == Panel!PanelSpec

(* In automatic mode nobody is needed: once the readings stay good the     *)
(* monitor returns to Normal (the 60 s acknowledgement, the reset).        *)
AllIsWell == /\ agm_mode = 1 /\ hv = "in" /\ ~silent /\ ~Dtc_Failed_Status
             /\ dose < limits.alarm /\ dose < limits.overrun /\ dose < limits.overload
AutoRecovers == <>[]AllIsWell => <>[](State_Flag = "Normal")

(* A lasting fault reaches the 4-20 mA output (Set_4to20MA), even when the *)
(* SD card is exported over and over.                                      *)
LoopShowsFault == <>[](State_Flag # "Normal") => <>[](loop = "fault")

(* What the proofs of the two need to know of ENABLED, which is beyond the *)
(* proof system: in these states the fair action can be taken and changes  *)
(* a variable (an evaluation that leaves an alarm standing can toggle its  *)
(* lamp).  An invariant of Spec.                                           *)
WhenEnabled ==
  /\ ~exporting /\ secondDue => ENABLED <<CurrentLoop>>_vars
  /\ ~secondDue => ENABLED <<RtcSecond>>_vars
  /\ exporting => ENABLED <<EndExport>>_vars
  /\ ackTimer = "running" => ENABLED <<AckMinutePasses>>_vars
  /\ AllIsWell /\ ~exporting /\ State_Flag # "Normal" => ENABLED <<Check>>_vars
=============================================================================
