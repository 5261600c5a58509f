---------------------------- MODULE DetectorConfig ----------------------------
(***************************************************************************)
(* The configuration of the radiation detector: its high voltage, its      *)
(* frequency switch and its calibration factors.  Three writers queue one  *)
(* write each in the same flags and the same staging bank: the keypad menu *)
(* (calib_factors_hv_write, Lcd.c) and the PCs (is_reconfigure_hv_rs485    *)
(* and is_reconfigure_hv_tcp, modbus.c); the relay of the high voltage     *)
(* takes over the flags too.  The Modbus master sends the write, an        *)
(* acknowledgement or a time-out ends it (Detector_Modbus.c), and a read   *)
(* brings the registers of the detector into the banks the writers start   *)
(* from.  The interrupts of the link are in DetectorLink; here a step is a *)
(* call that no other code interrupts.                                     *)
(*                                                                         *)
(* A value entered is the number of its step, so values from different     *)
(* entries differ; the frequency switch is 0 or 1.  The high voltage is    *)
(* one register here (two in the code) and there are two calibration       *)
(* factors of the four.  edits counts the steps of the writers; want and   *)
(* astray are history and no action reads them.                            *)
(***************************************************************************)
EXTENDS Naturals

CONSTANTS Links,           \* the PC links that write
          PcRanges,        \* the sets of these registers a PC writes at once
          MaxEdits         \* bound on the steps of the writers

Calib == {"C1", "C2"}
Staged == {"HV"} \cup Calib
Regs  == Staged \cup {"FREQ"}

ASSUME LinksAssumption  == Links \subseteq {"rs485", "tcp"}
ASSUME RangesAssumption == PcRanges \subseteq SUBSET Regs
ASSUME EditsAssumption  == MaxEdits \in Nat

VARIABLES
  reg,                     \* the registers of the detector
  req, reply,              \* the request it has not served, the last reply
  live,                    \* Modbus_Registers and its copy for TCP
  freq_dtc_mode,           \* what the menu takes for the frequency switch
  temps,                   \* temp_hv_write, temp_freq_dtc_mode, factor_values
  entered,                 \* what was entered in the menu since temps was loaded
  staged,                  \* Modbus_Registers_Detector_Write; FREQ is always 0
  dtc_freq_switch_val, Modbus_State_DTC,
  queued,                  \* modbus_write_flag with the flag it selects
  edits, want, astray

detVars   == <<reg, req>>
queueVars == <<staged, dtc_freq_switch_val, queued>>
menuVars  == <<freq_dtc_mode, temps, entered>>
vars      == <<detVars, reply, live, menuVars, queueVars, Modbus_State_DTC,
               edits, want, astray>>

-----------------------------------------------------------------------------
Own    == MaxEdits + 1     \* what the detector holds at the start
Values == 0..Own
Blank  == [r \in Staged |-> 0]

Ranges == {"HV_WRITE", "CALIB_WRITE", "HV_AND_CALIB", "HV_AND_FREQ", "ALL_CONFIG"}

(* The registers a block write carries (addresses 4-5, 8 and 9-12).        *)
Block(f) ==
  CASE f = "HV_WRITE"    -> {"HV"}
    [] f = "CALIB_WRITE" -> Calib
    [] f = "HV_AND_FREQ" -> {"HV", "FREQ"}
    [] OTHER             -> Regs       \* 4..12, also for MULTIPLE_WRITE_DONE

BlockFor(S) ==
  CASE S = {"HV"}           -> "HV_WRITE"
    [] S \subseteq Calib    -> "CALIB_WRITE"
    [] S = {"HV", "FREQ"}   -> "HV_AND_FREQ"
    [] "HV" \in S /\ "FREQ" \notin S /\ S # {"HV"} -> "HV_AND_CALIB"
    [] OTHER                -> "ALL_CONFIG"

NoVals == [r \in {} |-> 0]
None == [kind |-> "NONE", vals |-> NoVals, cur |-> FALSE]
Aged(f) == [f EXCEPT !.cur = FALSE]

(* What is queued, as the registers it carries and the values it sends.    *)
CarriedBy(q) ==
  CASE q = "FREQ_SWITCH"             -> {"FREQ"}
    [] q \in {"POLLING", "HV_SWITCH"} -> {}
    [] OTHER                         -> Block(q)
Carried == CarriedBy(queued)

Sent ==                    \* detector_write_multiple_registers sends staged
  [r \in Carried |-> IF r \in Staged THEN staged[r]
                    ELSE IF queued = "FREQ_SWITCH" THEN dtc_freq_switch_val ELSE 0]

Loaded(bank, mode) == [bank EXCEPT !.HV = 0, !.FREQ = mode]

Init ==
  /\ \E f \in {0, 1} : reg = [r \in Regs |-> IF r = "FREQ" THEN f ELSE Own]
  /\ req = None /\ reply = None
  /\ live = [r \in Regs |-> 0]
  /\ freq_dtc_mode = 0 /\ temps = live /\ entered = {}
  /\ staged = Blank /\ dtc_freq_switch_val = 0
  /\ queued = "POLLING"
  /\ Modbus_State_DTC = "IDLE"
  /\ edits = 0 /\ want = reg /\ astray = {}

-----------------------------------------------------------------------------
(* Queueing a write of the registers in S with the values w (the end of    *)
(* is_reconfigure_hv_rs485, is_reconfigure_hv_tcp, calib_factors_hv_write).*)

StageAsked(S, w) ==        \* mutant: only the factors that were written
  staged' = [r \in Staged |-> IF r \in S THEN w[r] ELSE staged[r]]
Stage(S, w) ==
  staged' = [r \in Staged |->
               IF r \in S \/ (r \in Calib /\ S \cap Calib # {}) THEN w[r]
               ELSE staged[r]]

SetSwitch(S, w, mode) ==
  dtc_freq_switch_val' =
    CASE "FREQ" \in S -> w.FREQ
      [] "FREQ" \notin S /\ "HV" \in S /\ S \cap Calib # {} -> mode
      [] OTHER -> dtc_freq_switch_val

SetFlags(S) ==
  queued' = CASE S = {}       -> queued
              [] S = {"FREQ"} -> "FREQ_SWITCH"
              [] OTHER        -> BlockFor(S)

(* History: the registers in asked are wanted to have the values w; those  *)
(* in S are written.  A register goes astray when                          *)
(*   - it was queued and no longer is: the write is overwritten;           *)
(*   - the menu takes it for unchanged, and it is not written;             *)
(*   - the factor beside the one asked for is stale where it is copied;    *)
(*   - the block spans the frequency switch, which is staged as 0;         *)
(*   - the block spans the high voltage, which nobody staged with it.      *)
Overwritten(S) == IF S = {} THEN {} ELSE Carried \ CarriedBy(queued')
TakenForUnchanged(S, asked, w) == {r \in asked \ S : w[r] # want[r]}
StaleBeside(S, asked, w) ==
  IF S \cap Calib = {} THEN {} ELSE {r \in Calib \ asked : w[r] # want[r]}
SwitchZeroed(S) ==
  IF S # {"FREQ"} /\ "FREQ" \in CarriedBy(queued') /\ S # {} /\ want'["FREQ"] # 0
    THEN {"FREQ"} ELSE {}
VoltageUnstaged(S) ==
  IF S # {} /\ "HV" \in CarriedBy(queued') \ S /\ staged.HV # want'["HV"]
    THEN {"HV"} ELSE {}

Follow(S, asked, w) ==
  /\ want' = [r \in Regs |-> IF r \in asked THEN w[r] ELSE want[r]]
  /\ astray' = (astray \ (asked \cap S))
                 \cup Overwritten(S) \cup TakenForUnchanged(S, asked, w)
                 \cup StaleBeside(S, asked, w)
                 \cup SwitchZeroed(S) \cup VoltageUnstaged(S)

Queue(S, asked, w, mode) ==
  /\ Stage(S, w)
  /\ SetSwitch(S, w, mode)
  /\ SetFlags(S)
  /\ Follow(S, asked, w)
  /\ IF S = {} THEN UNCHANGED <<req, reply>>
     ELSE req' = Aged(req) /\ reply' = Aged(reply)

(* A PC writes the registers in S, or others only when S is empty: the     *)
(* write bank starts as a copy of the live one and becomes the live one.   *)
(* The TCP handler sets the switch of its bank to 0 before that.           *)
PcWrite(link, S, f) ==
  /\ LET w    == [r \in Regs |-> CASE r \notin S -> live[r]
                                   [] r = "FREQ" /\ r \in S -> f
                                   [] OTHER -> edits + 1]
         bank == IF link = "tcp" /\ "FREQ" \in S THEN [w EXCEPT !.FREQ = 0] ELSE w
     IN  /\ Queue(S, S, w, live.FREQ)
         /\ live' = bank
         /\ freq_dtc_mode' = bank.FREQ           \* config_variables
         /\ temps' = Loaded(bank, bank.FREQ)     \* refresh_lcd
  /\ entered' = {}
  /\ UNCHANGED <<reg, Modbus_State_DTC>>

(* The menu: copy_saved_values_to_temp, on the password and on a refresh.  *)
OpenMenu ==
  /\ temps' = Loaded(live, freq_dtc_mode)
  /\ entered' = {}
  /\ UNCHANGED <<detVars, reply, live, freq_dtc_mode, queueVars,
                 Modbus_State_DTC, want, astray>>

EnterValue(r) ==           \* lcd_hv_write, lcd_factor_edit_screen
  /\ r \in Staged
  /\ temps' = [temps EXCEPT ![r] = edits + 1]
  /\ entered' = entered \cup {r}
  /\ UNCHANGED <<detVars, reply, live, freq_dtc_mode, queueVars,
                 Modbus_State_DTC, want, astray>>

ToggleSwitch ==            \* lcd_freq_dtc_screen
  /\ temps' = [temps EXCEPT !.FREQ = 1 - temps.FREQ]
  /\ entered' = entered \cup {"FREQ"}
  /\ UNCHANGED <<detVars, reply, live, freq_dtc_mode, queueVars,
                 Modbus_State_DTC, want, astray>>

(* set_configuration: a factor that differs from the live bank, a high     *)
(* voltage other than 0, a switch that differs from freq_dtc_mode.         *)
Changed ==
  (IF \E r \in Calib : temps[r] # live[r] THEN Calib ELSE {})
    \cup (IF temps.HV # 0 THEN {"HV"} ELSE {})
    \cup (IF temps.FREQ # freq_dtc_mode THEN {"FREQ"} ELSE {})

SaveMenu ==
  /\ Queue(Changed, entered, temps, freq_dtc_mode)
  /\ freq_dtc_mode' = temps.FREQ
  /\ live' = [live EXCEPT !.FREQ = temps.FREQ]   \* Update_Registers
  /\ UNCHANGED <<reg, temps, entered, Modbus_State_DTC>>

(* modbus_task_dtc: a change of the relay takes over the write flags.      *)
RelayChange ==
  /\ queued' = "HV_SWITCH"
  /\ astray' = astray \cup Carried
  /\ req' = Aged(req) /\ reply' = Aged(reply)
  /\ UNCHANGED <<reg, live, menuVars, staged, dtc_freq_switch_val,
                 Modbus_State_DTC, want>>

-----------------------------------------------------------------------------
(* The master.                                                             *)

Request ==
  CASE queued = "POLLING" -> [kind |-> "READ", vals |-> NoVals, cur |-> FALSE]
    [] queued \in {"HV_SWITCH", "FREQ_SWITCH"}
                          -> [kind |-> "0x06", vals |-> Sent, cur |-> TRUE]
    [] OTHER              -> [kind |-> "0x10", vals |-> Sent, cur |-> TRUE]

Send ==
  /\ Modbus_State_DTC = "IDLE"
  /\ Modbus_State_DTC' = "WAIT"
  /\ req' = Request
  /\ UNCHANGED <<reg, reply, live, menuVars, queueVars, edits, want, astray>>

Drop == queued' = "POLLING" /\ astray' = astray \cup Carried

(* A reply of the detector is used.  A read fills the live banks; the      *)
(* acknowledgement of a write drops whatever is queued and clears the      *)
(* staged values.  If the wait has also expired in this pass, the queued   *)
(* write is dropped in any case.                                           *)
BankFilledPartly(vals) ==  \* mutant: the switch is not copied
  live' = [vals EXCEPT !.FREQ = live.FREQ]
BankFilled(vals) == live' = vals

UseRead(expired) ==
  /\ Modbus_State_DTC = "WAIT" /\ reply.kind = "READ"
  /\ Modbus_State_DTC' = "IDLE"
  /\ reply' = None
  /\ BankFilled(reply.vals)
  /\ IF expired THEN Drop ELSE UNCHANGED <<queued, astray>>
  /\ UNCHANGED <<detVars, menuVars, staged, dtc_freq_switch_val, edits, want>>

UseAck ==
  /\ Modbus_State_DTC = "WAIT" /\ reply.kind \in {"0x06", "0x10"}
  /\ Modbus_State_DTC' = "IDLE"
  /\ reply' = None
  /\ staged' = Blank
  /\ IF reply.cur THEN queued' = "POLLING" /\ UNCHANGED astray ELSE Drop
  /\ UNCHANGED <<detVars, live, menuVars, dtc_freq_switch_val, edits, want>>

TimeOut ==
  /\ Modbus_State_DTC = "WAIT"
  /\ Modbus_State_DTC' = "IDLE"
  /\ Drop
  /\ UNCHANGED <<detVars, reply, live, menuVars, staged, dtc_freq_switch_val,
                 edits, want>>

-----------------------------------------------------------------------------
(* The detector carries out the request; its answer may not be heard.      *)
Serve(heard) ==
  /\ req # None
  /\ req' = None
  /\ reg' = [r \in Regs |-> IF r \in DOMAIN req.vals THEN req.vals[r] ELSE reg[r]]
  /\ reply' = CASE ~heard -> reply
                [] heard /\ req.kind = "READ" -> [req EXCEPT !.vals = reg]
                [] OTHER -> [req EXCEPT !.vals = NoVals]
  /\ UNCHANGED <<live, menuVars, queueVars, Modbus_State_DTC, edits, want, astray>>

-----------------------------------------------------------------------------
Writers ==
  /\ edits < MaxEdits
  /\ edits' = edits + 1
  /\ \/ \E l \in Links, S \in PcRanges, f \in {0, 1} : PcWrite(l, S, f)
     \/ OpenMenu \/ ToggleSwitch \/ SaveMenu \/ RelayChange
     \/ \E r \in Staged : EnterValue(r)

Master == Send \/ UseAck \/ TimeOut \/ \E e \in BOOLEAN : UseRead(e)

Next == Writers \/ Master \/ \E h \in BOOLEAN : Serve(h)

Spec == Init /\ [][Next]_vars

(* The superloop runs, and the detector keeps answering some requests in   *)
(* time; the writers are not obliged to do anything.                       *)
FairSpec == /\ Spec /\ WF_vars(Send) /\ WF_vars(UseAck) /\ WF_vars(TimeOut)
            /\ SF_vars(Serve(TRUE)) /\ SF_vars(UseRead(FALSE))

-----------------------------------------------------------------------------
Banks == {b \in [Regs -> Values] : b.FREQ \in {0, 1}}

Frames == [kind : {"NONE", "READ", "0x06", "0x10"}, cur : BOOLEAN,
           vals : UNION {[S -> Values] : S \in SUBSET Regs}]

(* Every variable keeps its type; what is queued is one of the writes the  *)
(* flags can name, and a frame carries values of the detector's registers. *)
TypeOK ==
  /\ reg \in Banks /\ live \in Banks /\ temps \in Banks /\ want \in Banks
  /\ freq_dtc_mode \in {0, 1}
  /\ staged \in [Staged -> Values] /\ dtc_freq_switch_val \in {0, 1}
  /\ entered \subseteq Regs /\ astray \subseteq Regs
  /\ queued \in Ranges \cup {"POLLING", "HV_SWITCH", "FREQ_SWITCH"}
  /\ Modbus_State_DTC \in {"IDLE", "WAIT"} /\ edits \in 0..MaxEdits
  /\ req \in Frames /\ reply \in Frames
  /\ \A f \in {req, reply} : "FREQ" \in DOMAIN f.vals => f.vals.FREQ \in {0, 1}
  /\ reply.kind = "READ" => DOMAIN reply.vals = Regs

(* Every register of the detector ends up with the value asked for last,   *)
(* whoever asked and whatever else was written: with nothing queued it     *)
(* holds that value, unless it went astray since.  A time-out, the relay,  *)
(* an acknowledgement of an earlier write, another writer and the five     *)
(* cases at Follow are all the ways calib_factors_hv_write,                *)
(* is_reconfigure_hv_* and modbus_task_dtc lose a value.                   *)
ConfigurationIsApplied ==
  queued = "POLLING" => \A r \in Regs \ astray : reg[r] = want[r]

(* Once the writers are quiet, the register banks the PCs read show what   *)
(* the detector holds, also after writes that were lost: neither the value *)
(* a PC wrote into the bank nor the 0 the TCP handler leaves in FREQ_DTC   *)
(* outlives the next reads (initialize_modbus_registers).                  *)
BanksShowDetector == <>[](live = reg)

(* What the proof of BanksShowDetector needs to know of ENABLED, which is  *)
(* beyond the proof system: in these states the fair action can be taken   *)
(* and changes a variable.  An invariant of Spec.                          *)
WhenEnabled ==
  /\ Modbus_State_DTC = "IDLE" => ENABLED <<Send>>_vars
  /\ Modbus_State_DTC = "WAIT" => ENABLED <<TimeOut>>_vars
  /\ req # None => ENABLED <<Serve(TRUE)>>_vars
  /\ Modbus_State_DTC = "WAIT" /\ reply.kind = "READ" => ENABLED <<UseRead(FALSE)>>_vars
=============================================================================
