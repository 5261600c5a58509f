---------------------------- MODULE DetectorLink ----------------------------
(***************************************************************************)
(* The Modbus master that polls the radiation detector over USART2         *)
(* (Detector_Modbus.c), the interrupt handlers it races with (the RTC      *)
(* one-second wake-up and the TIM4 sampling of the high-voltage relay in   *)
(* main.c, the UART callbacks in modbus.c) and the link supervision at the *)
(* head of Check_Fault_Conditions (Fault_Handler.c).                       *)
(*                                                                         *)
(* The superloop is one process whose steps are named by pc; an interrupt  *)
(* may run between any two of them.  The detector and the line are the     *)
(* environment: a request may be lost, refused, answered late, answered    *)
(* after it timed out or damaged, and the detector may lose power.         *)
(*                                                                         *)
(* hvLost and silence are history variables: no action reads them.         *)
(***************************************************************************)
EXTENDS Naturals

CONSTANTS SingleEdits,     \* the single-register writes an operator can queue
          MultipleEdits,   \* the multiple-register writes an operator can stage
          Relays,          \* the readings of the relay input that occur
          Faults,          \* what the line and the detector may do wrong
          CounterMod,      \* Dtc_Failed_Timeout is a uint8_t: 256 in the code
          SilenceCap       \* bound of the history variable silence

ASSUME EditsAssumption    == /\ SingleEdits \subseteq {"FREQ_SWITCH"}
                             /\ "DONE" \notin MultipleEdits
ASSUME RelaysAssumption   == Relays \subseteq {0, 1}
ASSUME FaultsAssumption   ==
  Faults \subseteq {"lost", "damaged", "unheard", "uart", "power"}
ASSUME CounterAssumption == CounterMod \in Nat /\ CounterMod > 3
ASSUME SilenceAssumption == SilenceCap \in Nat /\ SilenceCap >= 2

VARIABLES
  \* shared with the interrupt handlers
  relay_status, prev_relay_status, dtc_poll, frame_recv_dtc,
  rx,                      \* rx_buffer_dma_dtc: the last frame received
  armed,                   \* ReceiveToIdle DMA is running
  tx,                      \* the request being transmitted by DMA
  \* the master
  pc, hv_switch_val, modbus_write_flag, single_write_flag,
  multiple_write_flag, Modbus_State_DTC,
  staged,                  \* Modbus_Registers_Detector_Write holds an edit
  age, overdue,            \* in WAIT: RTC ticks since request_time (to 2), and
                           \* TIMEOUT_MS is over; 0 and FALSE when not waiting
  \* supervision
  Dtc_Failed_Timeout, Dtc_Failed_Status, Prev_Dtc_Failed_Status,
  \* the detector
  detReq,                  \* the request it has received and not served
  detHv,                   \* the high-voltage switch it applies
  \* history
  hvLost,                  \* what first went wrong with the last relay change
  silence                  \* seconds since the last valid reply was used

isrVars    == <<relay_status, dtc_poll, frame_recv_dtc, rx, armed, tx>>
writeVars  == <<hv_switch_val, modbus_write_flag, single_write_flag,
                multiple_write_flag, staged>>
timeVars   == <<age, overdue>>
failVars   == <<Dtc_Failed_Timeout, Dtc_Failed_Status, Prev_Dtc_Failed_Status>>
detVars    == <<detReq, detHv>>
vars       == <<isrVars, prev_relay_status, pc, writeVars, Modbus_State_DTC,
                timeVars, failVars, detVars, hvLost, silence>>

-----------------------------------------------------------------------------
UnknownRelay == 255        \* relay_status = 0xff until TIM4 first samples it
On  == 255                 \* the value 0xFF written to the HV switch register
Off == 0

HvValue(relay) == IF relay = 1 THEN On ELSE Off

None == [kind |-> "NONE", val |-> Off, cur |-> FALSE]

(* A request and the reply to it: kind stands for the function code and    *)
(* the registers (READ 0x03; HV and FREQ 0x06; CONFIG 0x10), val is the    *)
(* value of an HV write.  BAD is a frame Modbus_Process_Request_dtc        *)
(* rejects: short, wrong CRC, another slave, an exception, a byte count    *)
(* that does not match.  cur is history: the frame carries the command     *)
(* queued by the last relay change.                                        *)
Kinds  == {"NONE", "READ", "HV", "FREQ", "CONFIG", "BAD"}
Frames == [kind : Kinds, val : {On, Off}, cur : BOOLEAN]
Aged(f) == [kind |-> f.kind, val |-> f.val, cur |-> FALSE]

HvPending == modbus_write_flag = "SINGLE" /\ single_write_flag = "HV_SWITCH"

Causes == {"torn", "timeout", "overwritten", "misacked", "blip", "rearmed"}
Lost(cause) == hvLost' = IF hvLost = "nothing" THEN cause ELSE hvLost
LostIfPending(cause) == IF HvPending THEN Lost(cause) ELSE UNCHANGED hvLost

Init ==
  /\ relay_status = UnknownRelay /\ prev_relay_status = UnknownRelay
  /\ dtc_poll = FALSE /\ frame_recv_dtc = FALSE
  /\ rx = None /\ tx = None
  /\ armed = TRUE
  /\ pc = "entry"
  /\ hv_switch_val = Off
  /\ modbus_write_flag = "POLLING"
  /\ single_write_flag = "DONE" /\ multiple_write_flag = "DONE"
  /\ Modbus_State_DTC = "IDLE"
  /\ staged = FALSE
  /\ age = 0 /\ overdue = FALSE
  /\ Dtc_Failed_Timeout = 0
  /\ Dtc_Failed_Status = FALSE /\ Prev_Dtc_Failed_Status = FALSE
  /\ detReq = None /\ detHv = Off
  /\ hvLost = "nothing" /\ silence = 0

-----------------------------------------------------------------------------
(* modbus_task_dtc: the relay change (lines 50-63).  relay_status is read  *)
(* three times, once per step; TIM4 may rewrite it in between.             *)

RelayRose == relay_status > prev_relay_status       \* mutant: rising edges only
RelayChanged == prev_relay_status # relay_status

TaskEntry ==
  /\ pc = "entry"
  /\ pc' = IF RelayChanged THEN "pick" ELSE "poll"
  /\ UNCHANGED <<isrVars, prev_relay_status, writeVars, Modbus_State_DTC,
                 timeVars, failVars, detVars, hvLost, silence>>

PickHvValue ==
  /\ pc = "pick"
  /\ hv_switch_val' = HvValue(relay_status)
  /\ pc' = "latch"
  /\ UNCHANGED <<isrVars, prev_relay_status, modbus_write_flag,
                 single_write_flag, multiple_write_flag, staged,
                 Modbus_State_DTC, timeVars, failVars, detVars, hvLost, silence>>

QueueHvFlagOnly ==         \* mutant: single_write_flag is not set
  modbus_write_flag' = "SINGLE" /\ UNCHANGED single_write_flag
QueueHv == modbus_write_flag' = "SINGLE" /\ single_write_flag' = "HV_SWITCH"

LatchRelay ==
  /\ pc = "latch"
  /\ prev_relay_status' = relay_status
  /\ QueueHv
  /\ tx' = Aged(tx) /\ detReq' = Aged(detReq) /\ rx' = Aged(rx)
  /\ hvLost' = IF hv_switch_val = HvValue(relay_status) THEN "nothing" ELSE "torn"
  /\ pc' = "poll"
  /\ UNCHANGED <<relay_status, dtc_poll, frame_recv_dtc, armed, hv_switch_val,
                 multiple_write_flag, staged, Modbus_State_DTC, timeVars,
                 failVars, detHv, silence>>

(* modbus_task_dtc: the one-second poll (lines 65-129).                    *)

Request ==
  CASE HvPending -> [kind |-> "HV", val |-> hv_switch_val, cur |-> TRUE]
    [] modbus_write_flag = "SINGLE" /\ single_write_flag = "FREQ_SWITCH"
         -> [kind |-> "FREQ", val |-> Off, cur |-> FALSE]
    [] modbus_write_flag = "MULTIPLE" -> [kind |-> "CONFIG", val |-> Off, cur |-> FALSE]
    [] modbus_write_flag = "POLLING"  -> [kind |-> "READ", val |-> Off, cur |-> FALSE]
    [] OTHER -> None       \* SINGLE with nothing to write: nothing is sent

Send ==
  /\ pc = "poll"
  /\ dtc_poll
  /\ pc' = "clear"
  /\ IF Modbus_State_DTC = "IDLE"
       THEN /\ Modbus_State_DTC' = "WAIT"
            /\ tx' = Request
            /\ detReq' = None
       ELSE UNCHANGED <<Modbus_State_DTC, tx, detReq>>
  /\ UNCHANGED <<relay_status, dtc_poll, frame_recv_dtc, rx, armed,
                 prev_relay_status, writeVars, timeVars, failVars, detHv,
                 hvLost, silence>>

NoPollDue ==
  /\ pc = "poll"
  /\ ~dtc_poll
  /\ pc' = "wait"
  /\ UNCHANGED <<isrVars, prev_relay_status, writeVars, Modbus_State_DTC,
                 timeVars, failVars, detVars, hvLost, silence>>

PollCountedAgain ==        \* mutant: the flag is not cleared
  /\ Dtc_Failed_Timeout' = (Dtc_Failed_Timeout + 1) % CounterMod
  /\ UNCHANGED dtc_poll
PollCounted ==
  /\ Dtc_Failed_Timeout' = (Dtc_Failed_Timeout + 1) % CounterMod
  /\ dtc_poll' = FALSE

CountPoll ==
  /\ pc = "clear"
  /\ PollCounted
  /\ pc' = "wait"
  /\ UNCHANGED <<relay_status, frame_recv_dtc, rx, armed, tx,
                 prev_relay_status, writeVars, Modbus_State_DTC, timeVars,
                 Dtc_Failed_Status, Prev_Dtc_Failed_Status, detVars, hvLost, silence>>

(* modbus_task_dtc: the reply and the time-out (lines 131-194).            *)

Used(f) ==                 \* valid_resp = 1 with a function code it handles
  frame_recv_dtc /\ f.kind \in {"READ", "HV", "FREQ", "CONFIG"}

(* The flags after a reply: a read leaves the queued write alone, a write  *)
(* acknowledgement drops whatever is queued and clears the staged values.  *)
ClearKind(f) ==
  /\ single_write_flag' = IF f.kind \in {"HV", "FREQ"} THEN "DONE" ELSE single_write_flag
  /\ multiple_write_flag' = IF f.kind = "CONFIG" THEN "DONE" ELSE multiple_write_flag

ClearWriteLate(f) ==       \* mutant: modbus_write_flag is left as it was
  /\ ClearKind(f)
  /\ staged' = FALSE
  /\ UNCHANGED <<modbus_write_flag, hvLost>>
ClearWrite(f) ==
  /\ modbus_write_flag' = "POLLING"
  /\ ClearKind(f)
  /\ staged' = FALSE
  /\ IF f.cur THEN UNCHANGED hvLost ELSE LostIfPending("misacked")

Expire ==
  /\ Modbus_State_DTC' = "IDLE"
  /\ modbus_write_flag' = "POLLING"
  /\ LostIfPending("timeout")
  /\ UNCHANGED <<single_write_flag, multiple_write_flag, staged>>

CountCleared ==            \* mutant: the failure itself is not cleared
  Dtc_Failed_Timeout' = 0 /\ UNCHANGED Dtc_Failed_Status
LinkAlive == Dtc_Failed_Timeout' = 0 /\ Dtc_Failed_Status' = FALSE

AwaitReply ==
  /\ pc = "wait"
  /\ Modbus_State_DTC = "WAIT"
  /\ pc' = "others"
  /\ frame_recv_dtc' = FALSE
  /\ rx' = IF frame_recv_dtc THEN None ELSE rx
  /\ IF Used(rx)
       THEN LinkAlive /\ silence' = 0
       ELSE UNCHANGED <<Dtc_Failed_Timeout, Dtc_Failed_Status, silence>>
  /\ IF Used(rx) \/ overdue
       THEN age' = 0 /\ overdue' = FALSE
       ELSE UNCHANGED timeVars
  /\ CASE Used(rx) /\ rx.kind # "READ" ->
            Modbus_State_DTC' = "IDLE" /\ ClearWrite(rx)
       [] ~(Used(rx) /\ rx.kind # "READ") /\ overdue -> Expire
       [] OTHER ->
            /\ Modbus_State_DTC' = IF Used(rx) THEN "IDLE" ELSE "WAIT"
            /\ UNCHANGED <<modbus_write_flag, single_write_flag,
                           multiple_write_flag, staged, hvLost>>
  /\ UNCHANGED <<relay_status, dtc_poll, armed, tx, prev_relay_status,
                 hv_switch_val, Prev_Dtc_Failed_Status, detVars>>

NotWaiting ==
  /\ pc = "wait"
  /\ Modbus_State_DTC # "WAIT"
  /\ pc' = "others"
  /\ UNCHANGED <<isrVars, prev_relay_status, writeVars, Modbus_State_DTC,
                 timeVars, failVars, detVars, hvLost, silence>>

-----------------------------------------------------------------------------
(* The other tasks of the superloop.  The keypad menu and the two PC links *)
(* may queue a configuration write for the detector; they do not look at   *)
(* what is queued already.                                                 *)

QueueMultiple(k) ==
  /\ pc = "others"
  /\ pc' = "check"
  /\ modbus_write_flag' = "MULTIPLE"
  /\ multiple_write_flag' = k
  /\ staged' = TRUE
  /\ LostIfPending("overwritten")
  /\ UNCHANGED <<isrVars, prev_relay_status, hv_switch_val, single_write_flag,
                 Modbus_State_DTC, timeVars, failVars, detVars, silence>>

QueueSingle(k) ==
  /\ pc = "others"
  /\ pc' = "check"
  /\ modbus_write_flag' = "SINGLE"
  /\ single_write_flag' = k
  /\ LostIfPending("overwritten")
  /\ UNCHANGED <<isrVars, prev_relay_status, hv_switch_val, multiple_write_flag,
                 staged, Modbus_State_DTC, timeVars, failVars, detVars, silence>>

NothingQueued ==
  /\ pc = "others"
  /\ pc' = "check"
  /\ UNCHANGED <<isrVars, prev_relay_status, writeVars, Modbus_State_DTC,
                 timeVars, failVars, detVars, hvLost, silence>>

(* Check_Fault_Conditions, the link part (lines 165-208).  When the link   *)
(* comes back, prev_relay_status is set to the opposite of relay_status so *)
(* that the next modbus_task_dtc writes the HV switch again.               *)

LinkDownUnlatched == Dtc_Failed_Timeout >= 3        \* mutant: not latched
LinkDown == Dtc_Failed_Status \/ Dtc_Failed_Timeout >= 3

Supervise ==
  /\ pc = "check"
  /\ pc' = "entry"
  /\ LET back == ~LinkDown /\ Prev_Dtc_Failed_Status
     IN /\ Dtc_Failed_Status' = LinkDown
        /\ Prev_Dtc_Failed_Status' = LinkDown
        /\ prev_relay_status' =
             IF ~back THEN prev_relay_status
             ELSE IF relay_status = 1 THEN 0 ELSE 1
        /\ IF back THEN Lost("rearmed") ELSE UNCHANGED hvLost
  /\ UNCHANGED <<isrVars, writeVars, Modbus_State_DTC, timeVars,
                 Dtc_Failed_Timeout, detVars, silence>>

-----------------------------------------------------------------------------
(* Interrupt handlers.                                                     *)

RtcTick ==                 \* HAL_RTCEx_WakeUpTimerEventCallback, each second
  /\ dtc_poll' = TRUE
  /\ age' = IF Modbus_State_DTC = "WAIT" /\ age < 2 THEN age + 1 ELSE age
  /\ silence' = IF silence < SilenceCap THEN silence + 1 ELSE silence
  /\ UNCHANGED <<relay_status, frame_recv_dtc, rx, armed, tx,
                 prev_relay_status, pc, writeVars, Modbus_State_DTC, overdue,
                 failVars, detVars, hvLost>>

TimeoutPasses ==           \* HAL_GetTick() - request_time exceeds TIMEOUT_MS
  /\ age = 2 /\ ~overdue
  /\ overdue' = TRUE
  /\ UNCHANGED <<isrVars, prev_relay_status, pc, writeVars, Modbus_State_DTC,
                 age, failVars, detVars, hvLost, silence>>

RelaySampled(r) ==         \* HAL_TIM_PeriodElapsedCallback reads the IP3 pin
  /\ relay_status # r
  /\ relay_status' = r
  /\ UNCHANGED <<dtc_poll, frame_recv_dtc, rx, armed, tx, prev_relay_status,
                 pc, writeVars, Modbus_State_DTC, timeVars, failVars, detVars,
                 hvLost, silence>>

(* HAL_UART_TxCpltCallback: receive again.  The line may lose the request. *)
TxComplete(heard) ==
  /\ tx # None
  /\ heard \/ "lost" \in Faults
  /\ tx' = None
  /\ armed' = TRUE
  /\ detReq' = IF heard THEN tx ELSE None
  /\ UNCHANGED <<relay_status, dtc_poll, frame_recv_dtc, rx, prev_relay_status,
                 pc, writeVars, Modbus_State_DTC, timeVars, failVars, detHv,
                 hvLost, silence>>

UartError ==               \* HAL_UART_ErrorCallback: USART2 is not handled
  /\ "uart" \in Faults
  /\ armed
  /\ armed' = FALSE
  /\ UNCHANGED <<relay_status, dtc_poll, frame_recv_dtc, rx, tx,
                 prev_relay_status, pc, writeVars, Modbus_State_DTC, timeVars,
                 failVars, detVars, hvLost, silence>>

-----------------------------------------------------------------------------
(* The detector.  It carries out a request and its answer reaches the      *)
(* receiver (HAL_UARTEx_RxEventCallback), or is damaged, or is not heard.  *)

Serve(outcome) ==
  /\ detReq # None
  /\ outcome = "good" \/ outcome \in Faults
  /\ detReq' = None
  /\ detHv' = IF detReq.kind = "HV" THEN detReq.val ELSE detHv
  /\ IF armed /\ outcome # "unheard"
       THEN /\ frame_recv_dtc' = TRUE
            /\ rx' = IF outcome = "good" THEN detReq ELSE [None EXCEPT !.kind = "BAD"]
            /\ armed' = FALSE
       ELSE UNCHANGED <<frame_recv_dtc, rx, armed>>
  /\ UNCHANGED <<relay_status, dtc_poll, tx, prev_relay_status, pc, writeVars,
                 Modbus_State_DTC, timeVars, failVars, hvLost, silence>>

PowerLoss ==               \* the detector restarts with the voltage off
  /\ "power" \in Faults
  /\ detHv' = Off
  /\ detReq' = None
  /\ Lost("blip")
  /\ UNCHANGED <<isrVars, prev_relay_status, pc, writeVars, Modbus_State_DTC,
                 timeVars, failVars, silence>>

-----------------------------------------------------------------------------
Task == \/ TaskEntry \/ PickHvValue \/ LatchRelay \/ Send \/ NoPollDue
        \/ CountPoll \/ AwaitReply \/ NotWaiting \/ Supervise
        \/ (\E k \in MultipleEdits : QueueMultiple(k))
        \/ (\E k \in SingleEdits : QueueSingle(k))
        \/ NothingQueued

Interrupt == \/ RtcTick \/ TimeoutPasses \/ UartError
             \/ (\E heard \in BOOLEAN : TxComplete(heard))
             \/ \E r \in Relays : RelaySampled(r)

Detector == PowerLoss \/ \E o \in {"good", "damaged", "unheard"} : Serve(o)

Next == Task \/ Interrupt \/ Detector

Spec == Init /\ [][Next]_vars

(* The superloop never stops, both clocks advance and a DMA transmission   *)
(* completes.  Nothing is assumed of the detector or of the relay.         *)
FairSpec == /\ Spec
            /\ WF_vars(Task) /\ WF_vars(RtcTick) /\ WF_vars(TimeoutPasses)
            /\ WF_vars(\E heard \in BOOLEAN : TxComplete(heard))

(* A detector that keeps answering some of the requests it receives.       *)
AnsweringSpec == FairSpec /\ SF_vars(Serve("good"))

-----------------------------------------------------------------------------
(* Every variable keeps its type; in particular Dtc_Failed_Timeout wraps   *)
(* as a uint8_t and the three switch flags stay within their enumerations  *)
(* (Detector_Modbus_registers.h), whatever order the handlers run in.      *)
RelayTypes == /\ relay_status \in {0, 1, UnknownRelay}
              /\ prev_relay_status \in {0, 1, UnknownRelay}
LineTypes  == /\ dtc_poll \in BOOLEAN /\ frame_recv_dtc \in BOOLEAN
              /\ armed \in BOOLEAN /\ overdue \in BOOLEAN
FrameTypes == rx \in Frames /\ tx \in Frames /\ detReq \in Frames
WriteTypes ==
  /\ pc \in {"entry", "pick", "latch", "poll", "clear", "wait", "others", "check"}
  /\ hv_switch_val \in {On, Off} /\ detHv \in {On, Off}
  /\ modbus_write_flag \in {"SINGLE", "MULTIPLE", "POLLING"}
  /\ single_write_flag \in {"HV_SWITCH", "FREQ_SWITCH", "DONE"}
  /\ multiple_write_flag \in MultipleEdits \cup {"DONE"}
  /\ Modbus_State_DTC \in {"IDLE", "WAIT"}
  /\ staged \in BOOLEAN
FailTypes  == Dtc_Failed_Status \in BOOLEAN /\ Prev_Dtc_Failed_Status \in BOOLEAN
CountTypes == /\ age \in 0..2
              /\ Dtc_Failed_Timeout \in 0..(CounterMod - 1)
              /\ silence \in 0..SilenceCap
TypeOK == /\ RelayTypes /\ LineTypes /\ FrameTypes /\ WriteTypes
          /\ FailTypes /\ CountTypes /\ hvLost \in Causes \cup {"nothing"}

(* A write flag never stands for nothing: a single write names the switch  *)
(* it writes, and a multiple write finds the values the operator staged,   *)
(* so a request never carries registers an acknowledgement has zeroed      *)
(* (modbus_task_dtc, the two Modbus_Registers_Detector_Write resets).      *)
PendingWriteIsReal ==
  /\ modbus_write_flag = "SINGLE"   => single_write_flag # "DONE"
  /\ modbus_write_flag = "MULTIPLE" => multiple_write_flag # "DONE" /\ staged

(* The high voltage follows the relay: with no HV write queued and the     *)
(* relay as the master last saw it, the detector applies the value the     *)
(* relay asks for, unless one of Causes happened since that relay change:  *)
(* the list of the ways modbus_task_dtc loses an HV command is complete.   *)
HvSwitchFollowsRelay ==
  pc # "latch" /\ ~HvPending /\ hvLost = "nothing"
    /\ prev_relay_status = relay_status
  => detHv = HvValue(relay_status)

(* The link implements the monitor's promise: the failure is declared only *)
(* after at least two silent seconds (Dtc_Failed_Timeout >= 3 counts polls,*)
(* and one may be due already when a reply is used), is latched, and is    *)
(* cleared by a valid reply only.                                          *)
Monitor == INSTANCE LinkMonitor WITH failed <- Dtc_Failed_Status
FailureNeedsSilence == Monitor!MonitorInit /\ [][Monitor!MonitorNext]_(Monitor!monitorVars)

(* With the fairness of the superloop, lasting silence is declared.        *)
FailureIsDeclared == Monitor!MonitorSpec

(* Once the line and the detector work, the failure never lasts, although  *)
(* receive errors are not recovered from and a late reply may be taken for *)
(* the answer to the next request.                                         *)
Trouble == \/ UartError \/ PowerLoss \/ TxComplete(FALSE)
           \/ Serve("damaged") \/ Serve("unheard")
LineIsSound == <>[][~Trouble]_vars
LinkHeals == LineIsSound => []<>(~Dtc_Failed_Status)

(* Once the relay and the line are quiet the HV command reaches the        *)
(* detector, and for good, if nothing in Causes happens.                   *)
HvEventuallyApplied ==
  LineIsSound /\ <>[](hvLost = "nothing") /\ <>[][FALSE]_relay_status
  => <>[](relay_status # UnknownRelay => detHv = HvValue(relay_status))

(* What the proofs of these three need to know of ENABLED, which is beyond *)
(* the proof system: when the fair actions can be taken and change a       *)
(* variable, and when the monitor may declare.  An invariant of Spec.      *)
WhenEnabled ==
  /\ ENABLED <<Task>>_vars
  /\ ~dtc_poll => ENABLED <<RtcTick>>_vars
  /\ Modbus_State_DTC = "WAIT" /\ age < 2 => ENABLED <<RtcTick>>_vars
  /\ age = 2 /\ ~overdue => ENABLED <<TimeoutPasses>>_vars
  /\ tx # None => ENABLED <<\E heard \in BOOLEAN : TxComplete(heard)>>_vars
  /\ detReq # None => ENABLED <<Serve("good")>>_vars
  /\ ENABLED <<Monitor!Declare>>_(Monitor!monitorVars)
       => silence >= 2 /\ ~Dtc_Failed_Status
=============================================================================
