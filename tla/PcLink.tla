------------------------------- MODULE PcLink -------------------------------
(***************************************************************************)
(* UART8, the RS-485 line to the PC (pc_modbus.c), and the export of the   *)
(* log of the SD card (sd_task, fatfs_sd.c) that uses the same line or the *)
(* TCP client.  One pin switches the transceiver between sending and       *)
(* listening.  A reception takes one frame and must be armed again, with   *)
(* the buffer of the slave or that of the export; read_sd_flag, which any  *)
(* write of a PC sets or clears, tells the interrupt handlers which of the *)
(* two a frame is for.                                                     *)
(*                                                                         *)
(* The superloop is a process with the program counter pc; the interrupts  *)
(* of UART8 come between any two of its steps.  What a request asks for is *)
(* its kind; good is FALSE for a frame the slave should not answer: with a *)
(* wrong CRC, for another slave, or with an address or a length outside    *)
(* the registers.  lost, out and unread are history variables.             *)
(***************************************************************************)
EXTENDS Naturals, Sequences

CONSTANTS MAX_RECORDS,     \* slots of the log
          sd_index,        \* the slot written next
          FailLimit        \* the failed seconds after which an export gives up

ASSUME RecordsAssumption == MAX_RECORDS \in Nat \ {0} /\ sd_index \in 0..(MAX_RECORDS - 1)
ASSUME LimitAssumption   == FailLimit \in Nat \ {0}

VARIABLES
  dir,                     \* GPIOB 9: "rx" or "tx"
  rx,                      \* the buffer a reception is armed with, or "off"
  tx,                      \* what is being transmitted; "torn" a record whose
                           \* buffer frame_sd is filled again meanwhile
  frame,                   \* the request frame_recv_PC announces, or NoFrame
  frame_recv_PC_sd, tx_complete_PC_sd,
  PC_UART_Error_Flag, read_sd_flag,
  slow,                    \* 2400 baud: a record takes longer than 150 ms
  g_sd_present, SD_MODE,
  pc,                      \* the step of the superloop
  write,                   \* pc_state: the write to carry out
  i, read_sd_logs,         \* the slot being exported, the record held
  server_fail_cnt,
  waiting,                 \* a PC waits for an answer
  lost,                    \* why the last reception or transmission was given up
  out, unread              \* the records sent, the slots that could not be read

uart   == <<dir, rx, tx>>
flags  == <<frame, frame_recv_PC_sd, tx_complete_PC_sd, PC_UART_Error_Flag>>
config == <<read_sd_flag, slow, SD_MODE>>
export == <<i, read_sd_logs, server_fail_cnt, out, unread>>
vars   == <<uart, flags, config, g_sd_present, pc, write, export, waiting, lost>>

-----------------------------------------------------------------------------
Kinds    == {"read", "write", "export", "baud", "both"}
NoFrame  == [kind |-> "none", good |-> FALSE]
Unknown  == [kind |-> "unknown", good |-> FALSE]
Requests == [kind : Kinds, good : BOOLEAN] \cup {Unknown}

Torn      == MAX_RECORDS  \* no record: its bytes are partly of another
Newest    == IF sd_index = 0 THEN MAX_RECORDS - 1 ELSE sd_index - 1
BeforeUnwrapped(k) == k - 1 \* mutant: the ring is not closed
Before(k) == IF k = 0 THEN MAX_RECORDS - 1 ELSE k - 1

Init ==
  /\ dir = "rx" /\ rx = "pc" /\ tx = "idle"
  /\ frame = NoFrame /\ frame_recv_PC_sd = FALSE /\ tx_complete_PC_sd = FALSE
  /\ PC_UART_Error_Flag = FALSE /\ read_sd_flag = FALSE
  /\ slow \in BOOLEAN /\ g_sd_present \in BOOLEAN /\ SD_MODE = 0
  /\ pc = "frame" /\ write = "none"
  /\ i = Newest /\ read_sd_logs = Newest
  /\ server_fail_cnt = 0
  /\ waiting = FALSE /\ lost = "no" /\ out = <<>> /\ unread = {}

-----------------------------------------------------------------------------
(* What the handlers and tasks do to UART8.                                *)

(* Modbus_Restart_RX_DMA_PC and _SD: HAL_UART_DMAStop also stops a         *)
(* transmission, whose completion then switches nothing back.              *)
Restart(buffer, why) ==
  /\ rx' = buffer /\ tx' = "idle" /\ dir' = dir
  /\ lost' = IF tx # "idle" THEN why ELSE IF lost = "taken" THEN "no" ELSE lost

ReInit == dir' = "rx" /\ rx' = "pc" /\ tx' = "idle" /\ lost' = "no"

(* HAL_UART_Transmit_DMA refuses to send while a transmission goes on,     *)
(* which reads a buffer now filled again.                                  *)
Transmit(what) ==
  /\ dir' = "tx" /\ tx' = IF tx = "idle" THEN what ELSE "torn"
  /\ UNCHANGED <<rx, lost>>

-----------------------------------------------------------------------------
(* modbus_task_pc.                                                         *)

NoRequest ==
  /\ pc = "frame" /\ frame = NoFrame
  /\ pc' = "error"
  /\ UNCHANGED <<uart, flags, config, g_sd_present, write, export, waiting, lost>>

(* A known function code is carried out and answered whether the frame is  *)
(* good or not; a bad one then restarts the reception.                     *)
Answer ==
  /\ pc = "frame" /\ frame.kind \in Kinds
  /\ frame' = NoFrame /\ pc' = "write"
  /\ write' = IF frame.kind = "read" THEN "none" ELSE frame.kind
  /\ IF frame.good
       THEN Transmit("answer")
       ELSE dir' = "tx" /\ tx' = "idle" /\ rx' = "pc" /\ lost' = "mangled"
  /\ UNCHANGED <<frame_recv_PC_sd, tx_complete_PC_sd, PC_UART_Error_Flag,
                 config, g_sd_present, export, waiting>>

RefuseDeaf ==              \* mutant: the reception is not restarted
  /\ pc = "frame" /\ frame = Unknown
  /\ frame' = NoFrame /\ pc' = "write"
  /\ UNCHANGED <<uart, lost, frame_recv_PC_sd, tx_complete_PC_sd, PC_UART_Error_Flag,
                 config, g_sd_present, write, export, waiting>>
RefuseToExport ==          \* mutant: the reception goes to the buffer of the export
  /\ pc = "frame" /\ frame = Unknown
  /\ frame' = NoFrame /\ pc' = "write"
  /\ Restart("sd", "refusal")
  /\ UNCHANGED <<frame_recv_PC_sd, tx_complete_PC_sd, PC_UART_Error_Flag,
                 config, g_sd_present, write, export, waiting>>
Refuse ==
  /\ pc = "frame" /\ frame = Unknown
  /\ frame' = NoFrame /\ pc' = "write"
  /\ Restart("pc", "refusal")
  /\ UNCHANGED <<frame_recv_PC_sd, tx_complete_PC_sd, PC_UART_Error_Flag,
                 config, g_sd_present, write, export, waiting>>

(* Installing a write sets or clears read_sd_flag, and with a new baud     *)
(* rate re-initialises UART8, an answer on its way or not.                 *)
Installed(kind) ==
  /\ read_sd_flag' = (kind \in {"export", "both"})
  /\ SD_MODE' \in {0, 1}
  /\ IF kind \in {"baud", "both"}
       THEN ReInit /\ slow' \in BOOLEAN
       ELSE UNCHANGED <<uart, lost, slow>>

Write ==
  /\ pc = "write"
  /\ pc' = "error" /\ write' = "none"
  /\ IF write = "none" THEN UNCHANGED <<uart, lost, config>> ELSE Installed(write)
  /\ UNCHANGED <<flags, g_sd_present, export, waiting>>

HandleError ==
  /\ pc = "error"
  /\ pc' = "others" /\ PC_UART_Error_Flag' = FALSE
  /\ IF PC_UART_Error_Flag THEN ReInit ELSE UNCHANGED <<uart, lost>>
  /\ UNCHANGED <<frame, frame_recv_PC_sd, tx_complete_PC_sd, config,
                 g_sd_present, write, export, waiting>>

(* The other tasks of the pass.  A PC may write over TCP, or the menu save, *)
(* which asks for an export or leaves read_sd_flag alone.                   *)
Others ==
  /\ pc = "others"
  /\ pc' = IF read_sd_flag THEN "sd" ELSE "frame"
  /\ UNCHANGED <<uart, flags, config, g_sd_present, write, export, waiting, lost>>

MenuSave ==
  \E asked, baud \in BOOLEAN :
    /\ read_sd_flag' = (asked \/ read_sd_flag)
    /\ SD_MODE' \in {0, 1}
    /\ IF baud THEN ReInit /\ slow' \in BOOLEAN ELSE UNCHANGED <<uart, lost, slow>>

OthersWrite ==
  /\ pc = "others"
  /\ MenuSave \/ \E kind \in Kinds \ {"read"} : Installed(kind)
  /\ pc' = IF read_sd_flag' THEN "sd" ELSE "frame"
  /\ UNCHANGED <<flags, g_sd_present, write, export, waiting>>

-----------------------------------------------------------------------------
(* sd_task and modbus_task_sd.                                             *)

StartExport ==
  /\ pc = "sd"
  /\ \/ /\ ~g_sd_present /\ pc' = "frame" /\ read_sd_flag' = FALSE
     \/ g_sd_present /\ pc' = "open" /\ UNCHANGED read_sd_flag
     \/ g_sd_present /\ SD_MODE = 1 /\ pc' = "failed" /\ UNCHANGED read_sd_flag
  /\ UNCHANGED <<uart, flags, slow, SD_MODE, g_sd_present, write, export, waiting, lost>>

OpenFailed ==
  /\ pc = "open" /\ pc' = "failed"
  /\ UNCHANGED <<uart, flags, config, g_sd_present, write, export, waiting, lost>>

OpenHistoryNoStop ==       \* mutant: UART8 is not stopped before the export
  /\ pc = "open" /\ pc' = "record"
  /\ i' = Newest /\ out' = <<>> /\ unread' = {}
  /\ UNCHANGED <<uart, lost, flags, config, g_sd_present, write, read_sd_logs, server_fail_cnt, waiting>>
OpenHistory ==
  /\ pc = "open" /\ pc' = "record"
  /\ i' = Newest /\ out' = <<>> /\ unread' = {}
  /\ Restart("sd", "exportStart")
  /\ UNCHANGED <<flags, config, g_sd_present, write, read_sd_logs, server_fail_cnt, waiting>>

(* Logger_ReadRecord_Open: what a failed read leaves is sent all the same. *)
ReadRecord ==
  \/ read_sd_logs' = i /\ UNCHANGED unread
  \/ unread' = unread \cup {i} /\ UNCHANGED read_sd_logs

(* Modbus_FC_10_sd_rs485 fills the buffer a transmission may still read.   *)
SendRecord ==
  /\ pc = "record" /\ SD_MODE = 0
  /\ ReadRecord
  /\ tx_complete_PC_sd' = FALSE /\ frame_recv_PC_sd' = FALSE
  /\ Transmit("record") /\ pc' = "waittx"
  /\ UNCHANGED <<frame, PC_UART_Error_Flag, config, g_sd_present, write, i,
                 server_fail_cnt, out, waiting>>

(* Over TCP the result of the acknowledgement is not used.                 *)
SendRecordTcp ==
  /\ pc = "record" /\ SD_MODE = 1
  /\ ReadRecord /\ pc' = "next"
  /\ out' = Append(out, read_sd_logs') \/ UNCHANGED out
  /\ UNCHANGED <<uart, flags, config, g_sd_present, write, i, server_fail_cnt, waiting, lost>>

TxWaited ==
  /\ pc = "waittx" /\ tx_complete_PC_sd /\ pc' = "waitack"
  /\ UNCHANGED <<uart, flags, config, g_sd_present, write, export, waiting, lost>>

(* 150 ms are over: only at 2400 baud before a record of 39 bytes is out.  *)
TxTimeOut ==
  /\ pc = "waittx" /\ (slow \/ tx \notin {"record", "torn"})
  /\ pc' = "next" /\ tx_complete_PC_sd' = FALSE
  /\ UNCHANGED <<uart, frame, frame_recv_PC_sd, PC_UART_Error_Flag, config, g_sd_present,
                 write, export, waiting, lost>>

AckWaited ==
  /\ pc = "waitack" /\ frame_recv_PC_sd /\ pc' = "next"
  /\ Restart("sd", "acknowledged")
  /\ UNCHANGED <<flags, config, g_sd_present, write, export, waiting>>

AckTimeOut ==
  /\ pc = "waitack" /\ pc' = "next" /\ frame_recv_PC_sd' = FALSE
  /\ UNCHANGED <<uart, frame, tx_complete_PC_sd, PC_UART_Error_Flag, config, g_sd_present,
                 write, export, waiting, lost>>

NextRecord ==
  /\ pc = "next" /\ i' = Before(i)
  /\ pc' = IF i' = Newest THEN "end" ELSE "record"
  /\ UNCHANGED <<uart, flags, config, g_sd_present, write, read_sd_logs, server_fail_cnt, out, unread, waiting, lost>>

EndExport ==
  /\ pc = "end" /\ pc' = "done"
  /\ Restart("pc", "exportEnd")
  /\ UNCHANGED <<flags, config, g_sd_present, write, export, waiting>>

(* After display_data_writing_done, two seconds later.                     *)
Done ==
  /\ pc = "done" /\ pc' = "frame" /\ read_sd_flag' = FALSE
  /\ out' = <<>> /\ unread' = {}
  /\ UNCHANGED <<uart, flags, slow, SD_MODE, g_sd_present, write, i, read_sd_logs,
                 server_fail_cnt, waiting, lost>>

FailUncounted ==
  /\ pc = "failed" /\ pc' = "sd"
  /\ UNCHANGED <<uart, flags, config, g_sd_present, write, export, waiting, lost>>

(* The failures are counted once a second, and over all exports.           *)
GivenUp == server_fail_cnt + 1 = FailLimit

FailCountedForEver ==      \* mutant: the export is not given up
  /\ pc = "failed" /\ pc' = "sd"
  /\ server_fail_cnt' = IF GivenUp THEN 0 ELSE server_fail_cnt + 1
  /\ UNCHANGED <<uart, flags, config, g_sd_present, write, i, read_sd_logs,
                 out, unread, waiting, lost>>
FailCounted ==
  /\ pc = "failed"
  /\ server_fail_cnt' = IF GivenUp THEN 0 ELSE server_fail_cnt + 1
  /\ pc' = IF GivenUp THEN "frame" ELSE "sd"
  /\ read_sd_flag' = ~GivenUp
  /\ UNCHANGED <<uart, flags, slow, SD_MODE, g_sd_present, write, i, read_sd_logs,
                 out, unread, waiting, lost>>

-----------------------------------------------------------------------------
(* The interrupts of UART8, and the PC.                                    *)

Listening == dir = "rx" /\ rx # "off"

(* HAL_UARTEx_RxEventCallback.  A frame taken into the buffer of the       *)
(* export leaves the slave an empty one.                                   *)
RxEvent(req) ==
  /\ Listening
  /\ rx' = "off" /\ UNCHANGED <<dir, tx>>
  /\ IF read_sd_flag
       THEN frame_recv_PC_sd' = TRUE /\ lost' = "taken" /\ UNCHANGED frame
       ELSE /\ frame' = IF rx = "pc" THEN req ELSE Unknown
            /\ UNCHANGED <<frame_recv_PC_sd, lost>>

(* The PC sends a request, or in an export its acknowledgement.            *)
Ask(req) ==
  /\ waiting' = (waiting \/ req.good)
  /\ RxEvent(req) \/ (~Listening /\ UNCHANGED <<uart, frame, frame_recv_PC_sd, lost>>)
  /\ UNCHANGED <<tx_complete_PC_sd, PC_UART_Error_Flag, config, g_sd_present, pc, write, export>>

(* HAL_UART_TxCpltCallback.                                                *)
TxCplt ==
  /\ tx # "idle" /\ tx' = "idle" /\ dir' = "rx" /\ lost' = "no"
  /\ rx' = IF read_sd_flag THEN "sd" ELSE "pc"
  /\ tx_complete_PC_sd' = (read_sd_flag \/ tx_complete_PC_sd)
  /\ waiting' = (waiting /\ tx # "answer")
  /\ out' = CASE tx = "record" -> Append(out, read_sd_logs)
              [] tx = "torn"   -> Append(out, Torn)
              [] OTHER         -> out
  /\ UNCHANGED <<frame, frame_recv_PC_sd, PC_UART_Error_Flag, config, g_sd_present, pc, write,
                 i, read_sd_logs, server_fail_cnt, unread>>

(* HAL_UART_ErrorCallback: the HAL has stopped the reception.              *)
UartError ==
  /\ Listening
  /\ rx' = "off" /\ PC_UART_Error_Flag' = TRUE
  /\ UNCHANGED <<dir, tx, frame, frame_recv_PC_sd, tx_complete_PC_sd, config, g_sd_present,
                 pc, write, export, waiting, lost>>

-----------------------------------------------------------------------------
PcTask == NoRequest \/ Answer \/ Refuse \/ Write \/ HandleError
Export == \/ StartExport \/ OpenFailed \/ OpenHistory \/ SendRecord \/ SendRecordTcp
          \/ TxWaited \/ TxTimeOut \/ AckWaited \/ AckTimeOut
          \/ NextRecord \/ EndExport \/ Done \/ FailUncounted \/ FailCounted

Superloop == PcTask \/ Others \/ OthersWrite \/ Export
Next == Superloop \/ TxCplt \/ UartError \/ \E req \in Requests : Ask(req)
Spec == Init /\ [][Next]_vars

(* The superloop runs, a transmission completes, and a PC that waits asks  *)
(* again; an export that fails does so for seconds, so that some failure   *)
(* is counted.  From some time on the line carries only good reads and     *)
(* plain writes, without an error, and nobody else writes.                 *)
AskAgain == waiting /\ Ask([kind |-> "read", good |-> TRUE])
Calm     == \/ PcTask \/ Others \/ Export \/ TxCplt
            \/ \E kind \in {"read", "write"} : Ask([kind |-> kind, good |-> TRUE])
Fairness == /\ WF_vars(Superloop) /\ WF_vars(TxCplt) /\ WF_vars(AskAgain)
            /\ SF_vars(FailCounted)
            /\ <>[][Calm]_vars
FairSpec == Spec /\ Fairness

-----------------------------------------------------------------------------
TypeOK ==
  /\ dir \in {"rx", "tx"} /\ rx \in {"pc", "sd", "off"} /\ tx \in {"idle", "answer", "record", "torn"}
  /\ frame \in Requests \cup {NoFrame}
  /\ frame_recv_PC_sd \in BOOLEAN /\ tx_complete_PC_sd \in BOOLEAN
  /\ PC_UART_Error_Flag \in BOOLEAN /\ read_sd_flag \in BOOLEAN
  /\ slow \in BOOLEAN /\ g_sd_present \in BOOLEAN /\ SD_MODE \in {0, 1}
  /\ pc \in {"frame", "write", "error", "others", "sd", "open", "record", "waittx",
             "waitack", "next", "end", "done", "failed"}
  /\ write \in {"none"} \cup (Kinds \ {"read"})
  /\ i \in 0..(MAX_RECORDS - 1) /\ read_sd_logs \in 0..(MAX_RECORDS - 1)
  /\ server_fail_cnt \in 0..(FailLimit - 1)
  /\ waiting \in BOOLEAN
  /\ lost \in {"no", "mangled", "refusal", "acknowledged", "exportStart", "exportEnd",
               "taken"}
  /\ out \in Seq(0..MAX_RECORDS)
  /\ unread \subseteq 0..(MAX_RECORDS - 1)

(* The main loop runs and nothing it has left to do makes it listen again. *)
Deaf ==
  /\ pc \in {"frame", "error", "others"} /\ ~read_sd_flag
  /\ ~Listening /\ tx = "idle" /\ frame = NoFrame /\ ~PC_UART_Error_Flag

(* Hazards of the shared line: the main loop goes on without listening to  *)
(* the PC only in four ways, whatever the interrupts interrupt.  A frame   *)
(* came in while read_sd_flag was set and outside an export; a frame for   *)
(* another slave, with a wrong CRC, or with an address or length outside   *)
(* the registers was answered all the same and its restart of the          *)
(* reception cut the answer; an export cut an answer and ended without a   *)
(* transmission of its own; or at 2400 baud the end of an export cut its   *)
(* last record.                                                            *)
ListensUnlessLost ==
  Deaf => \/ lost \in {"taken", "mangled", "exportStart"}
          \/ lost = "exportEnd" /\ slow

(* A request of a PC that asks again is answered, if the line never goes   *)
(* deaf for good: no other order of interrupts, refusals, writes and       *)
(* exports keeps the slave from its requests.                              *)
RequestsAnswered == []<>(~Deaf) => (waiting ~> ~waiting)

(* Whatever fails - the card, the PC, its acknowledgements - an export     *)
(* ends, and the tasks it keeps from running go on.                        *)
ExportEnds == read_sd_flag ~> ~read_sd_flag

(* An export over RS-485 faster than 2400 baud sends each slot of the log  *)
(* once, newest first, and whole: lost acknowledgements, error interrupts  *)
(* and an answer on its way at its start cost no record; a slot that could *)
(* not be read is sent as the record before it.                            *)
Slot(k) == IF k <= Newest + 1 THEN Newest + 1 - k ELSE Newest + 1 + MAX_RECORDS - k
ExportIsComplete ==
  pc = "done" /\ SD_MODE = 0 /\ ~slow =>
    /\ Len(out) = MAX_RECORDS
    /\ \A k \in 1..MAX_RECORDS : Slot(k) \notin unread => out[k] = Slot(k)

(* What the proof of RequestsAnswered needs to know of ENABLED, which is   *)
(* beyond the proof system: in these states the fair action can be taken   *)
(* and changes a variable.  The superloop only ever waits for a record to  *)
(* be out.  An invariant of Spec.                                          *)
Held == pc = "waittx" /\ ~tx_complete_PC_sd /\ ~slow /\ tx # "idle"
WhenEnabled ==
  /\ ~Held => ENABLED <<Superloop>>_vars
  /\ tx # "idle" => ENABLED <<TxCplt>>_vars
  /\ waiting /\ Listening => ENABLED <<AskAgain>>_vars
=============================================================================
