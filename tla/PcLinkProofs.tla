---------------------------- MODULE PcLinkProofs ----------------------------
(***************************************************************************)
(* The proofs that the RS-485 line goes deaf only in the four ways that    *)
(* ListensUnlessLost names, and that an export faster than 2400 baud sends *)
(* every slot once, for a log of any size.  The induction for the first    *)
(* follows who holds the line: a transmission keeps the transceiver        *)
(* (SendersHoldTheLine), a transmission given up has a cause (CutIsCaused) *)
(* and so has a reception that is not armed (OffIsCaused). Requests are    *)
(* answered (RequestsGetAnswers) once the line is settled: from FairSpec,  *)
(* WhenEnabled and exports that end.                                       *)
(***************************************************************************)
EXTENDS PcLink, TLAPS

Sending == {"record", "waittx", "waitack", "next", "end"}

SendersHoldTheLine == tx # "idle" => dir = "tx"

CutIsCaused ==
  dir = "tx" /\ tx = "idle" =>
    lost \in {"mangled", "exportStart"} \/ (lost = "exportEnd" /\ slow)

OffIsCaused ==
  rx = "off" => \/ tx # "idle" \/ frame # NoFrame
                \/ PC_UART_Error_Flag \/ lost = "taken"

(* A request waits behind no transmission but those of an export.          *)
RequestWaitsAlone == frame # NoFrame /\ pc \notin Sending => tx = "idle"

(* Within an export only a slow line still sends when the next step begins. *)
RecordIsOut ==
  /\ pc \in Sending => tx # "answer"
  /\ pc \in {"record", "next", "end"} => tx = "idle" \/ slow
  /\ pc = "waittx" /\ tx_complete_PC_sd => tx = "idle"
  /\ pc = "waitack" => tx = "idle"

IInv == /\ TypeOK /\ SendersHoldTheLine /\ CutIsCaused /\ OffIsCaused
        /\ RequestWaitsAlone /\ RecordIsOut

Exporting == pc \in {"sd", "open", "failed", "done"} \cup Sending => read_sd_flag

(* How far an export over RS-485 has come, from the records that are out.  *)
SentSoFar ==
  /\ Len(out) \in 0..MAX_RECORDS
  /\ \A k \in 1..Len(out) : Slot(k) \notin unread => out[k] = Slot(k)
Ahead  == Len(out) < MAX_RECORDS /\ i = Slot(Len(out) + 1)
Behind == Len(out) > 0 /\ i = Slot(Len(out))

Progress ==
  SD_MODE = 0 /\ ~slow =>
    /\ pc \in Sending \cup {"done"} => SentSoFar
    /\ pc = "record" => Ahead
    /\ pc = "waittx" =>
         \/ /\ ~tx_complete_PC_sd /\ tx = "record" /\ Ahead
            /\ read_sd_logs = i \/ i \in unread
         \/ tx_complete_PC_sd /\ Behind
    /\ pc \in {"waitack", "next"} => Behind
    /\ pc \in {"end", "done"} => Len(out) = MAX_RECORDS
    /\ pc = "done" => tx = "idle"

ExportInv == Exporting /\ Progress

USE RecordsAssumption, LimitAssumption DEF RecordsAssumption, LimitAssumption

-----------------------------------------------------------------------------
(* Every variable keeps its type.                                          *)

LEMMA Kinded ==
  /\ NoFrame \notin Requests /\ Unknown \in Requests
  /\ \A f \in Requests : f # Unknown => f.kind \in Kinds
  /\ \A f \in Requests : f.kind \in Kinds \cup {"unknown"}
  BY DEF NoFrame, Requests, Unknown, Kinds

LEMMA Slots ==
  /\ Newest \in 0..(MAX_RECORDS - 1)
  /\ \A k \in 0..(MAX_RECORDS - 1) : Before(k) \in 0..(MAX_RECORDS - 1)
  BY DEF Newest, Before

FlagsOK ==
  /\ frame_recv_PC_sd \in BOOLEAN /\ tx_complete_PC_sd \in BOOLEAN
  /\ PC_UART_Error_Flag \in BOOLEAN /\ read_sd_flag \in BOOLEAN
  /\ slow \in BOOLEAN /\ g_sd_present \in BOOLEAN /\ waiting \in BOOLEAN

LineOK ==
  /\ dir \in {"rx", "tx"} /\ rx \in {"pc", "sd", "off"}
  /\ tx \in {"idle", "answer", "record", "torn"}
  /\ frame \in Requests \cup {NoFrame}
  /\ pc \in {"frame", "write", "error", "others", "sd", "open", "record", "waittx",
             "waitack", "next", "end", "done", "failed"}
  /\ write \in {"none"} \cup (Kinds \ {"read"})
  /\ lost \in {"no", "mangled", "refusal", "acknowledged", "exportStart", "exportEnd", "taken"}

ExportOK ==
  /\ SD_MODE \in {0, 1}
  /\ i \in 0..(MAX_RECORDS - 1) /\ read_sd_logs \in 0..(MAX_RECORDS - 1)
  /\ server_fail_cnt \in 0..(FailLimit - 1)
  /\ out \in Seq(0..MAX_RECORDS)
  /\ unread \subseteq 0..(MAX_RECORDS - 1)

LEMMA TypeParts == TypeOK <=> FlagsOK /\ LineOK /\ ExportOK
  BY DEF TypeOK, FlagsOK, LineOK, ExportOK

LEMMA TypeInit == Init => TypeOK
  <1> SUFFICES ASSUME Init PROVE TypeOK
    OBVIOUS
  <1>1. FlagsOK
    BY Zenon DEF Init, FlagsOK
  <1>2. LineOK
    BY DEF Init, LineOK
  <1>3. ExportOK
    BY Slots DEF Init, ExportOK
  <1> QED
    BY <1>1, <1>2, <1>3, TypeParts

LEMMA InstalledFlags ==
  ASSUME FlagsOK, NEW kind, Installed(kind)
  PROVE  read_sd_flag' \in BOOLEAN /\ slow' \in BOOLEAN
  <1>1. read_sd_flag' \in BOOLEAN
    <2>1. read_sd_flag' = (kind \in {"export", "both"})
      BY Zenon DEF Installed
    <2> QED
      BY <2>1, SMT
  <1>2. slow' \in BOOLEAN
    BY Zenon DEF Installed, FlagsOK
  <1> QED
    BY <1>1, <1>2

LEMMA MenuFlags ==
  ASSUME FlagsOK, MenuSave
  PROVE  read_sd_flag' \in BOOLEAN /\ slow' \in BOOLEAN
  <1> PICK asked \in BOOLEAN, baud \in BOOLEAN :
         /\ read_sd_flag' = (asked \/ read_sd_flag)
         /\ IF baud THEN ReInit /\ slow' \in BOOLEAN ELSE UNCHANGED <<uart, lost, slow>>
    BY Zenon DEF MenuSave
  <1>1. read_sd_flag' \in BOOLEAN
    BY Zenon
  <1>2. slow' \in BOOLEAN
    BY Zenon DEF FlagsOK
  <1> QED
    BY <1>1, <1>2

LEMMA FlagsStep ==
  ASSUME FlagsOK, [Next]_vars
  PROVE  FlagsOK'
  <1> USE DEF FlagsOK
  <1>1. CASE NoRequest
    BY <1>1 DEF NoRequest, uart, flags, config, export
  <1>2. CASE Answer
    BY <1>2 DEF Answer, Transmit, uart, flags, config, export
  <1>3. CASE Refuse
    BY <1>3 DEF Refuse, Restart, uart, flags, config, export
  <1>4. CASE Write
    <2>1. read_sd_flag' \in BOOLEAN /\ slow' \in BOOLEAN
      BY <1>4, InstalledFlags, Zenon DEF Write, config
    <2> QED
      BY <1>4, <2>1, Zenon DEF Write, flags
  <1>5. CASE HandleError
    BY <1>5 DEF HandleError, ReInit, uart, flags, config, export
  <1>6. CASE Others
    BY <1>6 DEF Others, uart, flags, config, export
  <1>7. CASE OthersWrite
    <2>1. read_sd_flag' \in BOOLEAN /\ slow' \in BOOLEAN
      BY <1>7, InstalledFlags, MenuFlags, Zenon DEF OthersWrite
    <2> QED
      BY <1>7, <2>1, Zenon DEF OthersWrite, flags
  <1>8. CASE StartExport
    BY <1>8 DEF StartExport, uart, flags, config, export
  <1>9. CASE OpenFailed
    BY <1>9 DEF OpenFailed, uart, flags, config, export
  <1>10. CASE OpenHistory
    BY <1>10 DEF OpenHistory, Restart, Newest, uart, flags, config, export
  <1>11. CASE SendRecord
    BY <1>11 DEF SendRecord, Transmit, ReadRecord, uart, flags, config, export
  <1>12. CASE SendRecordTcp
    BY <1>12 DEF SendRecordTcp, ReadRecord, uart, flags, config, export
  <1>13. CASE TxWaited
    BY <1>13 DEF TxWaited, uart, flags, config, export
  <1>14. CASE TxTimeOut
    BY <1>14 DEF TxTimeOut, uart, flags, config, export
  <1>15. CASE AckWaited
    BY <1>15 DEF AckWaited, Restart, uart, flags, config, export
  <1>16. CASE AckTimeOut
    BY <1>16 DEF AckTimeOut, uart, flags, config, export
  <1>17. CASE NextRecord
    BY <1>17 DEF NextRecord, Before, Newest, uart, flags, config, export
  <1>18. CASE EndExport
    BY <1>18 DEF EndExport, Restart, uart, flags, config, export
  <1>19. CASE Done
    BY <1>19 DEF Done, uart, flags, config, export
  <1>20. CASE FailUncounted
    BY <1>20 DEF FailUncounted, uart, flags, config, export
  <1>21. CASE FailCounted
    BY <1>21 DEF FailCounted, GivenUp, uart, flags, config, export
  <1>22. CASE TxCplt
    BY <1>22 DEF TxCplt, Torn, uart, flags, config, export
  <1>23. CASE UartError
    BY <1>23 DEF UartError, Listening, uart, flags, config, export
  <1>24. ASSUME NEW req \in Requests, Ask(req) PROVE FlagsOK'
    BY <1>24 DEF Ask, RxEvent, Listening, uart, flags, config, export
  <1>25. CASE UNCHANGED vars
    BY <1>25 DEF vars, uart, flags, config, export
  <1> QED
    BY <1>1, <1>2, <1>3, <1>4, <1>5, <1>6, <1>7, <1>8, <1>9, <1>10, <1>11, <1>12,
       <1>13, <1>14, <1>15, <1>16, <1>17, <1>18, <1>19, <1>20, <1>21, <1>22, <1>23, <1>24, <1>25
       DEF Next, Superloop, PcTask, Export

LEMMA LineStep ==
  ASSUME FlagsOK, LineOK, [Next]_vars
  PROVE  LineOK'
  <1> USE DEF LineOK
  <1>1. CASE NoRequest
    BY <1>1 DEF NoRequest, uart, flags, config, export
  <1>2. CASE Answer
    BY <1>2 DEF Answer, Transmit, uart, flags, config, export
  <1>3. CASE Refuse
    BY <1>3 DEF Refuse, Restart, uart, flags, config, export
  <1>4. CASE Write
    BY <1>4 DEF Write, Installed, ReInit, uart, flags, config, export
  <1>5. CASE HandleError
    BY <1>5 DEF HandleError, ReInit, uart, flags, config, export
  <1>6. CASE Others
    BY <1>6 DEF Others, uart, flags, config, export
  <1>7. CASE OthersWrite
    BY <1>7 DEF OthersWrite, Installed, MenuSave, ReInit, uart, flags, config, export
  <1>8. CASE StartExport
    BY <1>8 DEF StartExport, uart, flags, config, export
  <1>9. CASE OpenFailed
    BY <1>9 DEF OpenFailed, uart, flags, config, export
  <1>10. CASE OpenHistory
    BY <1>10 DEF OpenHistory, Restart, Newest, uart, flags, config, export
  <1>11. CASE SendRecord
    BY <1>11 DEF SendRecord, Transmit, ReadRecord, uart, flags, config, export
  <1>12. CASE SendRecordTcp
    BY <1>12 DEF SendRecordTcp, ReadRecord, uart, flags, config, export
  <1>13. CASE TxWaited
    BY <1>13 DEF TxWaited, uart, flags, config, export
  <1>14. CASE TxTimeOut
    BY <1>14 DEF TxTimeOut, uart, flags, config, export
  <1>15. CASE AckWaited
    BY <1>15 DEF AckWaited, Restart, uart, flags, config, export
  <1>16. CASE AckTimeOut
    BY <1>16 DEF AckTimeOut, uart, flags, config, export
  <1>17. CASE NextRecord
    BY <1>17 DEF NextRecord, Before, Newest, uart, flags, config, export
  <1>18. CASE EndExport
    BY <1>18 DEF EndExport, Restart, uart, flags, config, export
  <1>19. CASE Done
    BY <1>19 DEF Done, uart, flags, config, export
  <1>20. CASE FailUncounted
    BY <1>20 DEF FailUncounted, uart, flags, config, export
  <1>21. CASE FailCounted
    BY <1>21 DEF FailCounted, GivenUp, uart, flags, config, export
  <1>22. CASE TxCplt
    BY <1>22 DEF TxCplt, Torn, uart, flags, config, export
  <1>23. CASE UartError
    BY <1>23 DEF UartError, Listening, uart, flags, config, export
  <1>24. ASSUME NEW req \in Requests, Ask(req) PROVE LineOK'
    BY <1>24, Kinded DEF Ask, RxEvent, Listening, uart, flags, config, export
  <1>25. CASE UNCHANGED vars
    BY <1>25 DEF vars, uart, flags, config, export
  <1> QED
    BY <1>1, <1>2, <1>3, <1>4, <1>5, <1>6, <1>7, <1>8, <1>9, <1>10, <1>11, <1>12,
       <1>13, <1>14, <1>15, <1>16, <1>17, <1>18, <1>19, <1>20, <1>21, <1>22, <1>23, <1>24, <1>25
       DEF Next, Superloop, PcTask, Export

LEMMA OutType ==
  ASSUME out \in Seq(0..MAX_RECORDS), NEW n \in 0..MAX_RECORDS
  PROVE  Append(out, n) \in Seq(0..MAX_RECORDS)
  OBVIOUS

LEMMA ExportStep ==
  ASSUME ExportOK, [Next]_vars
  PROVE  ExportOK'
  <1> USE DEF ExportOK
  <1>1. CASE NoRequest
    BY <1>1 DEF NoRequest, uart, flags, config, export
  <1>2. CASE Answer
    BY <1>2 DEF Answer, Transmit, uart, flags, config, export
  <1>3. CASE Refuse
    BY <1>3 DEF Refuse, Restart, uart, flags, config, export
  <1>4. CASE Write
    BY <1>4 DEF Write, Installed, ReInit, uart, flags, config, export
  <1>5. CASE HandleError
    BY <1>5 DEF HandleError, ReInit, uart, flags, config, export
  <1>6. CASE Others
    BY <1>6 DEF Others, uart, flags, config, export
  <1>7. CASE OthersWrite
    BY <1>7 DEF OthersWrite, Installed, MenuSave, ReInit, uart, flags, config, export
  <1>8. CASE StartExport
    BY <1>8 DEF StartExport, uart, flags, config, export
  <1>9. CASE OpenFailed
    BY <1>9 DEF OpenFailed, uart, flags, config, export
  <1>10. CASE OpenHistory
    BY <1>10 DEF OpenHistory, Restart, Newest, uart, flags, config, export
  <1>11. CASE SendRecord
    BY <1>11 DEF SendRecord, Transmit, ReadRecord, uart, flags, config, export
  <1>12. CASE SendRecordTcp
    <2>1. /\ read_sd_logs' \in 0..(MAX_RECORDS - 1)
          /\ unread' \subseteq 0..(MAX_RECORDS - 1)
          /\ UNCHANGED <<SD_MODE, i, server_fail_cnt>>
      BY <1>12 DEF SendRecordTcp, ReadRecord, config
    <2>2. out' \in Seq(0..MAX_RECORDS)
      BY <1>12, <2>1, OutType DEF SendRecordTcp
    <2> QED
      BY <2>1, <2>2
  <1>13. CASE TxWaited
    BY <1>13 DEF TxWaited, uart, flags, config, export
  <1>14. CASE TxTimeOut
    BY <1>14 DEF TxTimeOut, uart, flags, config, export
  <1>15. CASE AckWaited
    BY <1>15 DEF AckWaited, Restart, uart, flags, config, export
  <1>16. CASE AckTimeOut
    BY <1>16 DEF AckTimeOut, uart, flags, config, export
  <1>17. CASE NextRecord
    BY <1>17 DEF NextRecord, Before, Newest, uart, flags, config, export
  <1>18. CASE EndExport
    BY <1>18 DEF EndExport, Restart, uart, flags, config, export
  <1>19. CASE Done
    BY <1>19 DEF Done, uart, flags, config, export
  <1>20. CASE FailUncounted
    BY <1>20 DEF FailUncounted, uart, flags, config, export
  <1>21. CASE FailCounted
    BY <1>21 DEF FailCounted, GivenUp, uart, flags, config, export
  <1>22. CASE TxCplt
    <2>1. UNCHANGED <<SD_MODE, i, read_sd_logs, server_fail_cnt, unread>>
      BY <1>22 DEF TxCplt, config
    <2>2. out' \in {Append(out, read_sd_logs), Append(out, Torn), out}
      BY <1>22 DEF TxCplt
    <2>3. Torn \in 0..MAX_RECORDS /\ read_sd_logs \in 0..MAX_RECORDS
      BY DEF Torn
    <2> QED
      BY <2>1, <2>2, <2>3, OutType
  <1>23. CASE UartError
    BY <1>23 DEF UartError, Listening, uart, flags, config, export
  <1>24. ASSUME NEW req \in Requests, Ask(req) PROVE ExportOK'
    BY <1>24 DEF Ask, RxEvent, Listening, uart, flags, config, export
  <1>25. CASE UNCHANGED vars
    BY <1>25 DEF vars, uart, flags, config, export
  <1> QED
    BY <1>1, <1>2, <1>3, <1>4, <1>5, <1>6, <1>7, <1>8, <1>9, <1>10, <1>11, <1>12,
       <1>13, <1>14, <1>15, <1>16, <1>17, <1>18, <1>19, <1>20, <1>21, <1>22, <1>23, <1>24, <1>25
       DEF Next, Superloop, PcTask, Export

LEMMA TypeStep == TypeOK /\ [Next]_vars => TypeOK'
  <1> SUFFICES ASSUME TypeOK, [Next]_vars PROVE TypeOK'
    OBVIOUS
  <1>1. FlagsOK' /\ LineOK' /\ ExportOK'
    BY TypeParts, FlagsStep, LineStep, ExportStep
  <1> QED
    BY <1>1 DEF TypeOK, FlagsOK, LineOK, ExportOK

(* Type correctness of the line, the export and the superloop, for a log   *)
(* of any size and any limit of failures.                                  *)
THEOREM LineTypes == Spec => []TypeOK
  BY TypeInit, TypeStep, PTL DEF Spec

-----------------------------------------------------------------------------
(* The line.                                                               *)

LineInv == SendersHoldTheLine /\ CutIsCaused /\ OffIsCaused /\ RequestWaitsAlone /\ RecordIsOut

LEMMA LineInvStep ==
  ASSUME LineOK, LineInv, [Next]_vars
  PROVE  LineInv'
  <1> USE DEF LineOK, LineInv, SendersHoldTheLine, CutIsCaused, OffIsCaused,
              RequestWaitsAlone, RecordIsOut, Sending
  <1>1. CASE NoRequest
    BY <1>1 DEF NoRequest, uart, flags, config, export
  <1>2. CASE Answer
    BY <1>2 DEF Answer, Transmit, uart, flags, config, export
  <1>3. CASE Refuse
    BY <1>3, Kinded DEF Refuse, Restart, uart, flags, config, export
  <1>4. CASE Write
    BY <1>4 DEF Write, Installed, ReInit, uart, flags, config, export
  <1>5. CASE HandleError
    BY <1>5 DEF HandleError, ReInit, uart, flags, config, export
  <1>6. CASE Others
    BY <1>6 DEF Others, uart, flags, config, export
  <1>7. CASE OthersWrite
    BY <1>7 DEF OthersWrite, Installed, MenuSave, ReInit, uart, flags, config, export
  <1>8. CASE StartExport
    BY <1>8 DEF StartExport, uart, flags, config, export
  <1>9. CASE OpenFailed
    BY <1>9 DEF OpenFailed, uart, flags, config, export
  <1>10. CASE OpenHistory
    BY <1>10 DEF OpenHistory, Restart, Newest, uart, flags, config, export
  <1>11. CASE SendRecord
    BY <1>11 DEF SendRecord, Transmit, ReadRecord, uart, flags, config, export
  <1>12. CASE SendRecordTcp
    BY <1>12 DEF SendRecordTcp, ReadRecord, uart, flags, config, export
  <1>13. CASE TxWaited
    BY <1>13 DEF TxWaited, uart, flags, config, export
  <1>14. CASE TxTimeOut
    BY <1>14 DEF TxTimeOut, uart, flags, config, export
  <1>15. CASE AckWaited
    BY <1>15 DEF AckWaited, Restart, uart, flags, config, export
  <1>16. CASE AckTimeOut
    BY <1>16 DEF AckTimeOut, uart, flags, config, export
  <1>17. CASE NextRecord
    BY <1>17 DEF NextRecord, Before, Newest, uart, flags, config, export
  <1>18. CASE EndExport
    BY <1>18 DEF EndExport, Restart, uart, flags, config, export
  <1>19. CASE Done
    BY <1>19 DEF Done, uart, flags, config, export
  <1>20. CASE FailUncounted
    BY <1>20 DEF FailUncounted, uart, flags, config, export
  <1>21. CASE FailCounted
    BY <1>21 DEF FailCounted, GivenUp, uart, flags, config, export
  <1>22. CASE TxCplt
    BY <1>22 DEF TxCplt, Torn, uart, flags, config, export
  <1>23. CASE UartError
    BY <1>23 DEF UartError, Listening, uart, flags, config, export
  <1>24. ASSUME NEW req \in Requests, Ask(req) PROVE LineInv'
    BY <1>24, Kinded DEF Ask, RxEvent, Listening, uart, flags, config, export
  <1>25. CASE UNCHANGED vars
    BY <1>25 DEF vars, uart, flags, config, export
  <1> QED
    BY <1>1, <1>2, <1>3, <1>4, <1>5, <1>6, <1>7, <1>8, <1>9, <1>10, <1>11, <1>12,
       <1>13, <1>14, <1>15, <1>16, <1>17, <1>18, <1>19, <1>20, <1>21, <1>22, <1>23, <1>24, <1>25
       DEF Next, Superloop, PcTask, Export

LEMMA LineInductive == Spec => []IInv
  <1>1. Init => IInv
    BY TypeInit DEF Init, IInv, SendersHoldTheLine, CutIsCaused, OffIsCaused,
                    RequestWaitsAlone, RecordIsOut, Sending
  <1>2. IInv /\ [Next]_vars => IInv'
    BY TypeStep, TypeParts, LineInvStep DEF IInv, LineInv
  <1> QED
    BY <1>1, <1>2, PTL DEF Spec

(* The line goes deaf only in the four ways named: for every order of      *)
(* requests, interrupts, writes and exports the list is complete.          *)
THEOREM LineCorrect == Spec => []ListensUnlessLost
  <1>1. IInv => ListensUnlessLost
    BY DEF IInv, TypeOK, CutIsCaused, OffIsCaused, ListensUnlessLost, Deaf, Listening
  <1> QED
    BY <1>1, LineInductive, PTL

-----------------------------------------------------------------------------
(* The export.                                                             *)

LEMMA SlotsInOrder ==
  /\ Slot(1) = Newest
  /\ \A k \in 1..(MAX_RECORDS - 1) : Before(Slot(k)) = Slot(k + 1) /\ Slot(k + 1) # Newest
  /\ Before(Slot(MAX_RECORDS)) = Newest
  BY DEF Slot, Newest, Before

LEMMA ExportingStep ==
  ASSUME Exporting, [Next]_vars
  PROVE  Exporting'
  <1> USE DEF Exporting, Sending
  <1>1. CASE NoRequest
    BY <1>1 DEF NoRequest, uart, flags, config, export
  <1>2. CASE Answer
    BY <1>2 DEF Answer, Transmit, uart, flags, config, export
  <1>3. CASE Refuse
    BY <1>3 DEF Refuse, Restart, uart, flags, config, export
  <1>4. CASE Write
    BY <1>4 DEF Write, Installed, ReInit, uart, flags, config, export
  <1>5. CASE HandleError
    BY <1>5 DEF HandleError, ReInit, uart, flags, config, export
  <1>6. CASE Others
    BY <1>6 DEF Others, uart, flags, config, export
  <1>7. CASE OthersWrite
    BY <1>7 DEF OthersWrite, Installed, MenuSave, ReInit, uart, flags, config, export
  <1>8. CASE StartExport
    BY <1>8 DEF StartExport, uart, flags, config, export
  <1>9. CASE OpenFailed
    BY <1>9 DEF OpenFailed, uart, flags, config, export
  <1>10. CASE OpenHistory
    BY <1>10 DEF OpenHistory, Restart, Newest, uart, flags, config, export
  <1>11. CASE SendRecord
    BY <1>11 DEF SendRecord, Transmit, ReadRecord, uart, flags, config, export
  <1>12. CASE SendRecordTcp
    BY <1>12 DEF SendRecordTcp, ReadRecord, uart, flags, config, export
  <1>13. CASE TxWaited
    BY <1>13 DEF TxWaited, uart, flags, config, export
  <1>14. CASE TxTimeOut
    BY <1>14 DEF TxTimeOut, uart, flags, config, export
  <1>15. CASE AckWaited
    BY <1>15 DEF AckWaited, Restart, uart, flags, config, export
  <1>16. CASE AckTimeOut
    BY <1>16 DEF AckTimeOut, uart, flags, config, export
  <1>17. CASE NextRecord
    BY <1>17 DEF NextRecord, Before, Newest, uart, flags, config, export
  <1>18. CASE EndExport
    BY <1>18 DEF EndExport, Restart, uart, flags, config, export
  <1>19. CASE Done
    BY <1>19 DEF Done, uart, flags, config, export
  <1>20. CASE FailUncounted
    BY <1>20 DEF FailUncounted, uart, flags, config, export
  <1>21. CASE FailCounted
    BY <1>21 DEF FailCounted, GivenUp, uart, flags, config, export
  <1>22. CASE TxCplt
    BY <1>22 DEF TxCplt, Torn, uart, flags, config, export
  <1>23. CASE UartError
    BY <1>23 DEF UartError, Listening, uart, flags, config, export
  <1>24. ASSUME NEW req \in Requests, Ask(req) PROVE Exporting'
    BY <1>24 DEF Ask, RxEvent, Listening, uart, flags, config, export
  <1>25. CASE UNCHANGED vars
    BY <1>25 DEF vars, uart, flags, config, export
  <1> QED
    BY <1>1, <1>2, <1>3, <1>4, <1>5, <1>6, <1>7, <1>8, <1>9, <1>10, <1>11, <1>12,
       <1>13, <1>14, <1>15, <1>16, <1>17, <1>18, <1>19, <1>20, <1>21, <1>22, <1>23, <1>24, <1>25
       DEF Next, Superloop, PcTask, Export

(* A record that is out is the one the next slot calls for.                *)
LEMMA RecordIsNext ==
  ASSUME TypeOK, SentSoFar, Ahead, NEW r, r = i \/ i \in unread,
         out' = Append(out, r), i' = i, unread' = unread
  PROVE  SentSoFar' /\ Behind'
  <1>1. out \in Seq(0..MAX_RECORDS)
    BY DEF TypeOK
  <1>2. /\ Len(out') = Len(out) + 1
        /\ \A k \in 1..Len(out) : out'[k] = out[k]
        /\ out'[Len(out) + 1] = r
    BY <1>1
  <1>3. Len(out) \in Nat
    BY <1>1
  <1> QED
    BY <1>2, <1>3 DEF SentSoFar, Ahead, Behind

LEMMA ProgressStep ==
  ASSUME TypeOK, LineInv, Exporting, Progress, [Next]_vars
  PROVE  Progress'
  <1> USE DEF Progress, Sending
  <1>1. CASE NoRequest
    BY <1>1 DEF NoRequest, uart, flags, config, export, SentSoFar, Ahead, Behind
  <1>2. CASE Answer
    BY <1>2 DEF Answer, Transmit, uart, flags, config, export, SentSoFar, Ahead, Behind
  <1>3. CASE Refuse
    BY <1>3 DEF Refuse, Restart, uart, flags, config, export, SentSoFar, Ahead, Behind
  <1>4. CASE Write
    BY <1>4 DEF Write, Installed, ReInit, uart, flags, config, export, SentSoFar, Ahead, Behind
  <1>5. CASE HandleError
    BY <1>5 DEF HandleError, ReInit, uart, flags, config, export, SentSoFar, Ahead, Behind
  <1>6. CASE Others
    BY <1>6 DEF Others, uart, flags, config, export, SentSoFar, Ahead, Behind
  <1>7. CASE OthersWrite
    BY <1>7 DEF OthersWrite, Installed, MenuSave, ReInit, uart, flags, config, export, SentSoFar, Ahead, Behind
  <1>8. CASE StartExport
    BY <1>8 DEF StartExport, uart, flags, config, export, SentSoFar, Ahead, Behind
  <1>9. CASE OpenFailed
    BY <1>9 DEF OpenFailed, uart, flags, config, export, SentSoFar, Ahead, Behind
  <1>10. CASE OpenHistory
    <2>1. Len(out') = 0 /\ i' = Slot(1)
      BY <1>10, SlotsInOrder DEF OpenHistory
    <2> QED
      BY <1>10, <2>1 DEF OpenHistory, SentSoFar, Ahead
  <1>11. CASE SendRecord
    <2> SUFFICES ASSUME SD_MODE = 0, ~slow PROVE Progress'
      BY <1>11 DEF SendRecord, config
    <2>1. SentSoFar /\ Ahead /\ tx = "idle"
      BY <1>11 DEF SendRecord, LineInv, RecordIsOut
    <2>2. /\ pc' = "waittx" /\ ~tx_complete_PC_sd' /\ tx' = "record"
          /\ UNCHANGED <<i, out>>
      BY <1>11, <2>1 DEF SendRecord, Transmit
    <2>3. unread \subseteq unread' /\ (read_sd_logs' = i \/ i \in unread')
      BY <1>11 DEF SendRecord, ReadRecord
    <2> QED
      BY <2>1, <2>2, <2>3 DEF SentSoFar, Ahead
  <1>12. CASE SendRecordTcp
    BY <1>12 DEF SendRecordTcp, ReadRecord, uart, flags, config, export, SentSoFar, Ahead, Behind
  <1>13. CASE TxWaited
    BY <1>13 DEF TxWaited, uart, flags, config, export, SentSoFar, Ahead, Behind
  <1>14. CASE TxTimeOut
    BY <1>14 DEF TxTimeOut, uart, flags, config, export, SentSoFar, Ahead, Behind
  <1>15. CASE AckWaited
    BY <1>15 DEF AckWaited, Restart, uart, flags, config, export, SentSoFar, Ahead, Behind
  <1>16. CASE AckTimeOut
    BY <1>16 DEF AckTimeOut, uart, flags, config, export, SentSoFar, Ahead, Behind
  <1>17. CASE NextRecord
    <2> SUFFICES ASSUME SD_MODE = 0, ~slow PROVE Progress'
      BY <1>17 DEF NextRecord, config
    <2>1. SentSoFar /\ Behind
      BY <1>17 DEF NextRecord
    <2>2. UNCHANGED <<out, unread>> /\ i' = Before(i)
      BY <1>17 DEF NextRecord
    <2>3. CASE Len(out) = MAX_RECORDS
      BY <1>17, <2>1, <2>2, <2>3, SlotsInOrder DEF NextRecord, SentSoFar, Behind
    <2>4. CASE Len(out) # MAX_RECORDS
      <3>1. Len(out) \in 1..(MAX_RECORDS - 1)
        BY <2>1, <2>4 DEF SentSoFar, Behind
      <3>2. i' = Slot(Len(out) + 1) /\ i' # Newest
        BY <2>1, <2>2, <3>1, SlotsInOrder DEF Behind
      <3> QED
        BY <1>17, <2>1, <2>2, <3>1, <3>2 DEF NextRecord, SentSoFar, Ahead
    <2> QED
      BY <2>3, <2>4
  <1>18. CASE EndExport
    BY <1>18 DEF EndExport, Restart, uart, flags, config, export, SentSoFar, Ahead, Behind
  <1>19. CASE Done
    BY <1>19 DEF Done, uart, flags, config, export, SentSoFar, Ahead, Behind
  <1>20. CASE FailUncounted
    BY <1>20 DEF FailUncounted, uart, flags, config, export, SentSoFar, Ahead, Behind
  <1>21. CASE FailCounted
    BY <1>21 DEF FailCounted, GivenUp, uart, flags, config, export, SentSoFar, Ahead, Behind
  <1>22. CASE TxCplt
    <2> SUFFICES ASSUME SD_MODE = 0, ~slow, pc \in Sending \cup {"done"} PROVE Progress'
      BY <1>22 DEF TxCplt, config
    <2>1. /\ pc = "waittx" /\ tx = "record" /\ SentSoFar /\ Ahead
          /\ read_sd_logs = i \/ i \in unread
      BY <1>22 DEF TxCplt, LineInv, RecordIsOut
    <2>2. /\ out' = Append(out, read_sd_logs)
          /\ UNCHANGED <<i, unread, pc>> /\ tx_complete_PC_sd'
      BY <1>22, <2>1 DEF TxCplt, Exporting
    <2>3. SentSoFar' /\ Behind'
      BY <2>1, <2>2, RecordIsNext
    <2> QED
      BY <2>1, <2>2, <2>3
  <1>23. CASE UartError
    BY <1>23 DEF UartError, Listening, uart, flags, config, export, SentSoFar, Ahead, Behind
  <1>24. ASSUME NEW req \in Requests, Ask(req) PROVE Progress'
    BY <1>24 DEF Ask, RxEvent, Listening, uart, flags, config, export, SentSoFar, Ahead, Behind
  <1>25. CASE UNCHANGED vars
    BY <1>25 DEF vars, uart, flags, config, export, SentSoFar, Ahead, Behind
  <1> QED
    BY <1>1, <1>2, <1>3, <1>4, <1>5, <1>6, <1>7, <1>8, <1>9, <1>10, <1>11, <1>12,
       <1>13, <1>14, <1>15, <1>16, <1>17, <1>18, <1>19, <1>20, <1>21, <1>22, <1>23, <1>24, <1>25
       DEF Next, Superloop, PcTask, Export

LEMMA ExportInductive == Spec => [](IInv /\ ExportInv)
  <1>1. Init => ExportInv
    BY DEF Init, ExportInv, Exporting, Progress, Sending
  <1>2. IInv /\ ExportInv /\ [Next]_vars => ExportInv'
    BY ExportingStep, ProgressStep DEF ExportInv, IInv, LineInv
  <1> QED
    BY <1>1, <1>2, LineInductive, PTL DEF Spec

(* An export over RS-485 faster than 2400 baud sends every slot of a log   *)
(* of any size once and in order, whatever comes in meanwhile.             *)
THEOREM ExportCorrect == Spec => []ExportIsComplete
  <1>1. ExportInv => ExportIsComplete
    BY DEF ExportInv, Progress, SentSoFar, Sending, ExportIsComplete
  <1> QED
    BY <1>1, ExportInductive, PTL

-----------------------------------------------------------------------------
(* A request is answered, given that exports end.  When the line has become *)
(* calm, what is left of the requests before is worked off (Clean), and    *)
(* from then on every step of the line is one of those of CleanLine.       *)

WriteIsDue == write # "none" => pc = "write"

CleanFrames == {[kind |-> k, good |-> TRUE] : k \in {"read", "write"}}
DirtyFrame  == frame \notin CleanFrames \cup {NoFrame, Unknown}
DirtyWrite  == write \notin {"none", "write"}

InLoop  == pc \in {"frame", "write", "error", "others"}
J       == IInv /\ ExportInv /\ WriteIsDue
Settled == J /\ ~DirtyFrame /\ ~DirtyWrite /\ ~PC_UART_Error_Flag /\ ~read_sd_flag

LEMMA WriteIsDueStep == WriteIsDue /\ [Next]_vars => WriteIsDue'
  <1> SUFFICES ASSUME WriteIsDue, [Next]_vars PROVE WriteIsDue'
    OBVIOUS
  <1> USE DEF WriteIsDue
  <1>1. CASE PcTask
    BY <1>1 DEF PcTask, NoRequest, Answer, Refuse, Write, HandleError
  <1>2. CASE Others \/ OthersWrite
    BY <1>2 DEF Others, OthersWrite
  <1>3. CASE Export
    BY <1>3 DEF Export, StartExport, OpenFailed, OpenHistory, SendRecord, SendRecordTcp,
                TxWaited, TxTimeOut, AckWaited, AckTimeOut, NextRecord, EndExport, Done,
                FailUncounted, FailCounted
  <1>4. CASE TxCplt \/ UartError
    BY <1>4 DEF TxCplt, UartError
  <1>5. CASE \E req \in Requests : Ask(req)
    BY <1>5 DEF Ask
  <1>6. CASE UNCHANGED vars
    BY <1>6 DEF vars
  <1> QED
    BY <1>1, <1>2, <1>3, <1>4, <1>5, <1>6 DEF Next, Superloop

LEMMA AlwaysJ == Spec => []J
  <1>1. Init => WriteIsDue
    BY DEF Init, WriteIsDue
  <1> QED
    BY <1>1, WriteIsDueStep, ExportInductive, PTL DEF Spec, J

LEMMA LoopWhenNotExporting == J /\ ~read_sd_flag => InLoop
  BY DEF J, IInv, TypeOK, ExportInv, Exporting, Sending, InLoop

(* The pass of the superloop; an export returns to its beginning.          *)
LEMMA PassStep ==
  ASSUME J, <<Superloop>>_vars
  PROVE  /\ pc = "frame" => (pc' = "write" \/ pc' = "error") /\ frame' = NoFrame
         /\ pc = "write" => pc' = "error" /\ write' = "none"
         /\ pc = "error" => pc' = "others" /\ ~PC_UART_Error_Flag'
         /\ pc = "others" => pc' = "frame" \/ ~InLoop'
         /\ ~InLoop => ~InLoop' \/ pc' = "frame"
  <1> USE DEF InLoop
  <1>1. CASE NoRequest \/ Answer \/ Refuse \/ Write
    BY <1>1 DEF NoRequest, Answer, Refuse, Write, flags
  <1>4. CASE HandleError
    <2>1. pc = "error" /\ pc' = "others"
      BY <1>4 DEF HandleError
    <2>2. ~PC_UART_Error_Flag'
      BY <1>4, Zenon DEF HandleError
    <2> QED
      BY <2>1, <2>2
  <1>2. CASE Others \/ OthersWrite
    BY <1>2 DEF Others, OthersWrite
  <1>3. CASE Export
    BY <1>3 DEF Export, StartExport, OpenFailed, OpenHistory, SendRecord, SendRecordTcp,
                TxWaited, TxTimeOut, AckWaited, AckTimeOut, NextRecord, EndExport, Done,
                FailUncounted, FailCounted
  <1> QED
    BY <1>1, <1>2, <1>3, <1>4 DEF Superloop, PcTask

LEMMA OnlyThePass == [Next]_vars /\ ~<<Superloop>>_vars => pc' = pc
  BY DEF Next, TxCplt, UartError, Ask, vars

LEMMA CalmDirt ==
  ASSUME J, [Calm]_vars
  PROVE  /\ ~DirtyFrame => ~DirtyFrame'
         /\ ~DirtyFrame /\ ~DirtyWrite => ~DirtyWrite'
         /\ ~PC_UART_Error_Flag => ~PC_UART_Error_Flag'
  <1> USE DEF DirtyFrame, DirtyWrite, CleanFrames
  <1>1. CASE NoRequest \/ Refuse \/ Write \/ HandleError
    <2>1. CASE HandleError
      <3>1. ~PC_UART_Error_Flag' /\ UNCHANGED <<frame, write>>
        BY <2>1, Zenon DEF HandleError
      <3> QED
        BY <3>1
    <2> QED
      BY <1>1, <2>1 DEF NoRequest, Refuse, Write, flags
  <1>7. CASE Answer
    <2>1. ~DirtyFrame => frame.kind \in {"read", "write"}
      BY <1>7 DEF Answer, NoFrame, Unknown, Kinds
    <2> QED
      BY <1>7, <2>1 DEF Answer
  <1>2. CASE Others
    BY <1>2 DEF Others, flags
  <1>3. CASE Export
    BY <1>3 DEF Export, StartExport, OpenFailed, OpenHistory, SendRecord, SendRecordTcp,
                TxWaited, TxTimeOut, AckWaited, AckTimeOut, NextRecord, EndExport, Done,
                FailUncounted, FailCounted, flags
  <1>4. CASE TxCplt
    BY <1>4 DEF TxCplt
  <1>5. ASSUME NEW kind \in {"read", "write"}, Ask([kind |-> kind, good |-> TRUE])
        PROVE  /\ ~DirtyFrame => ~DirtyFrame'
               /\ ~DirtyFrame /\ ~DirtyWrite => ~DirtyWrite'
               /\ ~PC_UART_Error_Flag => ~PC_UART_Error_Flag'
    BY <1>5 DEF Ask, RxEvent
  <1>6. CASE UNCHANGED vars
    BY <1>6 DEF vars, flags
  <1> QED
    BY <1>1, <1>2, <1>3, <1>4, <1>5, <1>6, <1>7 DEF Calm, PcTask

(* The steps of the line once it has settled.                              *)
Still      == UNCHANGED <<uart, frame, waiting>> /\ UNCHANGED read_sd_flag
Answered   == /\ pc = "frame" /\ frame \in CleanFrames
              /\ frame' = NoFrame /\ dir' = "tx" /\ tx' = "answer" /\ tx = "idle"
              /\ UNCHANGED <<rx, waiting, read_sd_flag>>
Refused    == /\ pc = "frame" /\ frame = Unknown
              /\ frame' = NoFrame /\ rx' = "pc" /\ tx' = "idle" /\ tx = "idle"
              /\ UNCHANGED <<dir, waiting, read_sd_flag>>
Completed  == /\ tx # "idle" /\ tx' = "idle" /\ dir' = "rx" /\ rx' = "pc"
              /\ (tx = "answer" => ~waiting') /\ UNCHANGED <<frame, read_sd_flag>>
Taken      == /\ Listening /\ rx' = "off" /\ UNCHANGED <<dir, tx, read_sd_flag>>
              /\ IF rx = "pc" THEN frame' \in CleanFrames ELSE frame' = Unknown
Ignored    == ~Listening /\ UNCHANGED <<uart, frame, read_sd_flag>>

LEMMA SettledSteps ==
  ASSUME Settled, [Calm]_vars
  PROVE  (Still \/ Answered \/ Refused \/ Completed) \/ Taken \/ Ignored
  <1>1. InLoop
    BY LoopWhenNotExporting DEF Settled
  <1>2. frame # NoFrame => tx = "idle"
    BY <1>1 DEF Settled, J, IInv, RequestWaitsAlone, InLoop, Sending
  <1>3. NoFrame # Unknown /\ NoFrame \notin CleanFrames
        /\ \A f \in CleanFrames : f.kind \in Kinds /\ f.good /\ f # Unknown
    BY DEF NoFrame, Unknown, CleanFrames, Kinds
  <1>4. CASE NoRequest \/ HandleError \/ Others
    BY <1>4 DEF NoRequest, HandleError, Others, Settled, Still, uart, flags, config
  <1>5. CASE Answer
    <2>1. frame \in CleanFrames
      BY <1>3, <1>5, Kinded DEF Answer, Settled, DirtyFrame, NoFrame, Unknown, Kinds
    <2> QED
      BY <1>2, <1>3, <1>5, <2>1 DEF Answer, Transmit, Answered, config
  <1>6. CASE Refuse
    BY <1>2, <1>3, <1>6 DEF Refuse, Restart, Refused, config
  <1>7. CASE Write
    <2>1. read_sd_flag' = read_sd_flag
      <3>1. CASE write = "none"
        BY <1>7, <3>1 DEF Write, config
      <3>2. CASE write = "write"
        <4>1. read_sd_flag' = (write \in {"export", "both"})
          BY <1>7, <3>2, Zenon DEF Write, Installed
        <4>2. (write \in {"export", "both"}) = FALSE
          BY <3>2
        <4>3. read_sd_flag = FALSE
          BY Zenon DEF Settled, J, IInv, TypeOK
        <4> QED
          BY <4>1, <4>2, <4>3
      <3> QED
        BY <3>1, <3>2 DEF Settled, DirtyWrite
    <2>2. UNCHANGED <<uart, frame, waiting>>
      BY <1>7 DEF Write, Installed, Settled, DirtyWrite, uart, flags
    <2> QED
      BY <2>1, <2>2 DEF Still
  <1>8. CASE Export
    BY <1>1, <1>8 DEF Export, StartExport, OpenFailed, OpenHistory, SendRecord, SendRecordTcp,
                TxWaited, TxTimeOut, AckWaited, AckTimeOut, NextRecord, EndExport, Done,
                FailUncounted, FailCounted, InLoop
  <1>9. CASE TxCplt
    BY <1>9 DEF TxCplt, Settled, Completed, config
  <1>10. ASSUME NEW kind \in {"read", "write"}, Ask([kind |-> kind, good |-> TRUE])
         PROVE  Taken \/ Ignored
    BY <1>10 DEF Ask, RxEvent, Settled, Taken, Ignored, CleanFrames, uart, config
  <1>11. CASE UNCHANGED vars
    BY <1>11 DEF vars, uart, flags, config, Still
  <1> QED
    BY <1>4, <1>5, <1>6, <1>7, <1>8, <1>9, <1>10, <1>11 DEF Calm, PcTask

LEMMA SettledStays == Settled /\ [Calm]_vars /\ J' => Settled'
  <1> SUFFICES ASSUME Settled, [Calm]_vars, J' PROVE Settled'
    OBVIOUS
  <1>1. UNCHANGED read_sd_flag
    BY SettledSteps DEF Still, Answered, Refused, Completed, Taken, Ignored
  <1>2. ~DirtyFrame' /\ ~DirtyWrite' /\ ~PC_UART_Error_Flag'
    BY CalmDirt DEF Settled
  <1> QED
    BY <1>1, <1>2 DEF Settled

(* Nothing but a step of the superloop makes a mute line listen again.     *)
Mute  == ~Listening /\ tx = "idle" /\ frame = NoFrame
Known == frame \in CleanFrames
Ready == rx # "sd"

LEMMA FramesDiffer ==
  /\ NoFrame # Unknown /\ NoFrame \notin CleanFrames /\ Unknown \notin CleanFrames
  /\ \A f \in CleanFrames : f # NoFrame /\ f # Unknown
  BY DEF NoFrame, Unknown, CleanFrames

LEMMA CleanLine ==
  ASSUME Settled, [Calm]_vars
  PROVE  /\ Mute => Mute'
         /\ Ready => Ready'
         /\ Ready /\ frame = NoFrame => frame' = NoFrame \/ Known'
         /\ Ready /\ Known => Known' \/ tx' = "answer"
         /\ frame # NoFrame => frame' # NoFrame \/ pc = "frame"
         /\ Listening => Listening' \/ tx' = "answer" \/ frame' # NoFrame
         /\ tx = "answer" => tx' = "answer" \/ ~waiting'
         /\ tx # "idle" => tx' # "idle" \/ Ready'
  <1>1. (dir = "tx" \/ tx = "idle") /\ rx \in {"pc", "sd", "off"}
    BY DEF Settled, J, IInv, SendersHoldTheLine, TypeOK
  <1> USE SettledSteps, FramesDiffer DEF Mute, Known, Ready, Listening
  <1>2. CASE Still \/ Ignored
    BY <1>2 DEF Still, Ignored, uart
  <1>3. CASE Answered
    BY <1>1, <1>3 DEF Answered
  <1>4. CASE Refused
    BY <1>4 DEF Refused
  <1>5. CASE Completed
    BY <1>1, <1>5 DEF Completed
  <1>6. CASE Taken
    BY <1>1, <1>6 DEF Taken
  <1> QED
    BY <1>2, <1>3, <1>4, <1>5, <1>6

LEMMA FairLine ==
  ASSUME Settled
  PROVE  /\ <<TxCplt>>_vars /\ tx = "answer" => ~waiting'
         /\ <<TxCplt>>_vars => Ready' /\ tx' = "idle"
         /\ <<AskAgain>>_vars => Ready' /\ frame' # NoFrame
         /\ <<AskAgain>>_vars /\ Ready => Known'
         /\ <<Superloop>>_vars /\ pc = "frame" /\ Known => tx' = "answer"
         /\ <<Superloop>>_vars /\ pc = "frame" /\ frame = Unknown => Ready'
  <1>1. rx \in {"pc", "sd", "off"} /\ ~read_sd_flag
    BY DEF Settled, J, IInv, TypeOK
  <1>2. <<TxCplt>>_vars => /\ tx = "answer" => ~waiting'
                           /\ Ready' /\ tx' = "idle"
    BY <1>1 DEF TxCplt, Ready
  <1>3. <<AskAgain>>_vars => /\ Ready' /\ frame' # NoFrame
                             /\ Ready => Known'
    <2> SUFFICES ASSUME <<AskAgain>>_vars
                 PROVE  /\ Ready' /\ frame' # NoFrame
                        /\ Ready => Known'
      OBVIOUS
    <2>1. Listening /\ RxEvent([kind |-> "read", good |-> TRUE])
      <3>1. waiting' = (waiting \/ [kind |-> "read", good |-> TRUE].good) /\ waiting
        BY Zenon DEF AskAgain, Ask
      <3>2. waiting' = TRUE /\ waiting = TRUE
        <4>1. waiting \in BOOLEAN
          BY DEF Settled, J, IInv, TypeOK
        <4> QED
          BY <3>1, <4>1
      <3>3. \/ RxEvent([kind |-> "read", good |-> TRUE])
            \/ UNCHANGED <<uart, frame, frame_recv_PC_sd, lost>>
        BY Zenon DEF AskAgain, Ask
      <3>4. UNCHANGED <<tx_complete_PC_sd, PC_UART_Error_Flag, config, g_sd_present, pc, write, export>>
        BY DEF AskAgain, Ask
      <3>5. UNCHANGED <<uart, frame, frame_recv_PC_sd, lost>> => UNCHANGED vars
        BY <3>2, <3>4 DEF vars, flags
      <3>6. RxEvent([kind |-> "read", good |-> TRUE])
        BY <3>3, <3>5
      <3> QED
        BY <3>6 DEF RxEvent
    <2> QED
      BY <1>1, <2>1, FramesDiffer DEF RxEvent, Listening, Ready, Known, CleanFrames
  <1>4. <<Superloop>>_vars => /\ pc = "frame" /\ Known => tx' = "answer"
                              /\ pc = "frame" /\ frame = Unknown => Ready'
    <2> SUFFICES ASSUME <<Superloop>>_vars, pc = "frame"
                 PROVE  (Known => tx' = "answer") /\ (frame = Unknown => Ready')
      OBVIOUS
    <2>1. NoRequest \/ Answer \/ Refuse
      BY DEF Superloop, PcTask, Write, HandleError, Others, OthersWrite, Export, StartExport,
             OpenFailed, OpenHistory, SendRecord, SendRecordTcp, TxWaited, TxTimeOut,
             AckWaited, AckTimeOut, NextRecord, EndExport, Done, FailUncounted, FailCounted
    <2>2. \A f \in CleanFrames : f.kind \in Kinds /\ f.good
      BY DEF CleanFrames, Kinds
    <2>3. Unknown.kind \notin Kinds
      BY DEF Unknown, Kinds
    <2>4. frame # NoFrame => tx = "idle"
      BY DEF Settled, J, IInv, RequestWaitsAlone, Sending
    <2>5. Answer /\ Known => tx' = "answer"
      BY <2>2, <2>4, FramesDiffer DEF Answer, Transmit, Known
    <2>6. Refuse => Ready' /\ ~Known
      BY FramesDiffer DEF Refuse, Restart, Ready, Known
    <2> QED
      BY <2>1, <2>3, <2>5, <2>6, FramesDiffer DEF NoRequest, Answer, Known
  <1> QED
    BY <1>2, <1>3, <1>4

(* The superloop comes back to the frame of the slave again and again.     *)
LEMMA PassesEnd ==
  FairSpec /\ []WhenEnabled /\ ExportEnds => []<><<Superloop /\ pc = "frame">>_vars
  <1>1. FairSpec => []J
    BY AlwaysJ, PTL DEF FairSpec
  <1>2. J /\ ~read_sd_flag => InLoop
    BY LoopWhenNotExporting
  <1>3. InLoop <=> \/ pc = "frame" \/ pc = "write" \/ pc = "error" \/ pc = "others"
    BY DEF InLoop
  <1>4. J /\ <<Superloop>>_vars =>
          /\ pc = "frame" => (pc = "write")' \/ (pc = "error")'
          /\ pc = "write" => (pc = "error")'
          /\ pc = "error" => (pc = "others")'
          /\ pc = "others" => (pc = "frame")' \/ ~InLoop'
          /\ ~InLoop => ~InLoop' \/ (pc = "frame")'
    BY PassStep
  <1>5. [Next]_vars /\ ~<<Superloop>>_vars =>
          /\ pc = "frame" => (pc = "frame")'
          /\ pc = "write" => (pc = "write")'
          /\ pc = "error" => (pc = "error")'
          /\ pc = "others" => (pc = "others")'
          /\ ~InLoop => ~InLoop'
    BY OnlyThePass DEF InLoop
  <1>6. InLoop => ~Held
    BY DEF InLoop, Held
  <1> QED
    BY <1>1, <1>2, <1>3, <1>4, <1>5, <1>6, PTL
       DEF FairSpec, Spec, Fairness, WhenEnabled, ExportEnds

(* Once the line is calm, the requests it took before are worked off.      *)
LEMMA EventuallySettled ==
  FairSpec /\ []WhenEnabled /\ ExportEnds => <>[]Settled
  <1>1. FairSpec => []J
    BY AlwaysJ, PTL DEF FairSpec
  <1>2. J /\ [Calm]_vars =>
          /\ ~DirtyFrame => ~DirtyFrame'
          /\ ~DirtyFrame /\ ~DirtyWrite => ~DirtyWrite'
          /\ ~PC_UART_Error_Flag => ~PC_UART_Error_Flag'
    BY CalmDirt
  <1>3. J /\ <<Superloop>>_vars =>
          /\ pc = "frame" => ((pc = "write")' \/ (pc = "error")') /\ ~DirtyFrame'
          /\ pc = "write" => (pc = "error")' /\ ~DirtyWrite'
          /\ pc = "error" => ~PC_UART_Error_Flag'
    BY PassStep DEF DirtyFrame, DirtyWrite
  <1>4. [Next]_vars /\ ~<<Superloop>>_vars =>
          /\ pc = "write" => (pc = "write")'
          /\ pc = "error" => (pc = "error")'
    BY OnlyThePass
  <1>5. J /\ DirtyWrite => pc = "write"
    BY DEF J, WriteIsDue, DirtyWrite
  <1>6. Settled /\ [Calm]_vars /\ J' => Settled'
    BY SettledStays
  <1>7. J /\ ~DirtyFrame /\ ~DirtyWrite /\ ~PC_UART_Error_Flag /\ ~read_sd_flag => Settled
    BY DEF Settled
  <1>8. (pc = "write" => InLoop) /\ (pc = "error" => InLoop)
    BY DEF InLoop
  <1>10. InLoop => ~Held
    BY DEF InLoop, Held
  <1>9. <<Superloop /\ pc = "frame">>_vars => <<Superloop>>_vars /\ pc = "frame"
    OBVIOUS
  <1> QED
    BY <1>1, <1>2, <1>3, <1>4, <1>5, <1>6, <1>7, <1>8, <1>9, <1>10, PassesEnd, PTL
       DEF FairSpec, Spec, Fairness, WhenEnabled, ExportEnds

LEMMA MuteIsDeaf ==
  /\ Settled /\ Mute /\ pc # "write" => Deaf
  /\ Settled /\ Mute /\ <<Superloop>>_vars => pc' # "write"
  <1>1. Settled /\ Mute /\ pc # "write" => Deaf
    BY LoopWhenNotExporting DEF Settled, Mute, Deaf, InLoop
  <1>2. Settled /\ Mute /\ <<Superloop>>_vars => pc' # "write"
    <2>1. Settled => J
      BY DEF Settled
    <2>2. J /\ <<Superloop>>_vars /\ pc' = "write" => pc = "frame"
      <3>1. Export => pc' # "write"
        BY DEF Export, StartExport, OpenFailed, OpenHistory, SendRecord, SendRecordTcp,
               TxWaited, TxTimeOut, AckWaited, AckTimeOut, NextRecord, EndExport, Done,
               FailUncounted, FailCounted
      <3> QED
        BY <3>1 DEF Superloop, PcTask, NoRequest, Answer, Refuse, Write, HandleError, Others,
                    OthersWrite
    <2>3. pc = "frame" /\ frame = NoFrame /\ Superloop => NoRequest
      <3>1. NoFrame.kind \notin Kinds
        BY DEF NoFrame, Kinds
      <3> QED
        BY <3>1, FramesDiffer DEF Superloop, PcTask, Answer, Refuse, Write, HandleError, Others,
           OthersWrite, Export, StartExport, OpenFailed, OpenHistory, SendRecord, SendRecordTcp,
           TxWaited, TxTimeOut, AckWaited, AckTimeOut, NextRecord, EndExport, Done, FailUncounted,
           FailCounted
    <2> QED
      BY <2>1, <2>2, <2>3 DEF Mute, NoRequest
  <1> QED
    BY <1>1, <1>2

LEMMA OnlyThePassTakes ==
  [Next]_vars /\ ~<<Superloop>>_vars /\ frame # NoFrame => frame' # NoFrame
  <1>1. \A req \in Requests : req # NoFrame /\ Unknown # NoFrame
    BY Kinded
  <1> QED
    BY <1>1 DEF Next, TxCplt, UartError, Ask, RxEvent, vars, flags

(* A request of a PC that asks again is answered unless the line goes deaf *)
(* for good, provided that every export ends (which ExportEnds says and    *)
(* whose proof would need an induction over the slots of the log).         *)
THEOREM RequestsGetAnswers ==
  FairSpec /\ []WhenEnabled /\ ExportEnds => RequestsAnswered
  <1> DEFINE Idle == tx = "idle"
             Sent == tx = "answer"
             Some == frame # NoFrame
             Unk  == frame = Unknown
             AtFrame == pc = "frame"
             AtWrite == pc = "write"
  <1>1. Settled /\ [Calm]_vars =>
          /\ Mute => Mute'
          /\ Ready => Ready'
          /\ Ready /\ ~Some => ~Some' \/ Known'
          /\ Ready /\ Known => Known' \/ Sent'
          /\ Some => Some' \/ AtFrame
          /\ Listening => Listening' \/ Sent' \/ Some'
          /\ Sent => Sent' \/ ~waiting'
          /\ ~Idle => ~Idle' \/ Ready'
    BY CleanLine
  <1>2. Settled =>
          /\ <<TxCplt>>_vars /\ Sent => ~waiting'
          /\ <<TxCplt>>_vars => Ready' /\ Idle'
          /\ <<AskAgain>>_vars => Ready' /\ Some'
          /\ <<AskAgain>>_vars /\ Ready => Known'
          /\ <<Superloop /\ pc = "frame">>_vars /\ Known => Sent'
          /\ <<Superloop /\ pc = "frame">>_vars /\ Unk => Ready'
          /\ <<Superloop /\ pc = "frame">>_vars => ~Some'
    BY FairLine, PassStep DEF Settled
  <1>3. /\ Settled /\ Mute /\ ~AtWrite => Deaf
        /\ Settled /\ Mute /\ <<Superloop>>_vars => ~AtWrite'
    BY MuteIsDeaf
  <1>4. [Next]_vars /\ ~<<Superloop>>_vars => (AtWrite' <=> AtWrite) /\ (Some => Some')
    BY OnlyThePass, OnlyThePassTakes
  <1>9. <<Superloop>>_vars /\ AtFrame <=> <<Superloop /\ pc = "frame">>_vars
    OBVIOUS
  <1>5. AtWrite => InLoop
    BY DEF InLoop
  <1>6. InLoop => ~Held
    BY DEF InLoop, Held
  <1>7. Settled => Known \/ Unk \/ ~Some
    BY DEF Settled, DirtyFrame, Known
  <1>8. /\ Mute <=> ~Listening /\ Idle /\ ~Some
        /\ Idle <=> ~(tx # "idle")
        /\ Sent => ~Idle
        /\ Known => Some
    BY FramesDiffer DEF Mute, Known
  <1> HIDE DEF Idle, Sent, Some, Unk, AtFrame, AtWrite
  <1> QED
    BY <1>1, <1>2, <1>3, <1>4, <1>5, <1>6, <1>7, <1>8, <1>9, PassesEnd, EventuallySettled, PTL
       DEF FairSpec, Spec, Fairness, WhenEnabled, RequestsAnswered

(* No record holds up an export: neither a transmission that completes too *)
(* early or too late nor an acknowledgement that does not come.            *)
THEOREM RecordsPass ==
  FairSpec /\ []WhenEnabled => (pc \in {"record", "waittx", "waitack"} ~> pc = "next")
  <1> DEFINE Rec == pc = "record"
             Wtx == pc = "waittx"
             Wack == pc = "waitack"
             Nxt == pc = "next"
  <1>1. FairSpec => []J
    BY AlwaysJ, PTL DEF FairSpec
  <1>2. <<Superloop>>_vars => /\ Rec => Wtx' \/ Nxt'
                              /\ Wtx => Wack' \/ Nxt'
                              /\ Wack => Nxt'
    BY DEF Superloop, PcTask, NoRequest, Answer, Refuse, Write, HandleError, Others, OthersWrite,
           Export, StartExport, OpenFailed, OpenHistory, SendRecord, SendRecordTcp, TxWaited,
           TxTimeOut, AckWaited, AckTimeOut, NextRecord, EndExport, Done, FailUncounted, FailCounted
  <1>3. [Next]_vars /\ ~<<Superloop>>_vars => /\ Rec => Rec'
                                              /\ Wtx => Wtx'
                                              /\ Wack => Wack'
    BY OnlyThePass
  <1>4. Rec \/ Wack => ~Held
    BY DEF Held
  <1>5. J /\ Wtx /\ <<TxCplt>>_vars => ~Held'
    <2> SUFFICES ASSUME J, Wtx, <<TxCplt>>_vars PROVE ~Held'
      OBVIOUS
    <2>1. tx' = "idle"
      BY DEF TxCplt
    <2> QED
      BY <2>1 DEF Held
  <1>6. Wtx /\ ~Held /\ [Next]_vars => ~Wtx' \/ ~Held'
    <2> SUFFICES ASSUME Wtx, ~Held, [Next]_vars, ~<<Superloop>>_vars PROVE ~Held'
      BY <1>2
    <2>1. CASE TxCplt
      BY <2>1 DEF TxCplt, Held
    <2>2. CASE UartError
      BY <2>2 DEF UartError, Held, config
    <2>3. ASSUME NEW req \in Requests, Ask(req) PROVE ~Held'
      BY <2>3 DEF Ask, RxEvent, Held, config, uart
    <2>4. CASE UNCHANGED vars
      BY <2>4 DEF vars, Held, config, uart, flags
    <2> QED
      BY <2>1, <2>2, <2>3, <2>4 DEF Next
  <1>7. Held => tx # "idle"
    BY DEF Held
  <1>8. pc \in {"record", "waittx", "waitack"} <=> Rec \/ Wtx \/ Wack
    OBVIOUS
  <1> HIDE DEF Rec, Wtx, Wack, Nxt
  <1>9. FairSpec /\ []WhenEnabled => (Rec \/ Wtx \/ Wack ~> Nxt)
    BY <1>1, <1>2, <1>3, <1>4, <1>5, <1>6, <1>7, PTL DEF FairSpec, Spec, Fairness, WhenEnabled
  <1> QED
    BY <1>8, <1>9, PTL DEF Nxt
=============================================================================
