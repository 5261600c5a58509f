------------------------------ MODULE SdJournal ------------------------------
(***************************************************************************)
(* The measurement log on the SD card (fatfs_sd.c, Fill_Record): a ring of *)
(* records in history.bin and the index of the next slot in index.bin,     *)
(* written one after the other, and how a restart finds its way back       *)
(* (Logger_LoadIndex, Logger_RecoverIndex).  Power may fail between any    *)
(* two steps and in the middle of a write, and the card may report errors. *)
(*                                                                         *)
(* FatFs, modelled from how it is used: f_write fills a cache, f_sync      *)
(* carries it to the card; after an error in f_write the file refuses      *)
(* everything ("stuck") until it is opened again; a failed f_sync leaves   *)
(* the cache for the next one.  A write that power interrupts leaves the   *)
(* old value, the new one or neither.                                      *)
(*                                                                         *)
(* stamp, home and cause are history: no action depends on them.           *)
(***************************************************************************)
EXTENDS Naturals, FiniteSets

CONSTANTS MAX_RECORDS,     \* 500 in the code
          CountMod,        \* the write counter is a uint32_t: 2^32 in the code
          Blanks,          \* the counters a slot never written may show
          Faults,          \* {"crash", "torn", "disk"} or some of them
          MaxStamp         \* bound: records taken in a behaviour

ASSUME RecordsAssumption == MAX_RECORDS \in Nat /\ MAX_RECORDS >= 3
ASSUME CountAssumption == /\ CountMod \in Nat /\ MAX_RECORDS <= CountMod \div 2
                          /\ Blanks \subseteq 0..(CountMod - 1) /\ Blanks # {}
ASSUME JournalFaultsAssumption == Faults \subseteq {"crash", "torn", "disk"}
ASSUME StampAssumption == MaxStamp \in Nat

Slots   == 0..(MAX_RECORDS - 1)
BadIndex == MAX_RECORDS        \* a wrong magic, checksum, size or range
NoIndex == MAX_RECORDS + 1     \* index.bin does not exist
Records == [count : 0..(CountMod - 1), stamp : 0..MaxStamp]   \* stamp 0: none

VARIABLES
  card,                    \* history.bin as the card holds it
  cached,                  \* history.bin as FatFs sees it, the cache included
  index,                   \* index.bin as the card holds it
  pc,                      \* "off", or the step of Logger_WriteRecord
  due,                     \* g_1s_flags.log_sd_card
  sd_index, g_write_count,
  sd_logs,                 \* the record being written
  history, indexFile,      \* g_history_fil, g_index_fil: "open", "stuck", "closed"
  stamp,                   \* records taken so far
  home,                    \* the last valid index the card held
  cause                    \* the first thing that spoiled the log, or "nothing"

cardVars == <<card, index>>
ramVars  == <<sd_index, g_write_count>>
fileVars == <<cached, history, indexFile>>
vars == <<cardVars, pc, due, ramVars, sd_logs, fileVars, stamp, home, cause>>

Next1Late(s) == IF s + 1 > MAX_RECORDS THEN 0 ELSE s + 1   \* mutant: wraps one late
Next1(s) == IF s + 1 >= MAX_RECORDS THEN 0 ELSE s + 1
Prev(s)  == IF s = 0 THEN MAX_RECORDS - 1 ELSE s - 1
Succ(c)  == (c + 1) % CountMod

Spoilt(what) == cause' = IF cause = "nothing" THEN what ELSE cause
SpoiltIf(p, what) == IF p THEN Spoilt(what) ELSE UNCHANGED cause

NoRecord == [count |-> 0, stamp |-> 0]

Init ==
  /\ card \in [Slots -> {[count |-> c, stamp |-> 0] : c \in Blanks}]
  /\ cached = card
  /\ index = NoIndex
  /\ pc = "off" /\ due = FALSE
  /\ sd_index = 0 /\ g_write_count = 0
  /\ sd_logs = NoRecord
  /\ history = "closed" /\ indexFile = "closed"
  /\ stamp = 0 /\ home = 0 /\ cause = "nothing"

-----------------------------------------------------------------------------
(* sd_card_operations: Fill_Record, then Logger_WriteRecord.               *)

RtcSecond ==
  /\ pc # "off" /\ ~due
  /\ due' = TRUE
  /\ UNCHANGED <<cardVars, pc, ramVars, sd_logs, fileVars, stamp, home, cause>>

FillRecordSame ==          \* mutant: the counter stands still
  /\ pc = "idle" /\ due /\ stamp < MaxStamp
  /\ due' = FALSE
  /\ stamp' = stamp + 1
  /\ sd_logs' = [count |-> g_write_count, stamp |-> stamp']
  /\ pc' = "write"
  /\ UNCHANGED <<cardVars, ramVars, fileVars, home, cause>>
FillRecord ==
  /\ pc = "idle" /\ due /\ stamp < MaxStamp
  /\ due' = FALSE
  /\ stamp' = stamp + 1
  /\ sd_logs' = [count |-> g_write_count, stamp |-> stamp']
  /\ g_write_count' = Succ(g_write_count)
  /\ pc' = "write"
  /\ UNCHANGED <<cardVars, sd_index, fileVars, home, cause>>

WriteRecord(ok) ==         \* f_lseek and f_write
  /\ pc = "write"
  /\ ok \/ "disk" \in Faults
  /\ IF history = "open" /\ ok
       THEN /\ cached' = [cached EXCEPT ![sd_index] = sd_logs]
            /\ pc' = "sync" /\ UNCHANGED history
       ELSE /\ history' = IF history = "open" THEN "stuck" ELSE history
            /\ pc' = "idle" /\ UNCHANGED cached
  /\ UNCHANGED <<cardVars, due, ramVars, sd_logs, indexFile, stamp, home, cause>>

(* The result of f_sync is not looked at.                                  *)
SyncRecord(ok) ==
  /\ pc = "sync"
  /\ ok \/ "disk" \in Faults
  /\ card' = cached \/ (~ok /\ UNCHANGED card)
  /\ SpoiltIf(~ok, "unsynced")
  /\ sd_index' = Next1(sd_index)
  /\ pc' = "save"
  /\ UNCHANGED <<index, due, g_write_count, sd_logs, fileVars, stamp, home>>

SaveIndexBehind(ok) ==     \* mutant: saves the slot just written
  /\ pc = "save"
  /\ index' = Prev(sd_index) /\ home' = Prev(sd_index)
  /\ pc' = "idle"
  /\ UNCHANGED <<card, due, ramVars, sd_logs, fileVars, stamp, cause>>
SaveIndex(ok) ==           \* Logger_SaveIndex, whose result is not looked at
  /\ pc = "save"
  /\ ok \/ "disk" \in Faults
  /\ IF indexFile = "open" /\ ok
       THEN index' = sd_index /\ home' = sd_index /\ UNCHANGED <<indexFile, cause>>
       ELSE /\ UNCHANGED <<index, home>>
            /\ indexFile' \in {indexFile} \cup (IF indexFile = "open" THEN {"stuck"} ELSE {})
            /\ Spoilt("unsaved")
  /\ pc' = "idle"
  /\ UNCHANGED <<card, due, ramVars, sd_logs, cached, history, stamp>>

-----------------------------------------------------------------------------
(* modbus_task_sd closes both files, which carries what is cached to the   *)
(* card, reads the ring, and opens them again unless history.bin could not *)
(* be opened for reading.                                                  *)
OpenFiles ==
  \/ history' = "open" /\ indexFile' = "open"
  \/ "disk" \in Faults /\ history' \in {"open", "closed"} /\ indexFile' \in {"open", "closed"}

Export ==
  /\ pc = "idle"
  /\ card' = cached \/ ("disk" \in Faults /\ UNCHANGED card)
  /\ cached' = card'
  /\ \/ UNCHANGED <<index, home>>
     \/ index # sd_index /\ indexFile # "closed" /\ index' = sd_index /\ home' = sd_index
  /\ OpenFiles
  /\ UNCHANGED <<pc, due, ramVars, sd_logs, stamp, cause>>

-----------------------------------------------------------------------------
(* Power fails: the write in progress may be torn.                         *)

CrashCard ==
  \/ card' = card /\ UNCHANGED cause
  \/ /\ pc = "sync"
     /\ card' = cached /\ UNCHANGED cause
  \/ /\ pc = "sync" /\ "torn" \in Faults
     /\ \E c \in Blanks : card' = [card EXCEPT ![sd_index] = [count |-> c, stamp |-> 0]]
     /\ UNCHANGED cause
CrashIndex ==
  \/ UNCHANGED <<index, home>>
  \/ pc = "save" /\ indexFile = "open" /\ index' = sd_index /\ home' = sd_index
  \/ pc = "save" /\ indexFile = "open" /\ "torn" \in Faults
     /\ index' = BadIndex /\ UNCHANGED home

Crash ==
  /\ "crash" \in Faults
  /\ pc # "off"
  /\ CrashCard /\ CrashIndex
  /\ pc' = "off" /\ due' = FALSE
  /\ sd_index' = 0 /\ g_write_count' = 0 /\ sd_logs' = NoRecord
  /\ cached' = card' /\ history' = "closed" /\ indexFile' = "closed"
  /\ UNCHANGED stamp

-----------------------------------------------------------------------------
(* Restart: Logger_LoadIndex, then open_files.                             *)

(* Logger_RecoverIndex: the first slot whose successor holds a smaller     *)
(* counter, in modular arithmetic; none, and the ring begins at slot 0.    *)
Falls(slots) == {i \in 0..(MAX_RECORDS - 2) :
  (slots[i + 1].count + CountMod - slots[i].count) % CountMod > CountMod \div 2}
FirstFall(slots) == CHOOSE i \in Falls(slots) : \A j \in Falls(slots) : i <= j

RecoveredAtFall(slots) ==  \* mutant: off by one
  [at |-> IF Falls(slots) = {} THEN 0 ELSE FirstFall(slots), count |-> 0]
Recovered(slots) ==
  IF Falls(slots) # {}
    THEN [at |-> FirstFall(slots) + 1, count |-> Succ(slots[FirstFall(slots)].count)]
    ELSE [at |-> 0, count |-> Succ(slots[MAX_RECORDS - 1].count)]

(* The file cannot be read from record i on.                               *)
RecoveredUntil(i, slots) ==
  [at |-> i, count |-> IF i = 0 THEN 0 ELSE Succ(slots[i - 1].count)]

LoadedNext(slots) ==       \* mutant: off by one
  [at |-> Next1(index), count |-> IF index > 0 THEN Succ(slots[index - 1].count) ELSE 0]
Loaded(slots) ==
  [at |-> index, count |-> IF index > 0 THEN Succ(slots[index - 1].count) ELSE 0]

(* What a slot shows that was never written is 0, and the ring spans less  *)
(* than half of the counter's range.                                       *)
ReadsBlank(slots) == \A s \in Slots : slots[s].stamp = 0 => slots[s].count = 0
Close(slots) ==
  \A s, t \in Slots : slots[t].stamp < slots[s].stamp + CountMod \div 2
Scannable(slots) == ReadsBlank(slots) /\ Close(slots)

StartAt(found) == sd_index' = found.at /\ g_write_count' = found.count

Unbooted == <<card, due, sd_logs, cached, stamp>>

BootFresh ==               \* no index.bin: a new one is written
  /\ pc = "off" /\ index = NoIndex
  /\ StartAt([at |-> 0, count |-> 0])
  /\ index' = 0 /\ home' = 0
  /\ OpenFiles
  /\ pc' = "idle"
  /\ UNCHANGED <<Unbooted, cause>>

BootLoaded ==
  /\ pc = "off" /\ index \in Slots
  /\ StartAt(Loaded(card))
  /\ SpoiltIf(index = 0 /\ card[Prev(0)].stamp # 0, "restarted")
  /\ OpenFiles
  /\ pc' = "idle"
  /\ UNCHANGED <<Unbooted, index, home>>

BootRecovered ==           \* SaveRecoveredIndex
  /\ pc = "off" /\ index = BadIndex
  /\ StartAt(Recovered(card))
  /\ index' = sd_index' /\ home' = sd_index'
  /\ SpoiltIf(~Scannable(card), "unscannable")
  /\ OpenFiles
  /\ pc' = "idle"
  /\ UNCHANGED Unbooted

BootUnreadable ==          \* an error of the card on the way
  /\ pc = "off" /\ "disk" \in Faults
  /\ \/ StartAt([at |-> 0, count |-> 0]) /\ UNCHANGED <<index, home>>
     \/ /\ index \in Slots /\ UNCHANGED <<index, home>>
        /\ StartAt([at |-> index, count |-> 0])
     \/ /\ index = BadIndex
        /\ \E i \in Slots : StartAt(RecoveredUntil(i, card))
        /\ \/ index' = sd_index' /\ home' = sd_index'
           \/ UNCHANGED <<index, home>>
  /\ Spoilt("unread")
  /\ OpenFiles
  /\ pc' = "idle"
  /\ UNCHANGED Unbooted

-----------------------------------------------------------------------------
Logging == \/ RtcSecond \/ FillRecord
           \/ \E ok \in BOOLEAN : WriteRecord(ok) \/ SyncRecord(ok) \/ SaveIndex(ok)

Boot == BootFresh \/ BootLoaded \/ BootRecovered \/ BootUnreadable

Next == Logging \/ Export \/ Crash \/ Boot

Spec == Init /\ [][Next]_vars

-----------------------------------------------------------------------------
(* Every variable keeps its type; the index never leaves the ring.         *)
Causes == {"nothing", "unsynced", "unsaved", "restarted", "unscannable", "unread"}
TypeOK ==
  /\ card \in [Slots -> Records] /\ cached \in [Slots -> Records]
  /\ index \in Slots \cup {BadIndex, NoIndex}
  /\ pc \in {"off", "idle", "write", "sync", "save"} /\ due \in BOOLEAN
  /\ sd_index \in Slots /\ g_write_count \in 0..(CountMod - 1)
  /\ sd_logs \in Records
  /\ history \in {"open", "stuck", "closed"} /\ indexFile \in {"open", "stuck", "closed"}
  /\ stamp \in 0..MaxStamp /\ home \in Slots /\ cause \in Causes

(* The log on the card implements LogRing: whatever moment power fails at, *)
(* and however often, with the index torn and rebuilt from the counters,   *)
(* records enter in order and only the oldest leaves.  All ways to break   *)
(* this are among Causes.                                                  *)
Stored == {card[s].stamp : s \in Slots \ {home}} \ {0}
Ring == INSTANCE LogRing WITH Capacity <- MAX_RECORDS - 1, Stamps <- 1..MaxStamp,
                              kept <- Stored, disturbed <- (cause # "nothing")
LogIsRing == Ring!RingSpec

(* A restart goes on where the log stopped: whatever the index came from,  *)
(* between two records it is the one on the card (Logger_LoadIndex,        *)
(* Logger_SaveIndex).                                                      *)
IndexOnCardIsCurrent == pc \in {"idle", "write"} /\ cause = "nothing" => sd_index = home

(* Whenever the index can be torn, the scan by counters finds the place    *)
(* where the log stopped, or the one after the record just written, unless *)
(* the ring spans too many records given up on (Logger_RecoverIndex).      *)
ScanFindsTheEnd ==
  /\ cause = "nothing" /\ Scannable(card)
  /\ pc = "save" \/ index = BadIndex
  => Recovered(card).at \in {home, Next1(home)}

(* The counters tell the order of the records that are kept, across        *)
(* restarts, records given up on and lost ones, where no more than half of *)
(* the counter's range lies between (Fill_Record, Logger_LoadIndex).       *)
CountersTellOrder ==
  cause = "nothing" =>
    \A s, t \in Slots \ {home} :
      /\ 0 < card[s].stamp /\ card[s].stamp < card[t].stamp
      /\ card[t].stamp <= card[s].stamp + CountMod \div 2
      => (card[t].count + CountMod - card[s].count) % CountMod \in 1..(CountMod \div 2)

(* What the comment at fatfs_sd.c:334 says of a restart: the counter goes  *)
(* on after the last record written.                                       *)
CounterRestored ==
  pc = "idle" /\ card[Prev(sd_index)].stamp # 0
  => g_write_count = Succ(card[Prev(sd_index)].count)
=============================================================================
