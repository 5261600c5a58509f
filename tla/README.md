# AGM firmware: verification development

The AGM is an area gamma monitor: an STM32H750 board that polls a radiation
detector, compares the dose rate with three limits, drives lamps, buzzer, relay
and a 4-20 mA output, logs to an SD card and answers PCs over RS-485 and Modbus
TCP. The firmware is bare metal: one superloop (`main.c:290-314`) and interrupt
handlers, with no operating system and no tests. This directory holds TLA+ models
of it, the TLC instances that check them, and proofs checked by TLAPS.

## 1. Inventory

| Component | Source | State | Operations | What is hard |
|---|---|---|---|---|
| Superloop, interrupts | `main.c`, `stm32h7xx_it.c` | `g_1s_flags`, `relay_status` | RTC second, TIM4 relay sampling, task order | handlers run between any two statements; an SD export replaces the whole loop |
| Detector link | `Detector_Modbus.c`, callbacks in `modbus.c` | master state, write flags, staged bank, failure counter | poll, single and block writes, reply, time-out | late, lost or damaged replies; writes that overwrite each other |
| Alarm machine, annunciator | `Fault_Handler.c` | `State_Flag`, status registers of both banks, timers, outputs | `Check_Fault_Conditions`, `ProcessSystem`, blinker | order of the raise/acknowledge/reset stages, presses and PC writes in between |
| 4-20 mA output | `DAC_Drvr.c` | DAC code | `e4_20mA_task` | must show a fault |
| Register banks | `modbus.c` | three banks of the same registers, validated fields | validation, copying between the banks, conversion to variables | two PCs and the keypad write the same fields |
| PC over RS-485 | `pc_modbus.c` | DMA buffers, `pc_state` | read, single and block write | errors, re-arming, writes of live registers |
| PC over TCP | `tcp_server.c` | W5500 socket, interrupt bits, `Spi_Retry` | accept, serve, close, recovery ladder | edges lost, sockets stuck, recovery that gives up |
| Configuration memory | `AT24CM01_Eeprom.c` | `g_config`, EEPROM, magic number | save, load, defaults, bus recovery | saves that fail or are cut short, fields not restored |
| Measurement log | `fatfs_sd.c` | ring of 500 records, `sd_index`, `g_write_count` | append, load and recover the index | power failure between record and index, ignored errors |
| Export | `fatfs_sd.c`, `tcp_client.c` | open files, connection | send all records, newest first | replaces the superloop while it runs |
| Keypad and display | `Lcd.c`, `App_7_segment.c` | screens, temporaries | edit, save, password | races with PC writes |
| Vendored | `Drivers/`, `Middlewares/` | | HAL, FatFs, WIZnet library | not modelled, used as documented |

The components share memory: interrupt handlers set flags the superloop polls; the
two PC links and the keypad write the configuration that `config_variables` turns
into variables of the alarm machine; the alarm machine forces the detector link to
rewrite the high-voltage switch when the link heals; a queued detector write of the
menu or a PC competes with the relay's.

## 2. Modules and how they correspond to the code

| Module | Models | Refines | Proofs |
|---|---|---|---|
| `DetectorLink` | `Detector_Modbus.c`, its interrupts, its supervision in `Fault_Handler.c`, the detector | `LinkMonitor` | `DetectorLinkProofs` |
| `FaultHandler` | `Fault_Handler.c`, buttons, PC writes of the status bank, 4-20 mA choice, exports | `AlarmPanel` | `FaultHandlerProofs` |
| `DetectorConfig` | high voltage, frequency switch and calibration factors on their way from the menu and both PC links through the staging bank to the detector, and back into the banks | | `DetectorConfigProofs` |
| `PcLink` | `pc_modbus.c` and UART8 with its interrupts, `sd_task` and the export over RS-485 and TCP | | `PcLinkProofs` |
| `SdJournal` | the log of `fatfs_sd.c` with its card | `LogRing` | `SdJournalProofs` |
| `TcpServer` | `tcp_server.c` with the W5500 socket and a client | | `TcpServerProofs` |
| `Configuration` | settings: register banks, menu, EEPROM, devices | | `ConfigurationProofs` |

Actions keep the names of the functions or say in a comment which statement they
are; `PROJECT.json` maps every definition to its lines. Operators marked `mutant`
are faulty variants of the definition below them; no specification uses them.
They exist so that each property can be shown to fail when the code is wrong.

**DetectorLink.** `modbus_task_dtc` is a process with a program counter: an
interrupt (RTC second, TIM4 relay sample, receive, transmit complete, error) may
run between any two of its steps, and between the three reads of `relay_status`
at lines 50-63. The write queue is the code's flags (`modbus_write_flag` and the
two sub-flags) with `staged` for the staged register values. The detector serves
a request, refuses it, answers late, or loses it. The time-out is `age` (RTC
ticks) and `overdue` (`TIMEOUT_MS` is over); they mean something only in WAIT.
`hvLost` names the first thing that went wrong with the last relay change (torn
read, time-out, overwritten by another write, acknowledged by mistake, power blip
of the detector, re-arming of `prev_relay_status`). The link is half-duplex: a
new request flushes a late one. The branch at `Fault_Handler.c:196-200` cannot be
reached because the error callback tests UART7 (`modbus.c:2234`).

**DetectorConfig.** The same master as in `DetectorLink`, seen by the values it
carries. A value that is entered is the number of the writer's step, so that values
from different entries differ; the frequency switch is 0 or 1. `temps` and `entered`
are the menu's copy and what was edited in it, `live` the banks the PCs read,
`staged` the bank a block write is sent from (`Sent`), and `queued` stands for
`modbus_write_flag` with the flag it selects. The addresses between the first and
the last register of a block go along (`CarriedBy`). `want` is what was asked for
last; `astray` holds the registers whose value was lost: a time-out ended the write,
a relay change took over the flags, the acknowledgement of an earlier write ended a
later one, or one of the five cases listed at `Follow` (overwritten by another
writer, taken for unchanged by the menu, a stale factor copied beside the one asked
for, a block that spans the frequency switch, a block that spans the high voltage).
`cur` is history too: a request or reply is current until another write is queued.

**PcLink.** The superloop is a process with a program counter: the slave
(`modbus_task_pc`), the other tasks, of which only their writes matter, and the
export (`sd_task`). `dir` is the transceiver's pin, `rx` the buffer a reception is
armed with, `tx` what the DMA sends. `Restart` is the pair
`Modbus_Restart_RX_DMA_PC[_SD]`, which also stops a transmission: its completion
interrupt, which alone switches the transceiver back, then never comes. The
assumption that driver and receiver of the transceiver share the one pin is
external. A request is a kind (read, plain write, a write that asks for an export,
changes the baud rate, or both) and whether it is good; a bad one has a wrong CRC,
another slave's address, or a register range outside the banks. A frame that
fell into the buffer of the export leaves the slave an empty one (`Unknown`).
`waiting` is a PC that wants an answer. Time-outs may come whenever the code waits,
with the one exception that a record at 4800 baud and more is always out within
150 ms (39 bytes, 81 ms). The sockets of the TCP client are not modelled: a
connection fails or not, a record arrives or not.

**FaultHandler.** `Check_Fault_Conditions` is one action, as the code takes a
snapshot of the buttons with interrupts disabled; presses, PC writes, readings,
timers and the blinker interleave with it. The dose and the three limits are
naturals in one unit, the limits in any order or equal. Times are abstracted to
`running`/`expired`, with `unset` for the 0 sentinel of the HV grace time. After a
link loss the reading is 0; after a recovery by a write acknowledgement the last
reading is used until a new one comes. A block write of a PC puts
its bank over the live one, status registers included. `tainted` is the set of those
that hold what a PC wrote; each `SET_REG` group (`SetRegs`) takes the registers it
writes out of the set, and `RegistersAgree` speaks of all the others. During an
export the superloop does nothing else. The reading of the high
voltage is `in` range, `out` of it, or `neither`, where the code takes no branch
(exactly a bound, or `FREQ_DTC` set); the runs have the first two, the proofs and
`fault_enabled` all three.

`AlarmPanel`, which `FaultHandler` refines, is what the operator is promised. Its
state is the display (`status`, `level` of the alarm that stands), the presses that no
evaluation has used up (`ack`, `reset`), `minute` (a minute has passed
unacknowledged) and the situation (`auto`, the levels the reading is `over`, the link
`down`). An evaluation raises the alarm to the highest level reached, lets it stand,
clears it, or shows the failed link. It clears only an alarm that is
acknowledged, by now or by the press or the minute it finds, when a reset or
automatic mode releases it and the reading is below its limit; where that holds it
must clear, and where only the acknowledgement holds it must acknowledge, so no
evaluation ignores a press. It uses up both presses. What happens in between changes
nothing on the display, nor a press but by pressing or by a PC taking it back. A
failure of the link alone takes an alarm away unacknowledged. The mapping
(`Panel` in `FaultHandler`) reads these off the state flag, the buttons, the time
stamp and the reading.

**SdJournal.** A ring of `MAX_RECORDS` slots, a write counter modulo `CountMod`,
the index file, and what the card holds as opposed to what the file system
believes it wrote. Appending is four steps (write, sync, save index, done), each
of which may fail or be cut by a power loss, which leaves the slot torn. A torn
slot is written first after a restart. `f_lseek` leaves slots that were never
written undefined (`Blanks`). After a write error the file stays unusable until
an export reopens it. Boot is atomic. `cause` names the first thing that spoiled the
log: a sync or a save that failed, a counter that started again at 0, a scan over
leftovers or over a ring that spans half of the counter's range, a card that could
not be read at a restart.

**TcpServer.** `tcp_task` with a program counter that yields wherever the chip or
the client can act. The W5500 holds INTn low while an interrupt bit is set, and
the port pin sees falling edges only. `PinPulses` says whether INTn goes high for
a moment when one bit is cleared while others are set: the comment in `w5500.h:259`
says that it does not, the data sheet's re-assert wait time that it does; the runs
use TRUE, the proofs both. `simr` is SIMR, the mask that lets the interrupts of a
socket through to INTn: `modbus_tcp_server_init` alone sets it. A chip that is reset
loses it (`AddressLost`, a `Glitch`), and `W5500_Apply_New_Settings`, which may open
the socket first, does not restore it: that connection is `Silent`, and the
liveness properties except it. The 3 s spacing of the health check, the link monitor,
malformed requests and buffer sizes are left out.

**Configuration.** One register of each kind the handlers treat in a different
way (`Fields`), with values in range, one value `Bad` for all those outside, and
one action per handler: an RTU write of a block, an RTU press of ACK or RESET, a
TCP write, the menu's opening, editing, saving and closing, a UART8 error, a
reset of the W5500, a power loss, a boot. The handlers run to their end within
one pass of the superloop and no interrupt touches the banks, so each is atomic,
in the order of the code (validate, compare, copy both banks, reconfigure,
`config_variables`, save, refresh the menu). The save inside may succeed, or fail
unnoticed at once or part-way, with or without a loss of power, which leaves each
setting old or new. The magic number may be lost too; it comes last, so a blank
memory gets it only after all settings. `NET` is the own address, `PCPORT` stands for address
and port of the PC. Ports have four digits: a five-digit port does not fit the
menu's buffers (`Lcd.c:271`), which is not modelled. The clock, the calibration
values and the export flag are left out.

## 3. Properties, runs and bounds

| Run | Instance | Shows |
|---|---|---|
| `link_safety` | one single and one multiple write competing with the relay, a detector that loses power | the high-voltage switch follows the relay but for the listed causes; a pending write is always a real one |
| `link_live` | UART errors, an answering detector | no failure is declared before two silent seconds (refinement of `LinkMonitor`), silence is declared a failure, the link heals, the last relay value is applied unless a listed cause applies |
| `fault_safety` | both modes, limits (1, 2, 3) and (2, 2, 1) with readings 0 to 2, two PC block writes, audio on | registers no PC wrote and outputs follow the state, a reading at a limit is announced within two checks, alarms are cleared only once acknowledged, released and below their limit (refinement of `AlarmPanel`) |
| `fault_live` | automatic mode, exports | alarms recover in automatic mode, the current loop shows a fault |
| `journal_safety` | 3 slots, a counter of 6 values, power failures, torn writes, card errors, leftovers in new slots, 8 records | the log is a ring (refinement of `LogRing`), the index on the card is current, the scan finds the end, counters tell the order |
| `journal_counter` | 3 slots, power failures, 6 records | violation: the write counter is not restored |
| `detector_config` | two writes in a row of every block by either link, the menu, relay changes, lost and late answers | the detector holds the value asked for last unless the register went astray in a listed way; the banks show what it holds |
| `pc_link` | 2 slots, two failures to give up, all frames, errors and writes | the RS-485 line goes deaf in four ways only; requests are answered otherwise; exports end and are complete |
| `tcp_safety` | all disturbances, clients that vanish | no interrupt is lost, connections are probed by keep-alive, sending ends; the server listens again unless `disconnect_sent` is stale or the connection has no interrupts, the superloop goes on, requests are answered with the same exception |
| `tcp_stuck` | new network settings | violation: `disconnect_sent` survives a reopened socket |
| `config_safety` | two writes of one or two registers, one edit, two faults | the eight properties of `Configuration` |
| `config_range` | two writes | violation: an alarm limit out of range |

Bounds. `CounterMod` is 4 instead of 256: what matters is that the counter wraps
past the limit of 2. `SilenceCap` is the smallest that tells "less than two
seconds" from more. Three slots are the fewest in which a fall of the counters
can be inside the ring or at its seam; eight records fill it, start a second and a
third lap, and make a counter of six values go round; a new slot may show a counter
above or below those in use; `CountMod` is twice the ring, and far more in the
code. Once the log is spoilt nothing is promised, and `journal_safety` follows it to
the third record only (`Promised`). Two writes and one
edit let every handler follow every other with the menu open in between; two
faults allow a failed or torn save and a power loss, or a failed read, after it.
In `fault_safety` the two orders of the limits make levels equal, skipped and
reached from above; its blocks take an alarm register, and both buttons, which
the `SET_REG` groups write in different combinations (the proofs cover any block). A check follows every input in every order, 400,896 distinct
states; `fault_live` has 24,640.
Two values in range are enough for "changed" and "kept". In `detector_config` two
writes in a row are the fewest in which one can overtake, overwrite or complete
another, and every block meets every other. In `pc_link` two slots with the newest
at the seam of the ring exercise the wrap and a second record that is sent over
the first; `FailLimit` 2 in place of 30 makes a failure that is counted and one
that gives up. `RetryMod` is 5 in place
of 256, above the limit of 3. All runs use breadth-first search without symmetry.

The most informative properties are those with a history: `HvSwitchFollowsRelay`
(a complete list of the ways a relay change is lost), `AlarmsAreLatched`,
`LogIsRing`, `InterruptsAreNotLost`, `SaveChangesOnlyEdits` (a PC write made while
the menu is open is never undone by stale menu values) and
`RangeLostOnlyUnchecked` (every path by which a register can leave its range),
`ConfigurationIsApplied` (every way in which a value of the detector is lost or
replaced) and `ListensUnlessLost` (every way in which the RS-485 slave goes deaf).

## 4. Fairness

- The superloop goes on and timers advance (weak fairness): there is no operating
  system that could stop them, and the watch for waits inside it is a property
  (`LoopGoesOn`).
- A DMA transmission completes; the W5500 finishes a command it has taken.
- `link_live`: a detector that is asked for ever gives good answers for ever
  (strong fairness of `Serve("good")`), without which nothing can heal.
- `fault_live`: every export ends (its waits do not time out, `fatfs_sd.c:31`, so
  this is an assumption about the card). The check and the current loop get
  strong fairness because an export can disable them again and again, and a
  complete pass of the superloop runs between two exports.
- `detector_config`: the superloop runs, and a detector that is asked for ever
  carries out some write and gives some good answer to a read (strong fairness of
  both): without it the banks could never be filled again.
- `pc_link`: the superloop runs, a transmission completes (weak fairness); a PC
  that got no answer asks again; a failing export does so for seconds, so some
  failure is counted although most passes fall into the same second (strong
  fairness of `FailCounted`). From some time on the line carries good reads and
  plain writes only and nobody else writes: answers that are cut by errors, baud
  rates and exports for ever cannot be promised. `RequestsAnswered` itself is about
  lines that do not stay deaf, whose ways `ListensUnlessLost` lists.
- `tcp_safety`: glitches stop at some time; a client closes its side when the server
  does and repeats a request that got no answer.
- `Configuration` and `SdJournal` have safety properties only.

## 5. What is proved

All theorems hold for every value of the constants allowed by the assumptions in
the modules, and use nothing else, but that those on liveness have hypotheses of
their own, given below. Each proof goes through an inductive invariant, checked
with TLC before it was proved.

### Safety

- `DetectorLinkProofs`: types; `PendingWriteIsReal`; `HvSwitchFollowsRelay` from an
  invariant that ties queue, request on the line, detector and reply to the
  relay value each carries, for the cases in which nothing was lost; the
  refinement of `LinkMonitor` from an invariant that bounds the poll counter by the
  seconds of silence.
- `FaultHandlerProofs`: types; `RegistersAgree` register by register, from what
  `SetRegs` sets and keeps; outputs; a reading at
  a limit is announced, from an invariant on what one check may leave unseen; and
  the refinement of `AlarmPanel`: every check is one of its evaluations
  (`CheckIsEvaluation`, stage by stage), every other step one of its inputs or a
  stutter (`InputSteps`).
- `TcpServerProofs`: types; interrupts, keep-alive and sending, from the phases of
  the task (what it holds in its copy of the interrupt bits at each step) while SIMR lets them
  through, from
  "a socket that is opening or listening is not sending, and one that is sending
  has been armed", and from "a task about to acknowledge holds only bits that are
  still set".
- `DetectorConfigProofs`: types; `ConfigurationIsApplied`, which speaks of the moment
  when nothing is queued, from an invariant that follows the value on its way: what
  is neither queued nor astray is held (`HeldIsWanted`), what is queued would be
  sent with the value wanted (`StagedIsWanted`), a request on the line brings it
  (`RequestIsWanted`, `RequestIsCurrent`), an acknowledgement that matches is true
  (`AckIsTrue`), and the temporaries of the menu are those loaded (`MenuIsLoaded`).
- `PcLinkProofs`: types; `ListensUnlessLost`, from who holds the line: a
  transmission keeps the transceiver (`SendersHoldTheLine`), one that was given up
  has a cause (`CutIsCaused`), so has a reception that is not armed
  (`OffIsCaused`), a request waits behind no answer (`RequestWaitsAlone`), and a
  step of the export finds the line free (`RecordIsOut`); and `ExportIsComplete`
  for a log of any size, from how many records are out at each step (`Progress`).
- `ConfigurationProofs`: `Ind` adds to the properties that `ip[]` follows the
  registers until the keypad changes them (`UseInv`: without it a chip reset would
  break `SettingsInUse`), that unedited menu values are the program's (`MenuInv`:
  what makes a menu save harmless), and that values on their way into the
  registers are in range (`RangeInv`). The properties of restarts, of the menu's
  save and of the lost ranges are proved as action properties from it.
- `SdJournalProofs`: types, for which the scan must find a least slot (`LeastExists`,
  from cardinalities, because induction is out of reach); `IndexOnCardIsCurrent`,
  `ScanFindsTheEnd`, `CountersTellOrder` and the refinement of `LogRing`, for rings
  and counters of any size. The invariant, as long as nothing spoiled the log: the
  slots after `home` are the oldest and `home` comes last (`Older`); along that
  order stamps rise and counters rise no faster than stamps, modulo their range
  (`Follows`), so that records given up on and lost ones only leave gaps; in the
  first lap the slots after `home` are blank and counters stay below stamps
  (`InOrder`, `FromStart`: without it the scan could take a blank slot for a
  fall); and the record being written, or the next one, fits behind all that are
  kept (`Fits`). A step then keeps the records or makes the one at `home` one
  of them (`UndisturbedStep`), which is what `LogRing` allows (`RingCommit`).

### Liveness

Every liveness property of the passing runs but `ExportEnds` is a theorem of the form
`FairSpec /\ []WhenEnabled [/\ ...] => Property`. What an action does is proved
without temporal logic (a step keeps a state or leaves it, the fair step leaves it),
and the temporal leaf joins these facts with the fairness.

*The hypothesis `WhenEnabled`.* Fairness says something only of an action that is
enabled, and ENABLED is out of the prover's reach: it takes ENABLED of an action as
an unknown. `WhenEnabled`, at the end of each component's module, states all that the
proofs need: in a state with the guards named, the fair action can be taken and
changes a variable (in `DetectorLink` also when the monitor can declare). It is an
invariant of `Spec`: the actions have these guards, and total assignments behind them.
That is checked with TLC, not proved, by one configuration for each component, which
are there to be rerun (`tlc -config tcp_enabled.cfg MCTcpServer`):

| Configuration | Module | Distinct states |
|---|---|---|
| `fault_enabled.cfg` | `MCFaultHandler`, both modes, limits in both orders, PC writes, exports | 2,472,000 |
| `pc_enabled.cfg` | `MCPcLink`, the constants of `pc_link` | 218,312 |
| `detector_enabled.cfg` | `MCDetectorConfig`, the constants of `detector_config` | 282,456 |
| `tcp_enabled.cfg` | `MCTcpServer`, the constants of `tcp_safety` | 298,951 |
| `link_enabled.cfg` | `MCDetectorLink`, one multiple write, UART errors, lost answers | 4,483,892 |

*The theorems.*

- `FaultHandlerProofs`: a lasting fault reaches the current loop
  (`FaultReachesLoop`: nothing but the output task takes back the second that is due,
  and no export lasts). Alarms recover unattended (`RecoversUnattended`: an alarm
  stands until its minute is over, the next check acknowledges and resets it, and
  nothing raises another while all is well).
- `TcpServerProofs`: the loop never hangs (`LoopNeverHangs`). Requests are answered
  and the place of a client that went is given on (`RequestsGetAnswers`,
  `PlaceIsGivenOn`) if INTn pulses (`PinPulses`), without which an edge is
  lost and no task would read the bit, and unless the connection is `Silent`. They need `TcpInv`, which adds to the
  invariant of the safety proofs what client and socket know of each other
  (`ClientInv`: without it a client that left could still be established), that a
  received message has its bit or is in the task's hands (`ReceivedInv`), and that
  nothing echoes a kickstart packet that is still to be sent (`KickInv`).
- `DetectorLinkProofs`: `CommandReachesDetector` assumes nothing of the detector,
  since a command that is not carried out is lost for a listed cause, and
  `HvSwitchCorrect` says that without one the queue, the line and the detector
  carry the relay value. `LinkRecovers` needs the answering detector of
  `AnsweringSpec`, and that the request on the line is a real one (`LinkInv`).
  `SilenceIsDeclared` is the refinement of `LinkMonitor` with its fairness.
- `DetectorConfigProofs`: the banks come to show the detector (`BanksCatchUp`), once the
  writers are quiet. The model bounds their steps, so that they are; that a
  bounded counter stops is an induction, hence a hypothesis.
- `PcLinkProofs`: requests are answered (`RequestsGetAnswers`) if exports end
  (`ExportEnds`), because an export holds up the superloop. Each record of an
  export is followed by the next step (`RecordsPass`).

### What is only model-checked

`WhenEnabled` (ENABLED), and `ExportEnds`: that an export which always goes on to the
next record ends is an induction over the slots of the log, and for failing starts
over the count of failures, and the temporal prover has no induction over numbers.
`RecordsPass` is the step of the first; `pc_link` checks the whole with two slots and
two failures.

## 6. Disagreements found

- `modbus.c:1846`: the check of an alarm limit written over TCP reads the RS-485
  write bank, so it does not hold "ALARM VALUE <= 9999.99" (`config_range`). Once
  a limit out of range is in and an RS-485 write has followed, no TCP write can
  repair it; a save from the menu does. The check of the 4-20 mA maximum unit at
  line 1957 has the same slip.
- `tcp_server.c:415`: `disconnect_sent` outlives a socket reopened by new settings;
  the next client that leaves is never disconnected (`tcp_stuck`).
- `fatfs_sd.c:358`: after a restart with the index at 0 the write counter restarts
  although the card is full (`journal_counter`).

Observed while modelling, visible in the models and stated as exceptions of
properties: `Reconfig_TCP_PC` takes the wrong port register (`tcp_client.c:48`);
`W5500_Apply_New_Settings` (`tcp_server.c:328`) opens the socket without SIMR, so
that after a chip that lost its registers the client that connects is never heard;
`Reconfigure_TCP` hides the global `ip[]` (`tcp_server.c:638`); addresses and ports
of the menu are not checked; a time-out of the master drops a pending write
(`Detector_Modbus.c:189`); a frame with a wrong CRC is carried out
(`pc_modbus.c:142`), and its restart of the reception then cuts the answer and
leaves the transceiver sending, so that the slave is deaf until the next error-free
transmission or initialisation; the same happens when an export over TCP starts
while an answer is on its way, and at 2400 baud when an export ends, because the
150 ms the code waits are shorter than a record (`modbus.c:1419`); a frame that
arrives while an export is asked for but cannot start is taken by the export's
buffer and the reception is not armed again (`modbus.c:93`); a block that writes
high voltage and calibration together also writes the frequency switch, as 0
(`Lcd.c:472`, `Detector_Modbus.c:93-119`); the frequency settings are saved and not restored. Not
modelled: `read_sd` is never reset after an export from the menu (`Lcd.c:703`).

## 7. Not modelled

Display contents and layout, 7-segment driver, DAC arithmetic and calibration, the
contents of log records, the RTC, Modbus frame parsing and checksums, start-up
of the peripherals and the HAL. Each is arithmetic, formatting or hardware set-up
without the interleavings and failures the models are about. The vendored
libraries are used as documented.

## 8. Plan

Order of work, the most important behaviour first: detector link, alarm machine,
log, TCP server, settings, detector registers, PC line and export (done). Next:

1. The export composed with `SdJournal`: the files it closes and reopens, and a
   failed start that leaves them closed.
2. The states of the socket of the TCP client, with acknowledgements that arrive
   after their time-out.
3. A composition of `Configuration` with `FaultHandler`: limits that change under a
   standing alarm.
4. Supervision of both PC links (`Pc_RTU_Failed_Timeout`, `Pc_TCP_Failed_Timeout`).

Everything the runs check is proved as far as section 5 says. Left to prove:
`ExportEnds`, and `WhenEnabled`, when the prover can do either.
