---------------------------- MODULE Configuration ----------------------------
(***************************************************************************)
(* The settings of the AGM and the places that hold a copy of them: the    *)
(* RTU and TCP register banks, the variables the program works with, the   *)
(* menu's temporary values, the EEPROM, and what the PC UART, the W5500    *)
(* and the export client have been given.  They are changed by a register  *)
(* write of the PC on either link and by the keypad menu, and loaded at    *)
(* boot.  Every handler runs to its end within one call of the superloop,  *)
(* so it is one action; the EEPROM write inside it may fail, or be cut     *)
(* short by a loss of power.                                               *)
(***************************************************************************)
EXTENDS Naturals

CONSTANTS
    Good,           \* values inside a register's range
    Bad,            \* stands for every value outside it
    Default,        \* the factory value, and a register's value after reset
    Largest,        \* what a limit above 999999 is shown as
    Blocks,         \* the sets of registers a write of the PC may cover
    MaxWrites,      \* bound: register writes of the PC
    MaxEdits,       \* bound: values edited in the menu
    MaxFaults       \* bound: power losses and failed EEPROM transfers

(* One register of each kind the handlers tell apart:                      *)
(*   LIMIT   the alarm limit, whose TCP check reads the wrong bank         *)
(*   MODE    a setting that is only validated, saved and restored          *)
(*   RS485   slave id and baud rate, applied to UART8                      *)
(*   NET     the own IP, subnet and gateway, applied to the W5500          *)
(*   PCPORT  the port of the PC the export client connects to              *)
(*   FREQ    FREQ_RECV, saved but not restored                             *)
Fields == {"LIMIT", "MODE", "RS485", "NET", "PCPORT", "FREQ"}
Values == Good \cup {Bad}
Own == "own port"   \* the export client uses the AGM's own server port

ASSUME ConfigurationAssumption ==
    /\ Default \in Good /\ Largest \in Good /\ Bad \notin Good /\ Own \notin Values
    /\ Blocks \subseteq SUBSET Fields
    /\ MaxWrites \in Nat /\ MaxEdits \in Nat /\ MaxFaults \in Nat

VARIABLES
    live,       \* Modbus_Registers
    tcp,        \* Modbus_Registers_PC_TCP
    staged,     \* the limit in Modbus_Registers_Write
    saved,      \* the program's variables: saved_*, agm_mode, alarm_val ...
    temp,       \* the menu's temp_* values
    menu,       \* the password has been accepted
    eeprom,     \* device_config_t in the AT24CM01
    magic,      \* its MAGIC_NUMBER is 0xAA55
    uart,       \* the slave id and baud rate UART8 works with
    ip,         \* the global ip[], sn[], gw[]
    net,        \* the addresses in the W5500
    client,     \* tcp_current_port_pc
    running,    \* powered, past boot
    memory,     \* history: is the EEPROM known to hold the registers
    edited,     \* history: what was edited since temp was last loaded
    keyed,      \* history: NET changed in the menu, and not by the PC since;
                \* PCPORT changed in the menu, and no write of the PC since
    writes, edits, faults       \* the bounded counters

registers == <<live, tcp, staged>>
screens == <<saved, temp, menu, edited>>
chip == <<eeprom, magic, memory>>
devices == <<uart, ip, net, client, keyed>>
vars == <<registers, screens, chip, devices, running, writes, edits, faults>>

AllDefault == [f \in Fields |-> Default]

Init ==
    /\ live = AllDefault /\ tcp = AllDefault /\ staged = Default
    /\ saved = AllDefault /\ temp = AllDefault /\ menu = "closed" /\ edited = {}
    /\ eeprom = AllDefault /\ magic = FALSE /\ memory = "behind"
    /\ uart = Default /\ ip = Default /\ net = Default /\ client = Default
    /\ keyed = {}
    /\ running = FALSE /\ writes = 0 /\ edits = 0 /\ faults = 0

-----------------------------------------------------------------------------
(* What the handlers are built from.                                       *)

ValidatedNotBaud(written, present, limitPasses) ==   \* mutant: a missing check
    [f \in Fields |->
        IF f = "RS485" \/ (IF f = "LIMIT" THEN limitPasses ELSE written[f] \in Good)
        THEN written[f] ELSE present[f]]

ValidatedNotPort(written, present, limitPasses) ==   \* mutant: a missing check
    [f \in Fields |->
        IF f = "PCPORT" \/ (IF f = "LIMIT" THEN limitPasses ELSE written[f] \in Good)
        THEN written[f] ELSE present[f]]

\* The written bank with every value that fails its check replaced by the
\* register's present value; each link checks the limit in its own way.
Validated(written, present, limitPasses) ==
    [f \in Fields |->
        IF (IF f = "LIMIT" THEN limitPasses ELSE written[f] \in Good)
        THEN written[f] ELSE present[f]]

Unclamped(bank) == bank   \* mutant: a seventh digit
\* modbus_val_to_str shows a limit above 999999 as 999999.
Clamped(bank) ==
    [bank EXCEPT !["LIMIT"] = IF @ \in Good THEN @ ELSE Largest]

ReapplyUart(old, bank) ==   \* mutant: tcp_reconfig_required is not set
    /\ uart' = IF bank["RS485"] # old["RS485"] THEN bank["RS485"] ELSE uart
    /\ net' = net

\* The devices whose registers changed are set up again ...
Reapply(old, bank) ==
    /\ uart' = IF bank["RS485"] # old["RS485"] THEN bank["RS485"] ELSE uart
    /\ net' = IF bank["NET"] # old["NET"] THEN bank["NET"] ELSE net

\* ... and config_variables copies the registers to the program's variables.
ConfigVariables(bank) ==
    /\ saved' = Clamped(bank)
    /\ ip' = bank["NET"]
    /\ client' = bank["PCPORT"]

SaveConfigEarly(bank) ==   \* mutant: saves before the registers are copied
    /\ eeprom' = live /\ magic' = TRUE /\ memory' = "current"
    /\ UNCHANGED <<running, faults>>

\* Save_Config_To_Eeprom; its result is ignored.  A transfer that fails three
\* times, and a loss of power, leave each register old or new; the magic
\* number comes last, so a memory without one has it only after the registers.
SaveConfig(bank) ==
    \/ /\ eeprom' = bank /\ magic' = TRUE /\ memory' = "current"
       /\ UNCHANGED <<running, faults>>
    \/ /\ faults < MaxFaults /\ faults' = faults + 1 /\ memory' = "behind"
       /\ running' \in BOOLEAN
       /\ \E done \in SUBSET {f \in Fields : bank[f] # eeprom[f]} :
            eeprom' = [f \in Fields |-> IF f \in done THEN bank[f] ELSE eeprom[f]]
       /\ magic' \in BOOLEAN /\ (magic' => magic \/ eeprom' = bank)

RefreshLcdClosed ==   \* mutant: leaves an open menu alone
    IF menu = "open" THEN UNCHANGED <<temp, edited>>
    ELSE temp' = saved' /\ edited' = {}

\* refresh_lcd reloads the menu's values, whatever was being edited.
RefreshLcd ==
    /\ temp' = saved'
    /\ edited' = {}

InstallOneBank(bank, old) ==   \* mutant: the TCP bank is not copied
    /\ live' = bank
    /\ tcp' = tcp
    /\ Reapply(old, bank)
    /\ ConfigVariables(bank)
    /\ SaveConfig(bank)
    /\ RefreshLcd
    /\ keyed' = IF bank["NET"] # old["NET"] THEN {} ELSE keyed \ {"PCPORT"}

\* The tail that both write handlers share.
Install(bank, old) ==
    /\ live' = bank
    /\ tcp' = bank
    /\ Reapply(old, bank)
    /\ ConfigVariables(bank)
    /\ SaveConfig(bank)
    /\ RefreshLcd
    /\ keyed' = IF bank["NET"] # old["NET"] THEN {} ELSE keyed \ {"PCPORT"}

Written(bank, block, new) ==
    [f \in Fields |-> IF f \in block THEN new[f] ELSE bank[f]]

-----------------------------------------------------------------------------
(* Register writes of the PC.                                              *)

CountWrite ==
    /\ running /\ writes < MaxWrites
    /\ writes' = writes + 1

RtuWrite(block, new) ==
    LET request == Written(live, block, new)
        bank == Validated(request, live, request["LIMIT"] \in Good)
    IN  /\ CountWrite
        /\ staged' = bank["LIMIT"]
        /\ Install(bank, live)
        /\ UNCHANGED <<menu, edits>>

\* A single write to ACK or RESET copies the bank and installs nothing.
RtuPress ==
    /\ CountWrite
    /\ staged' = live["LIMIT"]
    /\ UNCHANGED <<live, tcp, screens, chip, devices, running, edits, faults>>

\* validate_modbus_write_tcp tests the limit the RTU bank has staged.
TcpLimitPasses == staged \in Good

TcpWrite(block, new) ==
    LET bank == Validated(Written(tcp, block, new), tcp, TcpLimitPasses)
    IN  /\ CountWrite
        /\ Install(bank, tcp)
        /\ UNCHANGED <<staged, menu, edits>>

-----------------------------------------------------------------------------
(* The keypad menu.                                                        *)

OpenMenu ==
    /\ running /\ menu = "closed"
    /\ menu' = "open" /\ temp' = saved /\ edited' = {}
    /\ UNCHANGED <<registers, saved, chip, devices, running, writes, edits, faults>>

\* Addresses and ports are edited digit by digit without a check; the other
\* values have as many digits, or choices, as their range.
MenuChoices(f) == IF f \in {"NET", "PCPORT"} THEN Values ELSE Good

EditField(f, v) ==
    /\ running /\ menu = "open" /\ edits < MaxEdits
    /\ v \in MenuChoices(f)
    /\ edits' = edits + 1
    /\ temp' = [temp EXCEPT ![f] = v]
    /\ edited' = edited \cup {f}
    /\ UNCHANGED <<registers, saved, menu, chip, devices, running, writes, faults>>

\* set_configuration.  Reconfigure_TCP works on arrays of its own, so ip[]
\* keeps the old address; Reconfig_TCP_PC takes the port of the AGM itself.
SaveMenu ==
    /\ running /\ menu = "open"
    /\ live' = temp /\ tcp' = temp
    /\ saved' = temp
    /\ SaveConfig(temp)
    /\ Reapply(saved, temp)
    /\ client' = IF temp["PCPORT"] # saved["PCPORT"] THEN Own ELSE client
    /\ keyed' = keyed \cup {f \in {"NET", "PCPORT"} : temp[f] # saved[f]}
    /\ edited' = {}
    /\ UNCHANGED <<staged, temp, menu, ip, writes, edits>>

CloseMenu ==
    /\ running /\ menu = "open"
    /\ menu' = "closed"
    /\ UNCHANGED <<registers, saved, temp, edited, chip, devices, running,
                   writes, edits, faults>>

-----------------------------------------------------------------------------
(* The devices, and power.                                                 *)

\* An error on UART8 sets it up again from the register.
UartError ==
    /\ running
    /\ uart' = live["RS485"]
    /\ UNCHANGED <<registers, screens, chip, ip, net, client, keyed, running,
                   writes, edits, faults>>

\* W5500_init after a lost address or a failed SPI check.
ChipReset ==
    /\ running
    /\ net' = ip
    /\ UNCHANGED <<registers, screens, chip, uart, ip, client, keyed, running,
                   writes, edits, faults>>

PowerLoss ==
    /\ running /\ faults < MaxFaults
    /\ faults' = faults + 1
    /\ running' = FALSE
    /\ UNCHANGED <<registers, screens, chip, devices, writes, edits>>

Loaded(readOk) == IF readOk /\ magic THEN eeprom ELSE AllDefault

RestoredLess(config) ==   \* mutant: a second register is not restored
    [config EXCEPT !["FREQ"] = Default, !["MODE"] = Default]

\* config_modbus_registers leaves FREQ_RECV at its value after reset.
Restored(config) == [config EXCEPT !["FREQ"] = Default]

Boot(readOk) ==
    LET bank == Restored(Loaded(readOk))
    IN  /\ ~running
        /\ \/ readOk /\ UNCHANGED faults
           \/ ~readOk /\ faults < MaxFaults /\ faults' = faults + 1
        /\ live' = bank /\ tcp' = bank /\ staged' = Default
        /\ ConfigVariables(bank)
        /\ temp' = AllDefault /\ menu' = "closed" /\ edited' = {}
        /\ uart' = bank["RS485"] /\ net' = bank["NET"] /\ keyed' = {}
        /\ memory' = IF readOk /\ magic THEN "current" ELSE "behind"
        /\ running' = TRUE
        /\ UNCHANGED <<eeprom, magic, writes, edits>>

-----------------------------------------------------------------------------
PcWrite ==
    \E block \in Blocks : \E new \in [block -> Values] :
        RtuWrite(block, new) \/ TcpWrite(block, new)

Keypad ==
    \/ OpenMenu
    \/ \E f \in Fields, v \in Values : EditField(f, v)
    \/ SaveMenu
    \/ CloseMenu

Next ==
    \/ PcWrite
    \/ RtuPress
    \/ Keypad
    \/ UartError
    \/ ChipReset
    \/ PowerLoss
    \/ \E readOk \in BOOLEAN : Boot(readOk)

Spec == Init /\ [][Next]_vars

-----------------------------------------------------------------------------
(* Correctness.                                                            *)

Banks == [Fields -> Values]

\* Every variable has its type; what the program shows as a limit always has
\* at most the six digits of its buffer (alarm_val, filled by
\* modbus_val_to_str and by the menu).
TypeOK ==
    /\ live \in Banks /\ tcp \in Banks /\ staged \in Values
    /\ saved \in Banks /\ saved["LIMIT"] \in Good
    /\ temp \in Banks /\ temp["LIMIT"] \in Good
    /\ menu \in {"open", "closed"}
    /\ eeprom \in Banks /\ magic \in BOOLEAN
    /\ uart \in Values /\ ip \in Values /\ net \in Values
    /\ client \in Values \cup {Own}
    /\ running \in BOOLEAN /\ memory \in {"current", "behind"}
    /\ edited \subseteq Fields /\ keyed \subseteq {"NET", "PCPORT"}
    /\ writes \in 0..MaxWrites /\ edits \in 0..MaxEdits /\ faults \in 0..MaxFaults

\* Between handlers the two register banks are the same, and the program's
\* variables are what they say: whichever link or screen made the last
\* change, a poll on the other link reads it and the menu shows it
\* (pc_modbus.c:58-61, tcp_server.c:528-531, Update_Registers).
CopiesAgree ==
    running => tcp = live /\ saved = Clamped(live)

\* Mode, RS-485 and frequency settings are within their ranges in the
\* registers and in the EEPROM, however writes, saves, torn saves and
\* restarts follow each other: nothing checks them again when they are
\* loaded (config_modbus_registers).
SettingsInRange ==
    \A f \in {"MODE", "RS485", "FREQ"} : live[f] \in Good /\ eeprom[f] \in Good

\* What the devices work with is what the registers say: UART8 always; the
\* W5500 unless the keypad made the last change to its addresses, which ip[]
\* does not follow and a later reset of the chip undoes (tcp_server.c:638);
\* the export client unless the keypad changed its port and no write of the
\* PC came since (tcp_client.c:48).
SettingsInUse ==
    running =>
        /\ uart = live["RS485"]
        /\ net = live["NET"] \/ "NET" \in keyed
        /\ client = live["PCPORT"] \/ "PCPORT" \in keyed

\* Once a save has succeeded, or the configuration was loaded, the EEPROM
\* has its magic number and holds the registers, all but the one that is not
\* restored (cpy_reg_to_eeprom_reg, EEPROM_Write_Config).
MemoryMatches ==
    memory = "current" =>
        magic /\ \A f \in Fields \ {"FREQ"} : eeprom[f] = live[f]

\* A restart brings the settings back as they were, when the last save was
\* written and the read at boot succeeds (Save_Config_To_Eeprom against
\* config_modbus_registers).
RestartKeepsSettings ==
    [][~running /\ running' /\ memory = "current" /\ memory' = "current"
        => \A f \in Fields \ {"FREQ"} : live'[f] = live[f]]_vars

\* Leaving the menu with "save" changes no setting but those edited since
\* the menu's values were last loaded: a write the PC made while the menu
\* was open is never undone by stale temporary values (refresh_lcd in the
\* write handlers).  The exception is a limit that was out of range: the
\* save replaces it by the 999999 that is shown.
SaveChangesOnlyEdits ==
    [][SaveMenu =>
        \A f \in Fields : live'[f] # live[f] =>
            \/ f \in edited
            \/ f = "LIMIT" /\ live["LIMIT"] \notin Good]_vars

\* While the program runs, a register goes out of its range only by an edit
\* in the menu, where addresses and ports are not checked, or by the TCP
\* write of a limit, which is checked against the wrong bank: no other path
\* needs a check it does not have.
RangeLostOnlyUnchecked ==
    [][running /\ running' =>
        \A f \in Fields : live[f] \in Good /\ live'[f] \notin Good =>
            \/ f \in {"NET", "PCPORT"} \cap edited
            \/ f = "LIMIT" /\ staged \in Good /\ staged' = staged]_vars

\* What the comment in validate_modbus_write_tcp says of the limit: at most
\* 9999.99 (modbus.c:1844).
AlarmLimitInRange == live["LIMIT"] \in Good
=============================================================================
