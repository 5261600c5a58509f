------------------------- MODULE ConfigurationProofs -------------------------
(***************************************************************************)
(* Proofs about Configuration, for every set of values in range, every     *)
(* family of register blocks and every bound.  Ind is the inductive        *)
(* invariant; what it adds to the properties is that ip[] follows the      *)
(* registers until the keypad changes NET, that temporary values which     *)
(* were not edited are the saved ones, and that the values on their way to *)
(* the registers are already in range.                                     *)
(***************************************************************************)
EXTENDS Configuration, TLAPS

Checked == {"MODE", "RS485", "FREQ"}

\* Values that reach the registers, or the EEPROM, without a further check.
RangeInv ==
    \A f \in Checked :
        live[f] \in Good /\ saved[f] \in Good /\ temp[f] \in Good /\ eeprom[f] \in Good

\* What the devices were given, with the copy a reset of the chip uses.
UseInv ==
    running =>
        /\ uart = live["RS485"]
        /\ "NET" \in keyed \/ (net = live["NET"] /\ ip = live["NET"])
        /\ "PCPORT" \in keyed \/ client = live["PCPORT"]

\* The menu's values that were not edited are the program's.
MenuInv == menu = "open" => \A f \in Fields \ edited : temp[f] = saved[f]

Ind == TypeOK /\ CopiesAgree /\ RangeInv /\ UseInv /\ MemoryMatches /\ MenuInv

-----------------------------------------------------------------------------
(* The operators.                                                          *)

\* A request laid over a bank is a bank (the copy at pc_modbus.c:188-199).
LEMMA WrittenIsBank ==
    ASSUME NEW bank \in Banks, NEW block \in Blocks, NEW new \in [block -> Values]
    PROVE  Written(bank, block, new) \in Banks
BY ConfigurationAssumption DEF Written, Banks

\* The program's variables hold a bank whose limit fits its six digits, and
\* differ from the registers in the limit only (config_variables).
LEMMA ClampedIsBank ==
    ASSUME NEW bank \in Banks
    PROVE  /\ Clamped(bank) \in Banks /\ Clamped(bank)["LIMIT"] \in Good
           /\ \A f \in Fields \ {"LIMIT"} : Clamped(bank)[f] = bank[f]
           /\ bank["LIMIT"] \in Good => Clamped(bank) = bank
<1>1. "LIMIT" \in Fields
  BY DEF Fields
<1>2. Good \subseteq Values
  BY DEF Values
<1> QED BY <1>1, <1>2, ConfigurationAssumption DEF Clamped, Banks

\* What is loaded at boot is a bank (config_modbus_registers).
LEMMA RestoredIsBank ==
    ASSUME TypeOK, NEW readOk \in BOOLEAN
    PROVE  /\ Restored(Loaded(readOk)) \in Banks
           /\ Restored(Loaded(readOk))["FREQ"] = Default
           /\ \A f \in Fields \ {"FREQ"} : Restored(Loaded(readOk))[f] = Loaded(readOk)[f]
           /\ Loaded(readOk) = IF readOk /\ magic THEN eeprom ELSE AllDefault
           /\ AllDefault \in Banks
<1>1. Default \in Values /\ "FREQ" \in Fields
  BY ConfigurationAssumption DEF Values, Fields
<1>2. AllDefault \in Banks
  BY <1>1 DEF AllDefault, Banks
<1>3. Loaded(readOk) \in Banks
  BY <1>2 DEF Loaded, TypeOK
<1> QED BY <1>1, <1>2, <1>3 DEF Restored, Loaded, Banks

\* A save, whole, failed or torn, leaves a bank in the EEPROM, each field old
\* or new, and counts a failure within the bound.
LEMMA SaveOutcome ==
    ASSUME TypeOK, running, NEW bank \in Banks, SaveConfig(bank)
    PROVE  /\ eeprom' \in Banks /\ magic' \in BOOLEAN /\ running' \in BOOLEAN
           /\ memory' \in {"current", "behind"} /\ faults' \in 0..MaxFaults
           /\ \A f \in Fields : eeprom'[f] = bank[f] \/ eeprom'[f] = eeprom[f]
           /\ memory' = "current" => magic' /\ eeprom' = bank
<1> DEFINE Count == faults < MaxFaults /\ faults' = faults + 1
<1>1. faults' = faults \/ Count => faults' \in 0..MaxFaults
  BY ConfigurationAssumption DEF TypeOK
<1>2. CASE eeprom' = bank /\ magic' = TRUE /\ memory' = "current" /\ UNCHANGED <<running, faults>>
  BY <1>1, <1>2 DEF TypeOK
<1>3. CASE /\ Count /\ memory' = "behind" /\ running' \in BOOLEAN /\ magic' \in BOOLEAN
           /\ \E done \in SUBSET {f \in Fields : bank[f] # eeprom[f]} :
                eeprom' = [f \in Fields |-> IF f \in done THEN bank[f] ELSE eeprom[f]]
  <2>1. PICK done \in SUBSET {f \in Fields : bank[f] # eeprom[f]} :
          eeprom' = [f \in Fields |-> IF f \in done THEN bank[f] ELSE eeprom[f]]
    BY <1>3
  <2>2. eeprom' \in Banks
    BY <2>1 DEF Banks, TypeOK
  <2> QED BY <1>1, <1>3, <2>1, <2>2 DEF TypeOK
<1> QED BY <1>2, <1>3 DEF SaveConfig

-----------------------------------------------------------------------------
(* What the actions that save do, in one statement each.                   *)

\* A write of the PC, on either link, installs a checked bank.
LEMMA PcWriteEffect ==
    ASSUME TypeOK, CopiesAgree, PcWrite
    PROVE  \E bank \in Banks :
              /\ running /\ Install(bank, live)
              /\ \A f \in Fields \ {"LIMIT"} : bank[f] \in Good \/ bank[f] = live[f]
              /\ \/ bank["LIMIT"] \in Good
                 \/ bank["LIMIT"] = live["LIMIT"]
                 \/ staged \in Good /\ staged' = staged
              /\ staged' \in Values /\ writes' \in 0..MaxWrites
              /\ UNCHANGED <<menu, edits>>
<1> PICK block \in Blocks : \E new \in [block -> Values] :
        RtuWrite(block, new) \/ TcpWrite(block, new)
  BY DEF PcWrite
<1> PICK new \in [block -> Values] : RtuWrite(block, new) \/ TcpWrite(block, new)
  OBVIOUS
<1>1. running /\ writes' \in 0..MaxWrites
  BY ConfigurationAssumption DEF RtuWrite, TcpWrite, CountWrite, TypeOK
<1>2. live \in Banks /\ tcp = live /\ "LIMIT" \in Fields
  BY <1>1 DEF TypeOK, CopiesAgree, Fields
<1> DEFINE request == Written(live, block, new)
<1>3. request \in Banks
  BY <1>2, WrittenIsBank
<1> HIDE DEF request
<1>4. CASE RtuWrite(block, new)
  <2> DEFINE bank == Validated(request, live, request["LIMIT"] \in Good)
  <2>1. /\ Install(bank, live) /\ staged' = bank["LIMIT"] /\ UNCHANGED <<menu, edits>>
    BY <1>4 DEF RtuWrite, request
  <2>2. /\ bank \in Banks
        /\ \A f \in Fields \ {"LIMIT"} : bank[f] \in Good \/ bank[f] = live[f]
        /\ bank["LIMIT"] = IF request["LIMIT"] \in Good THEN request["LIMIT"] ELSE live["LIMIT"]
    BY <1>2, <1>3 DEF Validated, Banks
  <2>3. bank["LIMIT"] \in Values
    BY <1>2, <2>2 DEF Banks
  <2> QED BY <1>1, <2>1, <2>2, <2>3
<1>5. CASE TcpWrite(block, new)
  <2> DEFINE bank == Validated(request, live, TcpLimitPasses)
  <2>1. Install(bank, live) /\ UNCHANGED <<staged, menu, edits>>
    BY <1>2, <1>5 DEF TcpWrite, request
  <2>2. /\ bank \in Banks
        /\ \A f \in Fields \ {"LIMIT"} : bank[f] \in Good \/ bank[f] = live[f]
        /\ bank["LIMIT"] = IF TcpLimitPasses THEN request["LIMIT"] ELSE live["LIMIT"]
    BY <1>2, <1>3 DEF Validated, Banks
  <2>3. staged' \in Values
    BY <2>1 DEF TypeOK
  <2> QED BY <1>1, <2>1, <2>2, <2>3 DEF TcpLimitPasses
<1> QED BY <1>4, <1>5

-----------------------------------------------------------------------------
(* The inductive invariant, one lemma per conjunct.                        *)

LEMMA InitInd == Init => Ind
<1> SUFFICES ASSUME Init PROVE Ind
  OBVIOUS
<1>1. Default \in Values /\ "LIMIT" \in Fields
  BY ConfigurationAssumption DEF Values, Fields
<1>2. AllDefault \in Banks /\ \A f \in Fields : AllDefault[f] = Default
  BY <1>1 DEF AllDefault, Banks
<1>3. TypeOK
  <2>1. AllDefault["LIMIT"] \in Good /\ 0 \in 0..MaxWrites /\ 0 \in 0..MaxEdits /\ 0 \in 0..MaxFaults
    BY <1>1, <1>2, ConfigurationAssumption
  <2> QED BY <1>1, <1>2, <2>1 DEF Init, TypeOK
<1>4. RangeInv
  BY <1>2, ConfigurationAssumption DEF Init, RangeInv, Checked, Fields
<1> QED BY <1>3, <1>4 DEF Init, Ind, CopiesAgree, UseInv, MemoryMatches, MenuInv

LEMMA TypeStep == TypeOK /\ CopiesAgree /\ [Next]_vars => TypeOK'
<1> SUFFICES ASSUME TypeOK, CopiesAgree, [Next]_vars PROVE TypeOK'
  OBVIOUS
<1> USE DEF registers, screens, chip, devices
<1>1. CASE PcWrite
  <2> PICK bank \in Banks : /\ running /\ Install(bank, live)
                            /\ staged' \in Values /\ writes' \in 0..MaxWrites
                            /\ UNCHANGED <<menu, edits>>
    BY <1>1, PcWriteEffect
  <2>1. /\ eeprom' \in Banks /\ magic' \in BOOLEAN /\ running' \in BOOLEAN
        /\ memory' \in {"current", "behind"} /\ faults' \in 0..MaxFaults
    BY SaveOutcome DEF Install
  <2>2. Clamped(bank) \in Banks /\ Clamped(bank)["LIMIT"] \in Good
    BY ClampedIsBank
  <2>3. bank["RS485"] \in Values /\ bank["NET"] \in Values /\ bank["PCPORT"] \in Values
    BY DEF Banks, Fields
  <2>4. uart' \in Values /\ net' \in Values /\ ip' \in Values /\ client' \in Values
    BY <2>3 DEF Install, Reapply, ConfigVariables, TypeOK
  <2>5. keyed' \subseteq {"NET", "PCPORT"}
    BY DEF Install, TypeOK
  <2> QED BY <2>1, <2>2, <2>4, <2>5 DEF Install, ConfigVariables, RefreshLcd, TypeOK
<1>2. CASE RtuPress
  <2>1. live["LIMIT"] \in Values
    BY DEF TypeOK, Banks, Fields
  <2> QED BY <1>2, <2>1, ConfigurationAssumption DEF RtuPress, CountWrite, TypeOK
<1>3. CASE OpenMenu
  BY <1>3 DEF OpenMenu, TypeOK
<1>4. ASSUME NEW f \in Fields, NEW v \in Values, EditField(f, v) PROVE TypeOK'
  <2>1. temp' \in Banks
    BY <1>4 DEF EditField, TypeOK, Banks
  <2>2. temp'["LIMIT"] \in Good
    BY <1>4 DEF EditField, MenuChoices, TypeOK, Banks
  <2> QED BY <1>4, <2>1, <2>2, ConfigurationAssumption DEF EditField, TypeOK
<1>5. CASE SaveMenu
  <2>1. /\ eeprom' \in Banks /\ magic' \in BOOLEAN /\ running' \in BOOLEAN
        /\ memory' \in {"current", "behind"} /\ faults' \in 0..MaxFaults
    BY <1>5, SaveOutcome DEF SaveMenu, TypeOK
  <2>2. temp["RS485"] \in Values /\ temp["NET"] \in Values
    BY DEF TypeOK, Banks, Fields
  <2>3. uart' \in Values /\ net' \in Values
    BY <1>5, <2>2 DEF SaveMenu, Reapply, TypeOK
  <2> QED BY <1>5, <2>1, <2>3 DEF SaveMenu, TypeOK
<1>6. CASE CloseMenu
  BY <1>6 DEF CloseMenu, TypeOK
<1>7. CASE UartError
  BY <1>7 DEF UartError, TypeOK, Banks, Fields
<1>8. CASE ChipReset
  BY <1>8 DEF ChipReset, TypeOK
<1>9. CASE PowerLoss
  <2>1. faults' \in 0..MaxFaults
    BY <1>9, ConfigurationAssumption DEF PowerLoss, TypeOK
  <2> QED BY <1>9, <2>1 DEF PowerLoss, TypeOK
<1>10. ASSUME NEW readOk \in BOOLEAN, Boot(readOk) PROVE TypeOK'
  <2> DEFINE bank == Restored(Loaded(readOk))
  <2>1. bank \in Banks /\ AllDefault \in Banks
    BY RestoredIsBank
  <2>2. Clamped(bank) \in Banks /\ Clamped(bank)["LIMIT"] \in Good
    BY <2>1, ClampedIsBank
  <2>3. bank["RS485"] \in Values /\ bank["NET"] \in Values /\ bank["PCPORT"] \in Values
    BY <2>1 DEF Banks, Fields
  <2>4. Default \in Values /\ AllDefault["LIMIT"] \in Good
    BY ConfigurationAssumption DEF Values, AllDefault, Fields
  <2>5. faults' \in 0..MaxFaults
    BY <1>10, ConfigurationAssumption DEF Boot, TypeOK
  <2> HIDE DEF bank
  <2>6. /\ live' = bank /\ tcp' = bank /\ staged' = Default /\ saved' = Clamped(bank)
        /\ ip' = bank["NET"] /\ client' = bank["PCPORT"] /\ temp' = AllDefault
        /\ menu' = "closed" /\ edited' = {} /\ keyed' = {}
        /\ uart' = bank["RS485"] /\ net' = bank["NET"]
        /\ memory' \in {"current", "behind"} /\ running' = TRUE
        /\ UNCHANGED <<eeprom, magic, writes, edits>>
    BY <1>10 DEF Boot, ConfigVariables, bank
  <2> QED BY <2>1, <2>2, <2>3, <2>4, <2>5, <2>6 DEF TypeOK
<1>11. CASE UNCHANGED vars
  BY <1>11 DEF vars, TypeOK
<1> QED BY <1>1, <1>2, <1>3, <1>4, <1>5, <1>6, <1>7, <1>8, <1>9, <1>10, <1>11 DEF Next, Keypad

LEMMA CopiesStep == TypeOK /\ CopiesAgree /\ [Next]_vars => CopiesAgree'
<1> SUFFICES ASSUME TypeOK, CopiesAgree, [Next]_vars PROVE CopiesAgree'
  OBVIOUS
<1> USE DEF registers, screens, chip, devices
<1>1. CASE PcWrite
  BY <1>1, PcWriteEffect DEF Install, ConfigVariables, CopiesAgree
<1>2. CASE SaveMenu
  <2>1. Clamped(temp) = temp
    BY ClampedIsBank DEF TypeOK
  <2> QED BY <1>2, <2>1 DEF SaveMenu, CopiesAgree
<1>3. ASSUME NEW readOk \in BOOLEAN, Boot(readOk) PROVE CopiesAgree'
  BY <1>3 DEF Boot, ConfigVariables, CopiesAgree
<1>4. CASE RtuPress
  BY <1>4 DEF RtuPress, CountWrite, CopiesAgree, Clamped
<1>5. CASE OpenMenu \/ CloseMenu
  BY <1>5 DEF OpenMenu, CloseMenu, CopiesAgree, Clamped
<1>6. ASSUME NEW f \in Fields, NEW v \in Values, EditField(f, v) PROVE CopiesAgree'
  BY <1>6 DEF EditField, CopiesAgree, Clamped
<1>7. CASE UartError \/ ChipReset \/ PowerLoss
  BY <1>7 DEF UartError, ChipReset, PowerLoss, CopiesAgree, Clamped
<1>8. CASE UNCHANGED vars
  BY <1>8 DEF vars, CopiesAgree, Clamped
<1> QED BY <1>1, <1>2, <1>3, <1>4, <1>5, <1>6, <1>7, <1>8 DEF Next, Keypad

LEMMA RangeStep == TypeOK /\ CopiesAgree /\ RangeInv /\ [Next]_vars => RangeInv'
<1> SUFFICES ASSUME TypeOK, CopiesAgree, RangeInv, [Next]_vars,
                    NEW f \in Checked
             PROVE  live'[f] \in Good /\ saved'[f] \in Good /\ temp'[f] \in Good
                      /\ eeprom'[f] \in Good
  BY DEF RangeInv
<1>0. f \in Fields \ {"LIMIT"} /\ live[f] \in Good /\ saved[f] \in Good
        /\ temp[f] \in Good /\ eeprom[f] \in Good
  BY DEF Checked, Fields, RangeInv
<1> USE DEF registers, screens, chip, devices
<1>1. CASE PcWrite
  <2> PICK bank \in Banks :
        /\ running /\ Install(bank, live)
        /\ \A g \in Fields \ {"LIMIT"} : bank[g] \in Good \/ bank[g] = live[g]
    BY <1>1, PcWriteEffect
  <2>1. bank[f] \in Good
    BY <1>0
  <2>2. Clamped(bank)[f] = bank[f]
    BY <1>0, ClampedIsBank
  <2>3. eeprom'[f] = bank[f] \/ eeprom'[f] = eeprom[f]
    BY <1>0, SaveOutcome DEF Install
  <2> QED BY <1>0, <2>1, <2>2, <2>3 DEF Install, ConfigVariables, RefreshLcd
<1>2. CASE SaveMenu
  <2>1. eeprom'[f] = temp[f] \/ eeprom'[f] = eeprom[f]
    BY <1>0, <1>2, SaveOutcome DEF SaveMenu, TypeOK
  <2> QED BY <1>0, <1>2, <2>1 DEF SaveMenu
<1>3. ASSUME NEW readOk \in BOOLEAN, Boot(readOk)
      PROVE  live'[f] \in Good /\ saved'[f] \in Good /\ temp'[f] \in Good
               /\ eeprom'[f] \in Good
  <2> DEFINE bank == Restored(Loaded(readOk))
  <2>1. AllDefault[f] \in Good
    BY <1>0, ConfigurationAssumption DEF AllDefault
  <2>2. bank \in Banks /\ bank[f] \in Good
    BY <1>0, <2>1, RestoredIsBank, ConfigurationAssumption
  <2> HIDE DEF bank
  <2>3. Clamped(bank)[f] = bank[f]
    BY <1>0, <2>2, ClampedIsBank
  <2>4. live' = bank /\ saved' = Clamped(bank) /\ temp' = AllDefault /\ eeprom' = eeprom
    BY <1>3 DEF Boot, ConfigVariables, bank
  <2> QED BY <1>0, <2>1, <2>2, <2>3, <2>4
<1>4. CASE RtuPress
  BY <1>0, <1>4 DEF RtuPress
<1>5. CASE OpenMenu \/ CloseMenu
  BY <1>0, <1>5 DEF OpenMenu, CloseMenu
<1>6. ASSUME NEW g \in Fields, NEW v \in Values, EditField(g, v)
      PROVE  live'[f] \in Good /\ saved'[f] \in Good /\ temp'[f] \in Good
               /\ eeprom'[f] \in Good
  <2>1. temp'[f] \in Good
    BY <1>0, <1>6 DEF EditField, MenuChoices, Checked, TypeOK, Banks
  <2> QED BY <1>0, <1>6, <2>1 DEF EditField
<1>7. CASE UartError \/ ChipReset \/ PowerLoss
  BY <1>0, <1>7 DEF UartError, ChipReset, PowerLoss
<1>8. CASE UNCHANGED vars
  BY <1>0, <1>8 DEF vars
<1> QED BY <1>1, <1>2, <1>3, <1>4, <1>5, <1>6, <1>7, <1>8 DEF Next, Keypad

LEMMA UseStep == TypeOK /\ CopiesAgree /\ UseInv /\ [Next]_vars => UseInv'
<1> SUFFICES ASSUME TypeOK, CopiesAgree, UseInv, [Next]_vars PROVE UseInv'
  OBVIOUS
<1> USE DEF registers, screens, chip, devices
<1>1. CASE PcWrite
  BY <1>1, PcWriteEffect DEF Install, Reapply, ConfigVariables, UseInv
<1>2. CASE SaveMenu
  <2>1. /\ saved["RS485"] = live["RS485"] /\ saved["NET"] = live["NET"]
        /\ saved["PCPORT"] = live["PCPORT"]
    BY <1>2, ClampedIsBank DEF SaveMenu, CopiesAgree, TypeOK, Fields
  <2> QED BY <1>2, <2>1 DEF SaveMenu, Reapply, UseInv
<1>3. ASSUME NEW readOk \in BOOLEAN, Boot(readOk) PROVE UseInv'
  BY <1>3 DEF Boot, ConfigVariables, UseInv
<1>4. CASE RtuPress
  BY <1>4 DEF RtuPress, CountWrite, UseInv
<1>5. CASE OpenMenu \/ CloseMenu
  BY <1>5 DEF OpenMenu, CloseMenu, UseInv
<1>6. ASSUME NEW f \in Fields, NEW v \in Values, EditField(f, v) PROVE UseInv'
  BY <1>6 DEF EditField, UseInv
<1>7. CASE UartError \/ ChipReset \/ PowerLoss
  BY <1>7 DEF UartError, ChipReset, PowerLoss, UseInv
<1>8. CASE UNCHANGED vars
  BY <1>8 DEF vars, UseInv
<1> QED BY <1>1, <1>2, <1>3, <1>4, <1>5, <1>6, <1>7, <1>8 DEF Next, Keypad

LEMMA MemoryStep == TypeOK /\ CopiesAgree /\ MemoryMatches /\ [Next]_vars => MemoryMatches'
<1> SUFFICES ASSUME TypeOK, CopiesAgree, MemoryMatches, [Next]_vars PROVE MemoryMatches'
  OBVIOUS
<1> USE DEF registers, screens, chip, devices
<1>1. CASE PcWrite
  BY <1>1, PcWriteEffect, SaveOutcome DEF Install, MemoryMatches
<1>2. CASE SaveMenu
  BY <1>2, SaveOutcome DEF SaveMenu, TypeOK, MemoryMatches
<1>3. ASSUME NEW readOk \in BOOLEAN, Boot(readOk) PROVE MemoryMatches'
  BY <1>3, RestoredIsBank DEF Boot, MemoryMatches
<1>4. CASE RtuPress
  BY <1>4 DEF RtuPress, MemoryMatches
<1>5. CASE OpenMenu \/ CloseMenu
  BY <1>5 DEF OpenMenu, CloseMenu, MemoryMatches
<1>6. ASSUME NEW f \in Fields, NEW v \in Values, EditField(f, v) PROVE MemoryMatches'
  BY <1>6 DEF EditField, MemoryMatches
<1>7. CASE UartError \/ ChipReset \/ PowerLoss
  BY <1>7 DEF UartError, ChipReset, PowerLoss, MemoryMatches
<1>8. CASE UNCHANGED vars
  BY <1>8 DEF vars, MemoryMatches
<1> QED BY <1>1, <1>2, <1>3, <1>4, <1>5, <1>6, <1>7, <1>8 DEF Next, Keypad

LEMMA MenuStep == TypeOK /\ CopiesAgree /\ MenuInv /\ [Next]_vars => MenuInv'
<1> SUFFICES ASSUME TypeOK, CopiesAgree, MenuInv, [Next]_vars PROVE MenuInv'
  OBVIOUS
<1> USE DEF registers, screens, chip, devices
<1>1. CASE PcWrite
  BY <1>1, PcWriteEffect DEF Install, RefreshLcd, MenuInv
<1>2. CASE SaveMenu
  BY <1>2 DEF SaveMenu, MenuInv
<1>3. ASSUME NEW readOk \in BOOLEAN, Boot(readOk) PROVE MenuInv'
  BY <1>3 DEF Boot, MenuInv
<1>4. CASE RtuPress
  BY <1>4 DEF RtuPress, MenuInv
<1>5. CASE OpenMenu \/ CloseMenu
  BY <1>5 DEF OpenMenu, CloseMenu, MenuInv
<1>6. ASSUME NEW f \in Fields, NEW v \in Values, EditField(f, v) PROVE MenuInv'
  BY <1>6 DEF EditField, MenuInv, TypeOK, Banks
<1>7. CASE UartError \/ ChipReset \/ PowerLoss
  BY <1>7 DEF UartError, ChipReset, PowerLoss, MenuInv
<1>8. CASE UNCHANGED vars
  BY <1>8 DEF vars, MenuInv
<1> QED BY <1>1, <1>2, <1>3, <1>4, <1>5, <1>6, <1>7, <1>8 DEF Next, Keypad

-----------------------------------------------------------------------------
(* The theorems.                                                           *)

\* The inductive invariant holds in every reachable state, whatever the PC,
\* the keypad, the EEPROM and the power supply do.
THEOREM Invariant == Spec => []Ind
<1>1. Ind /\ [Next]_vars => Ind'
  BY TypeStep, CopiesStep, RangeStep, UseStep, MemoryStep, MenuStep DEF Ind
<1> QED BY <1>1, InitInd, PTL DEF Spec

\* Every variable keeps its type, and the limit that is shown its six digits.
THEOREM TypeCorrect == Spec => []TypeOK
<1>1. Ind => TypeOK
  BY DEF Ind
<1> QED BY <1>1, Invariant, PTL

\* The two register banks and the program's variables agree between
\* handlers.
THEOREM BanksStayEqual == Spec => []CopiesAgree
<1>1. Ind => CopiesAgree
  BY DEF Ind
<1> QED BY <1>1, Invariant, PTL

\* The settings that every path checks stay in range, in the registers and
\* in the EEPROM.
THEOREM CheckedSettingsStayInRange == Spec => []SettingsInRange
<1>1. Ind => SettingsInRange
  BY DEF Ind, RangeInv, SettingsInRange, Checked
<1> QED BY <1>1, Invariant, PTL

\* The devices work with the registers' values, but for what the keypad
\* changed last.
THEOREM DevicesFollowRegisters == Spec => []SettingsInUse
<1>1. Ind => SettingsInUse
  BY DEF Ind, UseInv, SettingsInUse
<1> QED BY <1>1, Invariant, PTL

\* After a successful save or load the EEPROM holds the registers.
THEOREM MemoryIsCurrent == Spec => []MemoryMatches
<1>1. Ind => MemoryMatches
  BY DEF Ind
<1> QED BY <1>1, Invariant, PTL

\* A restart restores every setting that is restored at all.
THEOREM RestartRestores == Spec => RestartKeepsSettings
<1> DEFINE Keeps == ~running /\ running' /\ memory = "current" /\ memory' = "current"
                      => \A f \in Fields \ {"FREQ"} : live'[f] = live[f]
<1>1. Ind /\ [Next]_vars => [Keeps]_vars
  <2> SUFFICES ASSUME Ind, Next, ~running, running', memory = "current", memory' = "current"
               PROVE  \A f \in Fields \ {"FREQ"} : live'[f] = live[f]
    OBVIOUS
  <2>1. ~PcWrite
    BY PcWriteEffect DEF Ind
  <2>2. PICK readOk \in BOOLEAN : Boot(readOk)
    BY <2>1 DEF Next, Keypad, RtuPress, CountWrite, OpenMenu, EditField, SaveMenu, CloseMenu,
                UartError, ChipReset, PowerLoss
  <2> QED BY <2>2, RestoredIsBank DEF Boot, Ind, MemoryMatches
<1> QED BY <1>1, Invariant, PTL DEF Spec, RestartKeepsSettings

\* A save from the menu changes what was edited there and nothing else.
THEOREM MenuSavesOnlyEdits == Spec => SaveChangesOnlyEdits
<1> DEFINE Only == SaveMenu =>
        \A f \in Fields : live'[f] # live[f] =>
            \/ f \in edited
            \/ f = "LIMIT" /\ live["LIMIT"] \notin Good
<1>1. Ind => Only
  <2> SUFFICES ASSUME Ind, SaveMenu, NEW f \in Fields, f \notin edited,
                      ~(f = "LIMIT" /\ live["LIMIT"] \notin Good)
               PROVE  live'[f] = live[f]
    OBVIOUS
  <2>1. live' = temp /\ temp[f] = saved[f] /\ saved = Clamped(live) /\ live \in Banks
    BY DEF SaveMenu, Ind, MenuInv, CopiesAgree, TypeOK
  <2>2. Clamped(live)[f] = live[f]
    BY <2>1, ClampedIsBank
  <2> QED BY <2>1, <2>2
<1>2. Ind /\ [Next]_vars => [Only]_vars
  BY <1>1
<1> QED BY <1>2, Invariant, PTL DEF Spec, SaveChangesOnlyEdits

\* While the program runs, only an unchecked edit of an address or port, or
\* the TCP write of a limit, takes a register out of its range.
THEOREM RangeIsLostOnlyThere == Spec => RangeLostOnlyUnchecked
<1> DEFINE Lost == running /\ running' =>
        \A f \in Fields : live[f] \in Good /\ live'[f] \notin Good =>
            \/ f \in {"NET", "PCPORT"} \cap edited
            \/ f = "LIMIT" /\ staged \in Good /\ staged' = staged
<1>1. Ind /\ [Next]_vars => [Lost]_vars
  <2> SUFFICES ASSUME Ind, Next, running, NEW f \in Fields,
                      live[f] \in Good, live'[f] \notin Good
               PROVE  \/ f \in {"NET", "PCPORT"} \cap edited
                      \/ f = "LIMIT" /\ staged \in Good /\ staged' = staged
    OBVIOUS
  <2> USE DEF registers, screens, chip, devices
  <2>1. CASE PcWrite
    BY <2>1, PcWriteEffect DEF Install, Ind
  <2>2. CASE SaveMenu
    <3>1. temp[f] \notin Good /\ f # "LIMIT" /\ f \notin Checked
      BY <2>2 DEF SaveMenu, Ind, RangeInv, TypeOK
    <3>2. saved[f] = live[f]
      BY <3>1, ClampedIsBank DEF Ind, CopiesAgree, TypeOK
    <3>3. menu = "open" /\ temp[f] # saved[f]
      BY <2>2, <3>1, <3>2 DEF SaveMenu
    <3>4. f \in edited
      BY <3>3 DEF Ind, MenuInv
    <3> QED BY <3>1, <3>4 DEF Checked, Fields
  <2>3. CASE UNCHANGED live
    BY <2>3
  <2>4. CASE RtuPress \/ UartError \/ ChipReset \/ PowerLoss
    BY <2>3, <2>4 DEF RtuPress, UartError, ChipReset, PowerLoss
  <2>5. CASE OpenMenu \/ CloseMenu \/ \E g \in Fields, v \in Values : EditField(g, v)
    BY <2>3, <2>5 DEF OpenMenu, CloseMenu, EditField
  <2>6. CASE \E readOk \in BOOLEAN : Boot(readOk)
    BY <2>6 DEF Boot
  <2> QED BY <2>1, <2>2, <2>4, <2>5, <2>6 DEF Next, Keypad
<1> QED BY <1>1, Invariant, PTL DEF Spec, RangeLostOnlyUnchecked

=============================================================================
