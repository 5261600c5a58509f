------------------------- MODULE FaultHandlerProofs -------------------------
(***************************************************************************)
(* Theorems about FaultHandler, for every set of doses, limits in any      *)
(* order, operating modes and PC writes. Liveness is proved from FairSpec  *)
(* and WhenEnabled.                                                        *)
(***************************************************************************)
EXTENDS FaultHandler, TLAPS

USE DosesAssumption, LimitsAssumption, ModesAssumption, VoltagesAssumption,
    BlocksAssumption, ExportsAssumption
    DEF DosesAssumption, LimitsAssumption, ModesAssumption, VoltagesAssumption,
        BlocksAssumption, ExportsAssumption

Machines == [flag : States, regs : SUBSET StatusRegs, tainted : SUBSET StatusRegs,
             ackTimer : {"running", "expired"},
             hvTimer : {"unset", "running", "expired"}]

Agrees(m) == m.regs \ m.tainted = Shown(m.flag) \ m.tainted

(* Writing some registers leaves the rest alone, tainted or not.           *)
LEMMA SetRegsStage ==
  ASSUME NEW m \in Machines, NEW ones \in SUBSET StatusRegs, NEW zeros
  PROVE  LET n == SetRegs(m, ones, zeros)
         IN /\ n \in Machines
            /\ n.flag = m.flag /\ n.ackTimer = m.ackTimer /\ n.hvTimer = m.hvTimer
            /\ n.regs = (m.regs \ zeros) \cup ones
            /\ n.tainted = m.tainted \ (ones \cup zeros)
  BY DEF SetRegs, Machines

(* It shows the new state if that differs from the one shown before in no  *)
(* register but those written.                                             *)
LEMMA SetRegsShows ==
  ASSUME NEW r, NEW t, NEW ones, NEW zeros, NEW old, NEW new,
         r \ t = old \ t, old \ (ones \cup zeros) = new \ (ones \cup zeros),
         ones \subseteq new, new \cap zeros \subseteq ones
  PROVE  ((r \ zeros) \cup ones) \ (t \ (ones \cup zeros)) = new \ (t \ (ones \cup zeros))
  <1>1. ASSUME NEW x PROVE x \in r \ t <=> x \in old \ t
    OBVIOUS
  <1>2. ASSUME NEW x PROVE x \in old \ (ones \cup zeros) <=> x \in new \ (ones \cup zeros)
    OBVIOUS
  <1> QED BY <1>1, <1>2

LEMMA Members == /\ {"Normal", "Hv_Fault", "Dtc_Failed"} \subseteq States
                 /\ Acked \subseteq States /\ Raised \subseteq States
                 /\ Raised \subseteq StatusRegs
                 /\ {"ACK", "Reset", "Hv_Fault", "Dtc_Fault"} \subseteq StatusRegs
  BY DEF States, StatusRegs, Raised

Covers(from, to, ones, zeros) ==
  /\ Shown(from) \ (ones \cup zeros) = Shown(to) \ (ones \cup zeros)
  /\ ones \subseteq Shown(to) /\ Shown(to) \cap zeros \subseteq ones

LEMMA SetRegsAgrees ==
  ASSUME NEW m \in Machines, NEW ones \in SUBSET StatusRegs, NEW zeros, NEW n \in Machines,
         n.regs = SetRegs(m, ones, zeros).regs, n.tainted = SetRegs(m, ones, zeros).tainted,
         Covers(m.flag, n.flag, ones, zeros)
  PROVE  Agrees(m) => Agrees(n)
  BY SetRegsStage, SetRegsShows DEF Agrees, Covers

(* Each stage of the pipeline yields a machine, and keeps the registers    *)
(* that no PC has written in agreement with the flag.                      *)
LEMMA LinkStage ==
  ASSUME NEW m \in Machines
  PROVE  /\ LinkStep(m) \in Machines
         /\ Agrees(m) \/ LinkFailed # Prev_Dtc_Failed_Status => Agrees(LinkStep(m))
  <1>1. CASE LinkFailed = Prev_Dtc_Failed_Status
    BY <1>1 DEF LinkStep
  <1>2. ASSUME NEW one \in {"Dtc_Fault", "Reset"}
        PROVE  LET n == SetRegs(m, {one}, StatusRegs \ {one})
               IN n \in Machines /\ n.regs = {one} /\ n.tainted = {}
    <2> DEFINE n == SetRegs(m, {one}, StatusRegs \ {one})
    <2>1. {one} \in SUBSET StatusRegs /\ m.regs \subseteq StatusRegs /\ m.tainted \subseteq StatusRegs
      BY Members DEF Machines
    <2>2. n \in Machines /\ n.regs = (m.regs \ (StatusRegs \ {one})) \cup {one}
          /\ n.tainted = m.tainted \ ({one} \cup (StatusRegs \ {one}))
      <3>1. n \in Machines
        BY <2>1, SetRegsStage
      <3>2. /\ n.regs = (m.regs \ (StatusRegs \ {one})) \cup {one}
            /\ n.tainted = m.tainted \ ({one} \cup (StatusRegs \ {one}))
        BY DEF SetRegs, Machines
      <3> QED BY <3>1, <3>2
    <2> HIDE DEF n
    <2>3. n.tainted = {}
      BY <2>1, <2>2
    <2>4. (m.regs \ (StatusRegs \ {one})) \cup {one} = {one}
      BY <2>1
    <2> QED BY <2>2, <2>3, <2>4 DEF n
  <1>3. Shown("Dtc_Failed") = {"Dtc_Fault"} /\ Shown("Normal") = {"Reset"}
    BY DEF Shown, Raised
  <1>4. CASE LinkFailed # Prev_Dtc_Failed_Status /\ LinkFailed /\ ~Prev_Dtc_Failed_Status
    <2> DEFINE n == SetRegs(m, {"Dtc_Fault"}, StatusRegs \ {"Dtc_Fault"})
    <2>1. LinkStep(m) = [n EXCEPT !.flag = "Dtc_Failed"]
      BY <1>4 DEF LinkStep
    <2>2. n \in Machines /\ n.regs = {"Dtc_Fault"} /\ n.tainted = {}
      BY <1>2
    <2> HIDE DEF n
    <2> QED BY <1>3, <2>1, <2>2, Members DEF Machines, Agrees
  <1>5. CASE LinkFailed # Prev_Dtc_Failed_Status /\ ~(LinkFailed /\ ~Prev_Dtc_Failed_Status)
    <2> DEFINE n == SetRegs(m, {"Reset"}, StatusRegs \ {"Reset"})
    <2>1. LinkStep(m) = [n EXCEPT !.flag = "Normal", !.hvTimer = "running"]
      BY <1>5 DEF LinkStep
    <2>2. n \in Machines /\ n.regs = {"Reset"} /\ n.tainted = {}
      BY <1>2
    <2> HIDE DEF n
    <2> QED BY <1>3, <2>1, <2>2, Members DEF Machines, Agrees
  <1> QED BY <1>1, <1>4, <1>5

LEMMA AnnunciateStage ==
  ASSUME NEW m \in Machines, NEW a \in Raised, NEW cleared
  PROVE  LET n == Annunciate(m, a, cleared)
         IN /\ n \in Machines /\ n.flag = a
            /\ Covers(m.flag, a, {a}, cleared) /\ Agrees(m) => Agrees(n)
  <1> DEFINE n == SetRegs(m, {a}, cleared)
             k == Annunciate(m, a, cleared)
  <1>1. {a} \in SUBSET StatusRegs /\ a \in States
    BY Members
  <1>2. n \in Machines
    BY <1>1, SetRegsStage
  <1>3. k = [n EXCEPT !.flag = a, !.ackTimer = "running"]
    BY DEF Annunciate
  <1> HIDE DEF n, k
  <1>4. k \in Machines /\ k.flag = a /\ k.regs = n.regs /\ k.tainted = n.tainted
    BY <1>1, <1>2, <1>3 DEF Machines
  <1>5. Covers(m.flag, a, {a}, cleared) => (Agrees(m) => Agrees(k))
    BY <1>1, <1>4, SetRegsAgrees DEF n
  <1> QED BY <1>4, <1>5 DEF k

(* What a raise finds in the registers it does not write.                  *)
LEMMA RaiseCovers ==
  ASSUME NEW flag \in States
  PROVE  /\ flag \notin {"Overload", "Ack_OverLoad", "Dtc_Failed"}
              => Covers(flag, "Overload", {"Overload"},
                        {"Alarm", "Overrun", "Reset", "ACK", "Hv_Fault"})
         /\ flag \notin {"Overrun", "Overload", "Ack_OverLoad", "Ack_Overrun", "Dtc_Failed"}
              => Covers(flag, "Overrun", {"Overrun"}, {"Alarm", "Reset", "ACK", "Hv_Fault"})
         /\ flag \notin Raised \cup Acked \cup {"Dtc_Failed"}
              => Covers(flag, "Alarm", {"Alarm"}, {"Reset", "Hv_Fault"})
  <1>1. /\ Shown("Overload") = {"Overload"} /\ Shown("Overrun") = {"Overrun"}
        /\ Shown("Alarm") = {"Alarm"}
    BY DEF Shown, Raised
  <1>2. /\ flag \notin {"Overload", "Ack_OverLoad", "Dtc_Failed"}
              => Shown(flag) \subseteq {"Alarm", "Overrun", "Reset", "ACK", "Hv_Fault"}
        /\ flag \notin {"Overrun", "Overload", "Ack_OverLoad", "Ack_Overrun", "Dtc_Failed"}
              => Shown(flag) \subseteq {"Alarm", "Reset", "ACK", "Hv_Fault"}
        /\ flag \notin Raised \cup Acked \cup {"Dtc_Failed"}
              => Shown(flag) \subseteq {"Reset", "Hv_Fault"}
    BY DEF Shown, States, Raised, Acked
  <1> QED BY <1>1, <1>2 DEF Covers

LEMMA RaiseStage ==
  ASSUME NEW m \in Machines
  PROVE  Raise(m) \in Machines /\ (Agrees(m) => Agrees(Raise(m)))
  <1>0. m.flag \in States
    BY DEF Machines
  <1>1. CASE OverloadDue(m)
    BY <1>0, <1>1, AnnunciateStage, RaiseCovers DEF Raise, OverloadDue, Raised
  <1>2. CASE ~OverloadDue(m) /\ OverrunDue(m)
    BY <1>0, <1>2, AnnunciateStage, RaiseCovers DEF Raise, OverrunDue, Raised
  <1>3. CASE ~OverloadDue(m) /\ ~OverrunDue(m) /\ AlarmDue(m)
    <2>1. Covers(m.flag, "Alarm", {"Alarm"}, {"Reset", "Hv_Fault"})
      BY <1>0, <1>3, RaiseCovers DEF AlarmDue
    <2>2. "Alarm" \in Raised
      BY DEF Raised
    <2> QED BY <1>3, <2>1, <2>2, AnnunciateStage DEF Raise
  <1>4. CASE ~OverloadDue(m) /\ ~OverrunDue(m) /\ ~AlarmDue(m) /\ HvFaultDue(m)
    <2> DEFINE n == SetRegs(m, {"Hv_Fault"}, {"Reset"})
    <2>1. {"Hv_Fault"} \in SUBSET StatusRegs /\ n \in Machines
      BY Members, SetRegsStage
    <2>2. Raise(m) = [n EXCEPT !.flag = "Hv_Fault", !.hvTimer = "unset"]
      BY <1>4 DEF Raise
    <2> HIDE DEF n
    <2>3. /\ Raise(m) \in Machines /\ Raise(m).flag = "Hv_Fault"
          /\ Raise(m).regs = n.regs /\ Raise(m).tainted = n.tainted
      BY <2>1, <2>2, Members DEF Machines
    <2>4. Covers(m.flag, "Hv_Fault", {"Hv_Fault"}, {"Reset"})
      BY <1>4 DEF HvFaultDue, Covers, Shown, Raised, Acked
    <2> QED BY <2>1, <2>3, <2>4, SetRegsAgrees DEF n
  <1>5. CASE ~OverloadDue(m) /\ ~OverrunDue(m) /\ ~AlarmDue(m) /\ ~HvFaultDue(m)
    BY <1>5 DEF Raise
  <1> QED BY <1>1, <1>2, <1>3, <1>4, <1>5

LEMMA RecoverStage ==
  ASSUME NEW m \in Machines
  PROVE  HvRecover(m) \in Machines /\ (Agrees(m) => Agrees(HvRecover(m)))
  <1>1. CASE m.flag = "Hv_Fault" /\ hv = "in"
    <2> DEFINE n == SetRegs(m, {"Reset"}, {"Hv_Fault"})
    <2>1. {"Reset"} \in SUBSET StatusRegs /\ n \in Machines
      BY Members, SetRegsStage
    <2>2. HvRecover(m) = [n EXCEPT !.flag = "Normal"]
      BY <1>1 DEF HvRecover
    <2> HIDE DEF n
    <2>3. /\ HvRecover(m) \in Machines /\ HvRecover(m).flag = "Normal"
          /\ HvRecover(m).regs = n.regs /\ HvRecover(m).tainted = n.tainted
      BY <2>1, <2>2, Members DEF Machines
    <2>4. Covers(m.flag, "Normal", {"Reset"}, {"Hv_Fault"})
      BY <1>1 DEF Covers, Shown, Raised, Acked
    <2> QED BY <2>1, <2>3, <2>4, SetRegsAgrees DEF n
  <1>2. CASE ~(m.flag = "Hv_Fault" /\ hv = "in")
    BY <1>2 DEF HvRecover
  <1> QED BY <1>1, <1>2

LEMMA ShownRaised == \A a \in Raised : Shown(a) = {a}
  BY DEF Shown, Raised

LEMMA ShownAcked == \A a \in Raised : Shown(AckOf(a)) = {a} \cup {"ACK"} /\ AckOf(a) \in Acked
  BY DEF Shown, AckOf, Raised, Acked

LEMMA AcknowledgeStage ==
  ASSUME NEW m \in Machines
  PROVE  Acknowledge(m) \in Machines /\ (Agrees(m) => Agrees(Acknowledge(m)))
  <1>1. CASE m.flag \in Raised /\ AckGiven(m)
    <2> DEFINE n == SetRegs(m, {"ACK"}, {})
               a == AckOf(m.flag)
    <2>0. {"ACK"} \in SUBSET StatusRegs
      BY Members
    <2>1. n \in Machines /\ n.flag = m.flag
      <3>1. n \in Machines
        BY <2>0, SetRegsStage
      <3>2. n.flag = m.flag
        BY DEF SetRegs, Machines
      <3> QED BY <3>1, <3>2
    <2>2. Acknowledge(m) = [n EXCEPT !.flag = a, !.ackTimer = "running"]
      BY <1>1, <2>1 DEF Acknowledge
    <2>3. a \in States
      BY <1>1, Members, ShownAcked
    <2> HIDE DEF n
    <2>4. /\ Acknowledge(m) \in Machines /\ Acknowledge(m).flag = a
          /\ Acknowledge(m).regs = n.regs /\ Acknowledge(m).tainted = n.tainted
      <3> HIDE DEF a
      <3> QED BY <2>1, <2>2, <2>3 DEF Machines
    <2>5. Covers(m.flag, a, {"ACK"}, {})
      <3>1. Shown(m.flag) = {m.flag} /\ Shown(a) = {m.flag} \cup {"ACK"}
        BY <1>1, ShownRaised, ShownAcked
      <3> HIDE DEF a
      <3> QED BY <3>1 DEF Covers
    <2> QED BY <2>0, <2>4, <2>5, SetRegsAgrees DEF n
  <1>2. CASE ~(m.flag \in Raised /\ AckGiven(m))
    BY <1>2 DEF Acknowledge
  <1> QED BY <1>1, <1>2

LEMMA ResetStage ==
  ASSUME NEW m \in Machines
  PROVE  ResetToNormal(m) \in Machines /\ (Agrees(m) => Agrees(ResetToNormal(m)))
  <1> DEFINE cleared == {"ACK", "Overload", "Overrun", "Alarm", "Hv_Fault"}
             n == SetRegs(m, {"Reset"}, cleared)
  <1>1. CASE BelowItsLimit(m.flag) /\ (Reset_Button = 1 \/ agm_mode = 1)
    <2>1. {"Reset"} \in SUBSET StatusRegs /\ n \in Machines
      BY Members, SetRegsStage
    <2>2. ResetToNormal(m) = [n EXCEPT !.flag = "Normal"]
      BY <1>1 DEF ResetToNormal
    <2>3. Covers(m.flag, "Normal", {"Reset"}, cleared)
      <3>1. Shown(m.flag) \subseteq cleared
        BY <1>1 DEF BelowItsLimit, Shown, Raised
      <3>2. Shown("Normal") = {"Reset"}
        BY DEF Shown, Raised, Acked
      <3> QED BY <3>1, <3>2 DEF Covers
    <2> HIDE DEF n, cleared
    <2>4. /\ ResetToNormal(m) \in Machines /\ ResetToNormal(m).flag = "Normal"
          /\ ResetToNormal(m).regs = n.regs /\ ResetToNormal(m).tainted = n.tainted
      BY <2>1, <2>2, Members DEF Machines
    <2> QED BY <2>1, <2>3, <2>4, SetRegsAgrees DEF n
  <1>2. CASE ~(BelowItsLimit(m.flag) /\ (Reset_Button = 1 \/ agm_mode = 1))
    BY <1>2 DEF ResetToNormal
  <1> QED BY <1>1, <1>2

-----------------------------------------------------------------------------
(* Where the stages can take the state flag.                               *)

LEMMA LinkMove ==
  ASSUME NEW m \in Machines, Prev_Dtc_Failed_Status \in BOOLEAN
  PROVE  LET n == LinkStep(m)
         IN \/ LinkFailed = Prev_Dtc_Failed_Status /\ n = m
            \/ LinkFailed /\ ~Prev_Dtc_Failed_Status /\ n.flag = "Dtc_Failed"
            \/ ~LinkFailed /\ Prev_Dtc_Failed_Status /\ n.flag = "Normal"
                 /\ n.hvTimer = "running"
  <1>0. LinkFailed \in BOOLEAN
    BY DEF LinkFailed
  <1>1. CASE LinkFailed = Prev_Dtc_Failed_Status
    BY <1>1 DEF LinkStep
  <1>2. CASE LinkFailed /\ ~Prev_Dtc_Failed_Status
    <2>1. LinkFailed # Prev_Dtc_Failed_Status
      BY <1>2
    <2> QED BY <1>2, <2>1 DEF LinkStep, SetRegs, Machines
  <1>3. CASE ~LinkFailed /\ Prev_Dtc_Failed_Status
    <2>1. LinkFailed # Prev_Dtc_Failed_Status
      BY <1>3
    <2> QED BY <1>3, <2>1 DEF LinkStep, SetRegs, Machines
  <1> QED BY <1>0, <1>1, <1>2, <1>3

LEMMA RaiseMove ==
  ASSUME NEW m \in Machines
  PROVE  LET n == Raise(m)
         IN \/ n.flag = m.flag
            \/ m.flag # "Dtc_Failed" /\ n.flag \in Raised /\ Level(n.flag) > Level(m.flag)
            \/ m.flag = "Normal" /\ m.hvTimer = "expired" /\ n.flag = "Hv_Fault"
  <1>0. m.flag \in States
    BY DEF Machines
  <1>1. CASE OverloadDue(m)
    <2>1. Raise(m).flag = "Overload"
      BY <1>1, AnnunciateStage DEF Raise, Raised
    <2>2. m.flag # "Dtc_Failed" /\ Level("Overload") > Level(m.flag) /\ "Overload" \in Raised
      BY <1>0, <1>1 DEF OverloadDue, Level, States, Raised, Acked
    <2> QED BY <2>1, <2>2
  <1>2. CASE ~OverloadDue(m) /\ OverrunDue(m)
    <2>1. Raise(m).flag = "Overrun"
      BY <1>2, AnnunciateStage DEF Raise, Raised
    <2>2. m.flag # "Dtc_Failed" /\ Level("Overrun") > Level(m.flag) /\ "Overrun" \in Raised
      BY <1>0, <1>2 DEF OverrunDue, Level, States, Raised, Acked
    <2> QED BY <2>1, <2>2
  <1>3. CASE ~OverloadDue(m) /\ ~OverrunDue(m) /\ AlarmDue(m)
    <2>1. Raise(m).flag = "Alarm"
      BY <1>3, AnnunciateStage DEF Raise, Raised
    <2>2. m.flag # "Dtc_Failed" /\ Level("Alarm") > Level(m.flag) /\ "Alarm" \in Raised
      BY <1>0, <1>3 DEF AlarmDue, Level, States, Raised, Acked
    <2> QED BY <2>1, <2>2
  <1>4. CASE ~OverloadDue(m) /\ ~OverrunDue(m) /\ ~AlarmDue(m) /\ HvFaultDue(m)
    BY <1>4 DEF Raise, HvFaultDue, Machines
  <1>5. CASE ~OverloadDue(m) /\ ~OverrunDue(m) /\ ~AlarmDue(m) /\ ~HvFaultDue(m)
    BY <1>5 DEF Raise
  <1> QED BY <1>1, <1>2, <1>3, <1>4, <1>5

LEMMA RecoverMove ==
  ASSUME NEW m \in Machines
  PROVE  \/ HvRecover(m) = m
         \/ m.flag = "Hv_Fault" /\ HvRecover(m).flag = "Normal"
  BY DEF HvRecover, SetRegs, Machines

LEMMA AcknowledgeMove ==
  ASSUME NEW m \in Machines
  PROVE  IF m.flag \in Raised /\ AckGiven(m)
           THEN Acknowledge(m).flag = AckOf(m.flag) ELSE Acknowledge(m) = m
  BY DEF Acknowledge, SetRegs, Machines

LEMMA ResetMove ==
  ASSUME NEW m \in Machines
  PROVE  \/ ResetToNormal(m).flag = m.flag
         \/ BelowItsLimit(m.flag) /\ ResetToNormal(m).flag = "Normal"
  BY DEF ResetToNormal, Machines

LEMMA BelowIsAcked == \A f : BelowItsLimit(f) => f \in Acked
  BY DEF BelowItsLimit, Acked

LEMMA MachineType == AlarmTypes => Machine \in Machines
  BY DEF AlarmTypes, Machine, Machines

(* The machine after each stage of a check.                                *)
M1 == LinkStep(Machine)
M2 == Raise(M1)
M3 == HvRecover(M2)
M4 == Acknowledge(M3)

LEMMA StagesType ==
  AlarmTypes => /\ M1 \in Machines /\ M2 \in Machines /\ M3 \in Machines
                /\ M4 \in Machines /\ Checked \in Machines
  BY MachineType, LinkStage, RaiseStage, RecoverStage, AcknowledgeStage, ResetStage
     DEF M1, M2, M3, M4, Checked

LEMMA CheckedAgrees ==
  AlarmTypes /\ (Agrees(Machine) \/ LinkFailed # Prev_Dtc_Failed_Status) => Agrees(Checked)
  BY MachineType, StagesType, LinkStage, RaiseStage, RecoverStage, AcknowledgeStage,
     ResetStage DEF M1, M2, M3, M4, Checked

LEMMA CheckedDown ==
  AlarmTypes /\ FlagTypes /\ (State_Flag = "Dtc_Failed" <=> Prev_Dtc_Failed_Status)
    => (Checked.flag = "Dtc_Failed" <=> LinkFailed)
  <1> SUFFICES ASSUME AlarmTypes, FlagTypes,
                      State_Flag = "Dtc_Failed" <=> Prev_Dtc_Failed_Status
               PROVE  Checked.flag = "Dtc_Failed" <=> LinkFailed
    OBVIOUS
  <1>1. M1.flag = "Dtc_Failed" <=> LinkFailed
    <2>1. Prev_Dtc_Failed_Status \in BOOLEAN /\ Machine.flag = State_Flag
      BY DEF FlagTypes, Machine
    <2> QED BY <2>1, MachineType, LinkMove DEF M1
  <1>2. M2.flag = "Dtc_Failed" <=> M1.flag = "Dtc_Failed"
    BY StagesType, RaiseMove DEF M2, Raised
  <1>3. M3.flag = "Dtc_Failed" <=> M2.flag = "Dtc_Failed"
    BY StagesType, RecoverMove DEF M3
  <1>4. M4.flag = "Dtc_Failed" <=> M3.flag = "Dtc_Failed"
    BY StagesType, AcknowledgeMove, ShownAcked DEF M4, Raised, Acked
  <1>5. Checked.flag = "Dtc_Failed" <=> M4.flag = "Dtc_Failed"
    BY StagesType, ResetMove, BelowIsAcked DEF Checked, M1, M2, M3, M4, Acked
  <1> QED BY <1>1, <1>2, <1>3, <1>4, <1>5

-----------------------------------------------------------------------------
(* Type correctness, one lemma per part of TypeOK.                         *)

Others == (Superloop /\ ~Check) \/ Interrupt \/ UNCHANGED vars

LEMMA StepCases == [Next]_vars <=> Check \/ Others
  BY DEF Next, Superloop, Others

LEMMA AlarmTypesStep == AlarmTypes /\ [Next]_vars => AlarmTypes'
  <1>1. AlarmTypes /\ Check => AlarmTypes'
    <2> SUFFICES ASSUME AlarmTypes, Check PROVE AlarmTypes'
      OBVIOUS
    <2>1. /\ State_Flag' = Checked.flag /\ regs' = Checked.regs /\ prevState' = State_Flag'
          /\ tainted' = Checked.tainted
          /\ ackTimer' = Checked.ackTimer /\ hvTimer' = Checked.hvTimer
      BY DEF Check
    <2> QED BY <2>1, StagesType DEF AlarmTypes, Machines
  <1>2. AlarmTypes /\ (Superloop /\ ~Check) => AlarmTypes'
    BY DEF AlarmTypes, Superloop, CurrentLoop, WriteAnswered, Reading, Answer,
           ThreePollsUnanswered, EndExport, RequestExport, Configure, PcAck, PcReset,
           PcBlockWrite, alarmVars, outVars, histVars
  <1>3. AlarmTypes /\ Interrupt => AlarmTypes'
    BY DEF AlarmTypes, Interrupt, PressAck, PressReset, RtcSecond, AckMinutePasses,
           HvGracePasses, alarmVars, outVars, histVars
  <1>4. AlarmTypes /\ UNCHANGED vars => AlarmTypes'
    BY DEF AlarmTypes, vars, alarmVars, outVars, histVars
  <1> QED BY <1>1, <1>2, <1>3, <1>4, StepCases DEF Others

LEMMA InputTypesStep == InputTypes /\ [Next]_vars => InputTypes'
  <1>1. InputTypes /\ Superloop => InputTypes'
    BY DEF InputTypes, Limits, Superloop, Check, CurrentLoop, WriteAnswered,
           Reading, Answer, ThreePollsUnanswered, EndExport, RequestExport, Configure,
           PcAck, PcReset, PcBlockWrite, buttonVars, readVars, confVars
  <1>2. InputTypes /\ Interrupt => InputTypes'
    BY DEF InputTypes, Interrupt, PressAck, PressReset, RtcSecond, AckMinutePasses,
           HvGracePasses, buttonVars, readVars, confVars
  <1>3. InputTypes /\ UNCHANGED vars => InputTypes'
    BY DEF InputTypes, vars, buttonVars, readVars, confVars
  <1> QED BY <1>1, <1>2, <1>3 DEF Next

LEMMA FlagTypesStep == FlagTypes /\ [Next]_vars => FlagTypes'
  <1>1. FlagTypes /\ Check => FlagTypes'
    BY DEF FlagTypes, Check, LinkFailed, loopVars
  <1>2. FlagTypes /\ (Superloop /\ ~Check) => FlagTypes'
    BY DEF FlagTypes, Superloop, CurrentLoop, WriteAnswered, Reading, Answer,
           ThreePollsUnanswered, EndExport, RequestExport, Configure, PcAck, PcReset,
           PcBlockWrite, alarmVars, linkVars, loopVars, sdVars, histVars
  <1>3. FlagTypes /\ Interrupt => FlagTypes'
    BY DEF FlagTypes, Interrupt, PressAck, PressReset, RtcSecond, AckMinutePasses,
           HvGracePasses, alarmVars, linkVars, loopVars, sdVars, histVars
  <1>4. FlagTypes /\ UNCHANGED vars => FlagTypes'
    BY DEF FlagTypes, vars, alarmVars, linkVars, loopVars, sdVars, histVars
  <1> QED BY <1>1, <1>2, <1>3, <1>4, StepCases DEF Others

LEMMA HandlerType ==
  \A f \in States : Handler(f) \subseteq {"red", "green", "yellow", "buzzer", "relay1"}
  BY DEF Handler, Sounding, States, Raised, Acked

LEMMA BlinkType ==
  ASSUME NEW f, NEW due, NEW o, o \subseteq {"red", "green", "yellow", "buzzer", "relay1"}
  PROVE  Blink(f, o, due) \subseteq {"red", "green", "yellow", "buzzer", "relay1"}
  BY DEF Blink, Toggle, Sounding

LEMMA OutputTypesStep == AlarmTypes /\ OutputTypes /\ [Next]_vars => OutputTypes'
  <1>1. AlarmTypes /\ OutputTypes /\ Check => OutputTypes'
    <2> SUFFICES ASSUME AlarmTypes, OutputTypes, Check PROVE OutputTypes'
      OBVIOUS
    <2>1. State_Flag' \in States
      BY StagesType DEF Check, Machines
    <2> DEFINE base == IF State_Flag' = prevState THEN lit ELSE Handler(State_Flag')
    <2>2. \E due : lit' = Blink(State_Flag', base, due)
      BY DEF Check, Blinked
    <2>3. base \subseteq {"red", "green", "yellow", "buzzer", "relay1"}
      BY <2>1, HandlerType DEF OutputTypes
    <2> HIDE DEF base
    <2> QED BY <2>2, <2>3, BlinkType DEF OutputTypes
  <1>2. OutputTypes /\ (Superloop /\ ~Check) => OutputTypes'
    BY DEF OutputTypes, Superloop, CurrentLoop, WriteAnswered, Reading, Answer,
           ThreePollsUnanswered, EndExport, RequestExport, Configure, PcAck, PcReset,
           PcBlockWrite, outVars
  <1>3. OutputTypes /\ Interrupt => OutputTypes'
    BY DEF OutputTypes, Interrupt, PressAck, PressReset, RtcSecond, AckMinutePasses,
           HvGracePasses, outVars
  <1>4. OutputTypes /\ UNCHANGED vars => OutputTypes'
    BY DEF OutputTypes, vars, outVars
  <1> QED BY <1>1, <1>2, <1>3, <1>4, StepCases DEF Others

RestTypes == loop \in {"level", "fault"} /\ missed \in 0..2

LEMMA RestTypesStep == RestTypes /\ [Next]_vars => RestTypes'
  <1>1. RestTypes /\ Check => RestTypes'
    BY DEF RestTypes, Check, loopVars
  <1>2. RestTypes /\ (Superloop /\ ~Check) => RestTypes'
    BY DEF RestTypes, Superloop, CurrentLoop, WriteAnswered, Reading, Answer,
           ThreePollsUnanswered, EndExport, RequestExport, Configure, PcAck, PcReset,
           PcBlockWrite, loopVars, histVars
  <1>3. RestTypes /\ Interrupt => RestTypes'
    BY DEF RestTypes, Interrupt, PressAck, PressReset, RtcSecond, AckMinutePasses,
           HvGracePasses, loopVars, histVars
  <1>4. RestTypes /\ UNCHANGED vars => RestTypes'
    BY DEF RestTypes, vars, loopVars, histVars
  <1> QED BY <1>1, <1>2, <1>3, <1>4, StepCases DEF Others

LEMMA TypeInit == Init => TypeOK
  <1> SUFFICES ASSUME Init PROVE TypeOK
    OBVIOUS
  <1>1. AlarmTypes
    BY DEF Init, AlarmTypes, States, StatusRegs
  <1>2. OutputTypes /\ FlagTypes
    BY DEF Init, OutputTypes, FlagTypes
  <1>3. InputTypes /\ loop \in {"level", "fault"} /\ missed \in 0..2
    BY DEF Init, InputTypes, Limits
  <1> QED BY <1>1, <1>2, <1>3 DEF TypeOK

LEMMA TypeStep == TypeOK /\ [Next]_vars => TypeOK'
  BY AlarmTypesStep, InputTypesStep, FlagTypesStep, OutputTypesStep, RestTypesStep
     DEF TypeOK, RestTypes

(* Every variable keeps its type.                                          *)
THEOREM TypeCorrect == Spec => []TypeOK
  BY TypeInit, TypeStep, PTL DEF Spec

-----------------------------------------------------------------------------
(* Each status register shows the state, unless a PC wrote it and the      *)
(* machine has not set it since.                                           *)
THEOREM RegistersCorrect == Spec => []RegistersAgree
  <1>1. Init => RegistersAgree
    BY DEF Init, RegistersAgree, Shown, Raised, Acked
  <1>2. TypeOK /\ RegistersAgree /\ [Next]_vars => RegistersAgree'
    <2> SUFFICES ASSUME TypeOK, RegistersAgree, [Next]_vars PROVE RegistersAgree'
      OBVIOUS
    <2>1. CASE Check
      <3>1. /\ State_Flag' = Checked.flag /\ regs' = Checked.regs
            /\ tainted' = Checked.tainted /\ Prev_Dtc_Failed_Status' = LinkFailed
        BY <2>1 DEF Check
      <3>2. State_Flag' = "Dtc_Failed" <=> Prev_Dtc_Failed_Status'
        BY <3>1, CheckedDown DEF RegistersAgree, TypeOK
      <3>3. Agrees(Checked)
        BY CheckedAgrees DEF Agrees, Machine, RegistersAgree, TypeOK
      <3>4. regs' \ tainted' = Shown(State_Flag') \ tainted'
        BY <3>1, <3>3 DEF Agrees
      <3> QED BY <3>2, <3>4 DEF RegistersAgree
    <2>2. ASSUME NEW covered, NEW ones \in SUBSET covered, PcBlockWrite(covered, ones)
          PROVE RegistersAgree'
      <3>1. /\ regs' \ tainted' = (regs \ tainted) \ covered
            /\ Shown(State_Flag) \ tainted' = (Shown(State_Flag) \ tainted) \ covered
        BY <2>2 DEF PcBlockWrite
      <3>2. State_Flag' = State_Flag /\ Prev_Dtc_Failed_Status' = Prev_Dtc_Failed_Status
            /\ Shown(State_Flag') = Shown(State_Flag)
        BY <2>2 DEF PcBlockWrite, Shown
      <3> QED BY <3>1, <3>2 DEF RegistersAgree
    <2>3. CASE UNCHANGED <<State_Flag, regs, Prev_Dtc_Failed_Status, tainted>>
      BY <2>3 DEF RegistersAgree, Shown, Raised, Acked
    <2>4. Superloop => \/ Check \/ UNCHANGED <<State_Flag, regs, Prev_Dtc_Failed_Status, tainted>>
                       \/ \E covered : \E ones \in SUBSET covered : PcBlockWrite(covered, ones)
      BY DEF Superloop, CurrentLoop, WriteAnswered, Reading, Answer,
             ThreePollsUnanswered, EndExport, RequestExport, Configure, PcAck, PcReset,
             alarmVars, histVars
    <2>5. Interrupt => UNCHANGED <<State_Flag, regs, Prev_Dtc_Failed_Status, tainted>>
      BY DEF Interrupt, PressAck, PressReset, RtcSecond, AckMinutePasses, HvGracePasses,
             alarmVars, histVars
    <2>6. UNCHANGED vars => UNCHANGED <<State_Flag, regs, Prev_Dtc_Failed_Status, tainted>>
      BY DEF vars, alarmVars, histVars
    <2> QED BY <2>1, <2>2, <2>3, <2>4, <2>5, <2>6 DEF Next
  <1> QED BY <1>1, <1>2, TypeInit, TypeStep, PTL DEF Spec

-----------------------------------------------------------------------------
(* The outputs follow the state.  Fits is what OutputsFollowState says of  *)
(* a set of outputs and a flag; a handler establishes it and the blinker   *)
(* keeps it.                                                               *)

Fits(o, f) == /\ "relay1" \in o <=> f = "Normal"
              /\ "green" \in o <=> f = "Normal"
              /\ "buzzer" \in o => f \in Raised
              /\ f \in Acked => o = {"red"}
              /\ "yellow" \in o => f \in {"Dtc_Failed", "Hv_Fault"}

LEMMA HandlerFits == \A f \in States : Fits(Handler(f), f)
  BY DEF Fits, Handler, Sounding, States, Raised, Acked

LEMMA BlinkFits ==
  ASSUME NEW f \in States, NEW o, NEW due, Fits(o, f)
  PROVE  Fits(Blink(f, o, due), f)
  <1> DEFINE heard == (o \ {"buzzer"}) \cup Sounding
  <1>1. CASE f \in Raised
    <2>1. Blink(f, o, due) \in {o, heard, Toggle("red", o), Toggle("red", heard)}
      BY <1>1 DEF Blink, Raised
    <2>2. Fits(heard, f)
      BY <1>1 DEF Fits, Sounding, Raised, Acked
    <2>3. \A s : Fits(s, f) => Fits(Toggle("red", s), f)
      BY <1>1 DEF Fits, Toggle, Raised, Acked
    <2> QED BY <2>1, <2>2, <2>3
  <1>2. CASE f \in {"Dtc_Failed", "Hv_Fault"}
    <2>1. Blink(f, o, due) \in {o, Toggle("yellow", o)}
      BY <1>2 DEF Blink, Raised
    <2>2. Fits(Toggle("yellow", o), f)
      BY <1>2 DEF Fits, Toggle, Raised, Acked
    <2> QED BY <2>1, <2>2
  <1>3. CASE f \notin Raised \cup {"Dtc_Failed", "Hv_Fault"}
    BY <1>3 DEF Blink
  <1> QED BY <1>1, <1>2, <1>3

(* The relay and the lamps never contradict the state of the monitor.      *)
THEOREM OutputsCorrect == Spec => []OutputsFollowState
  <1>0. OutputsFollowState <=> prevState = State_Flag /\ Fits(lit, State_Flag)
    BY DEF OutputsFollowState, Fits
  <1>1. Init => OutputsFollowState
    BY DEF Init, OutputsFollowState, Raised, Acked
  <1>2. TypeOK /\ OutputsFollowState /\ [Next]_vars => OutputsFollowState'
    <2> SUFFICES ASSUME TypeOK, OutputsFollowState, [Next]_vars
                 PROVE  OutputsFollowState'
      OBVIOUS
    <2>1. ASSUME Check PROVE OutputsFollowState'
      <3> DEFINE base == IF State_Flag' = prevState THEN lit ELSE Handler(State_Flag')
      <3>1. State_Flag' \in States
        BY <2>1, TypeStep, TypeOK DEF TypeOK, AlarmTypes
      <3>2. Fits(base, State_Flag')
        BY <1>0, <3>1, HandlerFits
      <3>3. (\E due : lit' = Blink(State_Flag', base, due)) /\ prevState' = State_Flag'
        BY <2>1 DEF Check, Blinked
      <3> HIDE DEF base
      <3>4. Fits(lit', State_Flag')
        BY <3>1, <3>2, <3>3, BlinkFits
      <3> QED BY <3>3, <3>4 DEF OutputsFollowState, Fits
    <2>2. CASE UNCHANGED <<State_Flag, prevState, lit>>
      BY <2>2 DEF OutputsFollowState, Raised, Acked
    <2>3. Superloop => Check \/ UNCHANGED <<State_Flag, prevState, lit>>
      BY DEF Superloop, CurrentLoop, WriteAnswered, Reading, Answer,
             ThreePollsUnanswered, EndExport, RequestExport, Configure, PcAck, PcReset,
             PcBlockWrite, alarmVars, outVars
    <2>4. Interrupt => UNCHANGED <<State_Flag, prevState, lit>>
      BY DEF Interrupt, PressAck, PressReset, RtcSecond, AckMinutePasses, HvGracePasses,
             alarmVars, outVars
    <2>5. UNCHANGED vars => UNCHANGED <<State_Flag, prevState, lit>>
      BY DEF vars, alarmVars, outVars
    <2> QED BY <2>1, <2>2, <2>3, <2>4, <2>5 DEF Next
  <1> QED BY <1>1, <1>2, TypeInit, TypeStep, PTL DEF Spec

-----------------------------------------------------------------------------
(* A reading that calls for an alarm is announced within two checks.  A    *)
(* check leaves one unannounced only by returning to Normal (MissedInv),   *)
(* and a check that starts in Normal leaves none.                          *)

MissedInv == missed < 2 /\ (missed = 1 => State_Flag = "Normal")

LEMMA RadiationType == InputTypes => Radiation \in Nat /\ limits.alarm \in Nat
                                     /\ limits.overrun \in Nat /\ limits.overload \in Nat
  BY DEF InputTypes, Radiation, Limits

LEMMA RaiseMeetsDemand ==
  ASSUME InputTypes, NEW m \in Machines, m.flag # "Dtc_Failed"
  PROVE  Level(Raise(m).flag) >= Demanded
  <1>0. m.flag \in States
    BY DEF Machines
  <1>1. CASE OverloadDue(m)
    <2>1. Raise(m).flag = "Overload"
      BY <1>1, AnnunciateStage DEF Raise, Raised
    <2> QED BY <2>1 DEF Level, Demanded
  <1>2. CASE ~OverloadDue(m) /\ OverrunDue(m)
    <2>1. Raise(m).flag = "Overrun"
      BY <1>2, AnnunciateStage DEF Raise, Raised
    <2>2. Radiation < limits.overload
      BY <1>2, RadiationType DEF OverloadDue, OverrunDue
    <2> QED BY <2>1, <2>2, RadiationType DEF Level, Demanded
  <1>3. CASE ~OverloadDue(m) /\ ~OverrunDue(m) /\ AlarmDue(m)
    <2>1. Raise(m).flag = "Alarm"
      BY <1>3, AnnunciateStage DEF Raise, Raised
    <2>2. Radiation < limits.overload /\ Radiation < limits.overrun
      BY <1>3, RadiationType DEF OverloadDue, OverrunDue, AlarmDue, Raised, Acked
    <2> QED BY <2>1, <2>2, RadiationType DEF Level, Demanded
  <1>4. CASE ~OverloadDue(m) /\ ~OverrunDue(m) /\ ~AlarmDue(m)
    <2>1. Level(Raise(m).flag) >= Level(m.flag)
      <3>1. CASE HvFaultDue(m)
        BY <1>4, <3>1 DEF Raise, HvFaultDue, Machines, Level
      <3>2. CASE ~HvFaultDue(m)
        BY <1>0, <1>4, <3>2 DEF Raise, Level
      <3> QED BY <3>1, <3>2
    <2>2. CASE Radiation >= limits.overload
      <3>1. m.flag \in {"Overload", "Ack_OverLoad"}
        BY <1>4, <2>2 DEF OverloadDue
      <3> QED BY <1>0, <2>1, <2>2, <3>1 DEF Level, Demanded
    <2>3. CASE Radiation < limits.overload /\ Radiation >= limits.overrun
      <3>1. m.flag \in {"Overrun", "Overload", "Ack_OverLoad", "Ack_Overrun"}
        BY <1>4, <2>3 DEF OverrunDue
      <3>2. Level(m.flag) >= 2
        BY <3>1 DEF Level
      <3>3. Demanded = 2
        BY <2>3, RadiationType DEF Demanded
      <3> QED BY <1>0, <2>1, <3>2, <3>3 DEF Level
    <2>4. CASE Radiation < limits.overload /\ Radiation < limits.overrun
               /\ Radiation >= limits.alarm
      <3>1. m.flag \in Raised \cup Acked
        BY <1>4, <2>4 DEF AlarmDue
      <3>2. Level(m.flag) >= 1
        BY <3>1 DEF Level, Raised, Acked
      <3>3. Demanded = 1
        BY <2>4, RadiationType DEF Demanded
      <3> QED BY <1>0, <2>1, <3>2, <3>3 DEF Level
    <2>5. CASE Radiation < limits.overload /\ Radiation < limits.overrun
               /\ Radiation < limits.alarm
      <3>1. Demanded = 0
        BY <2>5, RadiationType DEF Demanded
      <3> QED BY <3>1 DEF Level
    <2> QED BY <2>2, <2>3, <2>4, <2>5, RadiationType
  <1> QED BY <1>1, <1>2, <1>3, <1>4

(* An alarm just raised is not below its own limit.                        *)
LEMMA RaisedStands ==
  ASSUME InputTypes, NEW m \in Machines, m.flag \notin Raised \cup Acked
  PROVE  ~BelowItsLimit(Raise(m).flag) /\ ~BelowItsLimit(AckOf(Raise(m).flag))
  <1>1. CASE OverloadDue(m)
    <2>1. Raise(m).flag = "Overload" /\ Radiation >= limits.overload
      BY <1>1, AnnunciateStage DEF Raise, Raised, OverloadDue
    <2> QED BY <2>1, RadiationType DEF BelowItsLimit, AckOf
  <1>2. CASE ~OverloadDue(m) /\ OverrunDue(m)
    <2>1. Raise(m).flag = "Overrun" /\ Radiation >= limits.overrun
      BY <1>2, AnnunciateStage DEF Raise, Raised, OverrunDue
    <2> QED BY <2>1, RadiationType DEF BelowItsLimit, AckOf
  <1>3. CASE ~OverloadDue(m) /\ ~OverrunDue(m) /\ AlarmDue(m)
    <2>1. Raise(m).flag = "Alarm" /\ Radiation >= limits.alarm
      BY <1>3, AnnunciateStage DEF Raise, Raised, AlarmDue
    <2> QED BY <2>1, RadiationType DEF BelowItsLimit, AckOf
  <1>4. CASE ~OverloadDue(m) /\ ~OverrunDue(m) /\ ~AlarmDue(m)
    <2>1. Raise(m).flag \in {m.flag, "Hv_Fault"}
      BY <1>4 DEF Raise, Machines
    <2> QED BY <2>1 DEF BelowItsLimit, AckOf, Raised, Acked
  <1> QED BY <1>1, <1>2, <1>3, <1>4

LEMMA AckKeepsLevel == \A f \in States : Level(AckOf(f)) = Level(f)
  BY DEF AckOf, Level, States, Raised, Acked

(* A check that leaves a demand unmet returns to Normal, and did not start *)
(* there.                                                                  *)
LEMMA UnmetMeansReset ==
  ASSUME AlarmTypes, InputTypes, FlagTypes, ~LinkFailed, Demanded > Level(Checked.flag),
         State_Flag = "Dtc_Failed" <=> Prev_Dtc_Failed_Status
  PROVE  Checked.flag = "Normal" /\ State_Flag # "Normal"
  <1>1. M1.flag # "Dtc_Failed" /\ (State_Flag = "Normal" => M1.flag = "Normal")
    <2>1. Prev_Dtc_Failed_Status \in BOOLEAN /\ Machine.flag = State_Flag
      BY DEF FlagTypes, Machine
    <2> QED BY <2>1, MachineType, LinkMove DEF M1
  <1>2. M1 \in Machines /\ M2 \in Machines /\ M3 \in Machines /\ M4 \in Machines
        /\ M2.flag \in States /\ M3.flag \in States
    BY StagesType DEF Machines
  <1>3. Level(M2.flag) >= Demanded
    BY <1>1, <1>2, RaiseMeetsDemand DEF M2
  <1>4. Level(M3.flag) = Level(M2.flag)
    BY <1>2, RecoverMove DEF M3, Level, Raised
  <1>5. Level(M4.flag) = Level(M3.flag)
    BY <1>2, AcknowledgeMove, AckKeepsLevel DEF M4
  <1>6. Checked = ResetToNormal(M4)
    BY DEF Checked, M1, M2, M3, M4
  <1>7. Checked.flag # M4.flag
    <2>1. Level(M2.flag) \in 0..3 /\ Demanded \in 0..3
      BY DEF Level, Demanded
    <2> QED BY <1>3, <1>4, <1>5, <2>1
  <1>8. Checked.flag = "Normal" /\ BelowItsLimit(M4.flag)
    BY <1>2, <1>6, <1>7, ResetMove
  <1>9. ASSUME State_Flag = "Normal" PROVE FALSE
    <2>1. M1.flag \notin Raised \cup Acked
      BY <1>1, <1>9 DEF Raised, Acked
    <2>2. ~BelowItsLimit(M2.flag) /\ ~BelowItsLimit(AckOf(M2.flag))
      BY <1>2, <2>1, RaisedStands DEF M2
    <2>3. ~BelowItsLimit("Normal") /\ ~BelowItsLimit(AckOf("Normal"))
      BY DEF BelowItsLimit, AckOf
    <2>4. M3.flag \in {M2.flag, "Normal"}
      BY <1>2, RecoverMove DEF M3
    <2>5. M4.flag \in {M3.flag, AckOf(M3.flag)}
      BY <1>2, AcknowledgeMove DEF M4
    <2> QED BY <1>8, <2>2, <2>3, <2>4, <2>5
  <1> QED BY <1>8, <1>9

(* Announced within two checks, for limits in any order.                   *)
THEOREM AlarmsAnnounced == Spec => []AnnouncedWithinOneLoop
  <1>1. Init => MissedInv
    BY DEF Init, MissedInv
  <1>2. TypeOK /\ RegistersAgree /\ MissedInv /\ [Next]_vars => MissedInv'
    <2> SUFFICES ASSUME TypeOK, RegistersAgree, MissedInv, [Next]_vars PROVE MissedInv'
      OBVIOUS
    <2>1. CASE Check
      <3>1. /\ State_Flag' = Checked.flag
            /\ missed' = IF ~LinkFailed /\ Demanded > Level(State_Flag')
                           THEN (IF missed < 2 THEN missed + 1 ELSE 2) ELSE 0
        BY <2>1 DEF Check
      <3>2. CASE ~LinkFailed /\ Demanded > Level(Checked.flag)
        <4>1. Checked.flag = "Normal" /\ State_Flag # "Normal"
          BY <3>2, UnmetMeansReset DEF TypeOK, RegistersAgree
        <4>2. missed = 0
          BY <4>1 DEF MissedInv, TypeOK
        <4> QED BY <3>1, <3>2, <4>1, <4>2 DEF MissedInv
      <3>3. CASE ~(~LinkFailed /\ Demanded > Level(Checked.flag))
        BY <3>1, <3>3 DEF MissedInv
      <3> QED BY <3>2, <3>3
    <2>2. CASE UNCHANGED <<State_Flag, missed>>
      BY <2>2 DEF MissedInv
    <2>3. Superloop => Check \/ UNCHANGED <<State_Flag, missed>>
      BY DEF Superloop, CurrentLoop, WriteAnswered, Reading, Answer,
             ThreePollsUnanswered, EndExport, RequestExport, Configure, PcAck, PcReset,
             PcBlockWrite, alarmVars, histVars
    <2>4. Interrupt => UNCHANGED <<State_Flag, missed>>
      BY DEF Interrupt, PressAck, PressReset, RtcSecond, AckMinutePasses, HvGracePasses,
             alarmVars, histVars
    <2>5. UNCHANGED vars => UNCHANGED <<State_Flag, missed>>
      BY DEF vars, alarmVars, histVars
    <2> QED BY <2>1, <2>2, <2>3, <2>4, <2>5 DEF Next
  <1>3. MissedInv => AnnouncedWithinOneLoop
    BY DEF MissedInv, AnnouncedWithinOneLoop
  <1> QED BY <1>1, <1>2, <1>3, TypeInit, TypeStep, RegistersCorrect, PTL DEF Spec

-----------------------------------------------------------------------------
(* The alarm state machine implements AlarmPanel: every check is an        *)
(* evaluation of the panel, and every other step one of its inputs.        *)

Over == {l \in 1..3 : Radiation >= LimitOf(l)}

LEMMA OverLevels ==
  /\ 1 \in Over <=> Radiation >= limits.alarm
  /\ 2 \in Over <=> Radiation >= limits.overrun
  /\ 3 \in Over <=> Radiation >= limits.overload
  /\ \A l \in Over : l \in 1..3
  BY DEF Over, LimitOf

(* What each stage does to an alarm, its minute and the presses.           *)
LEMMA RaisesToHighest ==
  ASSUME InputTypes, NEW m \in Machines, m.flag # "Dtc_Failed"
  PROVE  LET n == Raise(m)
         IN \/ /\ n.flag \in Raised /\ Level(n.flag) > Level(m.flag) /\ n.ackTimer = "running"
               /\ Level(n.flag) \in Over /\ \A l \in Over : l <= Level(n.flag)
            \/ n = m /\ \A l \in Over : l <= Level(m.flag)
            \/ /\ m.flag = "Normal" /\ m.hvTimer = "expired" /\ n.flag = "Hv_Fault"
               /\ \A l \in Over : l <= Level(m.flag)
  <1>0. m.flag \in States
    BY DEF Machines
  <1>1. \A a \in Raised : \A cleared :
          Annunciate(m, a, cleared).ackTimer = "running" /\ Annunciate(m, a, cleared).flag = a
    BY DEF Annunciate, SetRegs, Machines
  <1>2. CASE OverloadDue(m)
    <2>1. Raise(m).flag = "Overload" /\ Raise(m).ackTimer = "running" /\ "Overload" \in Raised
      BY <1>1, <1>2 DEF Raise, Raised
    <2>2. Level("Overload") = 3 /\ Level(m.flag) < 3
      BY <1>0, <1>2 DEF OverloadDue, Level, States, Raised, Acked
    <2>3. 3 \in Over /\ \A l \in Over : l <= 3
      BY <1>2, OverLevels DEF OverloadDue
    <2> QED BY <2>1, <2>2, <2>3
  <1>3. CASE ~OverloadDue(m) /\ OverrunDue(m)
    <2>1. Raise(m).flag = "Overrun" /\ Raise(m).ackTimer = "running" /\ "Overrun" \in Raised
      BY <1>1, <1>3 DEF Raise, Raised
    <2>2. Level("Overrun") = 2 /\ Level(m.flag) < 2
      BY <1>0, <1>3 DEF OverrunDue, Level, States, Raised, Acked
    <2>3. ~(Radiation >= limits.overload)
      BY <1>3 DEF OverloadDue, OverrunDue
    <2>4. 2 \in Over /\ \A l \in Over : l <= 2
      BY <1>3, <2>3, OverLevels DEF OverrunDue
    <2> QED BY <2>1, <2>2, <2>4
  <1>4. CASE ~OverloadDue(m) /\ ~OverrunDue(m) /\ AlarmDue(m)
    <2>1. Raise(m).flag = "Alarm" /\ Raise(m).ackTimer = "running" /\ "Alarm" \in Raised
      BY <1>1, <1>4 DEF Raise, Raised
    <2>2. Level("Alarm") = 1 /\ Level(m.flag) < 1
      BY <1>0, <1>4 DEF AlarmDue, Level, States, Raised, Acked
    <2>3. ~(Radiation >= limits.overload) /\ ~(Radiation >= limits.overrun)
      BY <1>4 DEF OverloadDue, OverrunDue, AlarmDue, Raised, Acked
    <2>4. 1 \in Over /\ \A l \in Over : l <= 1
      BY <1>4, <2>3, OverLevels DEF AlarmDue
    <2> QED BY <2>1, <2>2, <2>4
  <1>5. CASE ~OverloadDue(m) /\ ~OverrunDue(m) /\ ~AlarmDue(m)
    <2>1. ASSUME NEW l \in Over PROVE l <= Level(m.flag)
      <3>1. CASE l = 3
        <4>1. m.flag \in {"Overload", "Ack_OverLoad"}
          BY <1>5, <2>1, <3>1, OverLevels DEF OverloadDue
        <4> QED BY <3>1, <4>1 DEF Level
      <3>2. CASE l = 2
        <4>1. m.flag \in {"Overrun", "Overload", "Ack_OverLoad", "Ack_Overrun"}
          BY <1>5, <2>1, <3>2, OverLevels DEF OverrunDue
        <4> QED BY <3>2, <4>1 DEF Level
      <3>3. CASE l = 1
        <4>1. m.flag \in Raised \cup Acked
          BY <1>5, <2>1, <3>3, OverLevels DEF AlarmDue
        <4> QED BY <3>3, <4>1 DEF Level, Raised, Acked
      <3> QED BY <2>1, <3>1, <3>2, <3>3 DEF Over
    <2>2. CASE HvFaultDue(m)
      <3>1. Raise(m).flag = "Hv_Fault"
        BY <1>5, <2>2 DEF Raise, SetRegs, Machines
      <3> QED BY <2>1, <2>2, <3>1 DEF HvFaultDue
    <2>3. CASE ~HvFaultDue(m)
      BY <1>5, <2>1, <2>3 DEF Raise
    <2> QED BY <2>2, <2>3
  <1> QED BY <1>2, <1>3, <1>4, <1>5

LEMMA BelowIsNotOver ==
  ASSUME InputTypes, NEW f \in States
  PROVE  BelowItsLimit(f) <=> f \in Acked /\ Level(f) \notin Over
  BY RadiationType, OverLevels DEF BelowItsLimit, Acked, Level, States, Raised

LEMMA ResetExactly ==
  ASSUME InputTypes, NEW m \in Machines
  PROVE  IF m.flag \in Acked /\ Level(m.flag) \notin Over /\ (Reset_Button = 1 \/ agm_mode = 1)
           THEN ResetToNormal(m).flag = "Normal" ELSE ResetToNormal(m) = m
  <1>1. m.flag \in States
    BY DEF Machines
  <1>2. BelowItsLimit(m.flag) <=> m.flag \in Acked /\ Level(m.flag) \notin Over
    BY <1>1, BelowIsNotOver
  <1> QED BY <1>2 DEF ResetToNormal, SetRegs, Machines

LEMMA StatusValues ==
  \A g \in States : /\ StatusOf(g) = "clear" <=> g = "Normal"
                    /\ StatusOf(g) = "raised" <=> g \in Raised
                    /\ StatusOf(g) = "acked" <=> g \in Acked
                    /\ StatusOf(g) = "hv" <=> g = "Hv_Fault"
                    /\ StatusOf(g) = "link" <=> g = "Dtc_Failed"
                    /\ Level(g) \in 0..3
                    /\ Level(g) > 0 <=> g \in Raised \cup Acked
  BY DEF StatusOf, Level, States, Raised, Acked

LEMMA CheckIsEvaluation ==
  ASSUME TypeOK, Check, State_Flag = "Dtc_Failed" <=> Prev_Dtc_Failed_Status
  PROVE  Panel!Evaluation
  <1> DEFINE f == State_Flag
             g == State_Flag'
             ack == (Ack_Button = 1)
             release == (Reset_Button = 1) \/ (agm_mode = 1)
             minute == f \in Raised /\ ackTimer = "expired"
             acked == f \in Acked \/ (f \in Raised /\ (ack \/ (agm_mode = 1 /\ minute)))
  <1>0. /\ AlarmTypes /\ InputTypes /\ FlagTypes /\ f \in States
        /\ Machine \in Machines /\ Machine.flag = f /\ Machine.ackTimer = ackTimer
        /\ M1 \in Machines /\ M2 \in Machines /\ M3 \in Machines /\ M4 \in Machines
        /\ g = Checked.flag /\ ackTimer' = Checked.ackTimer /\ Checked = ResetToNormal(M4)
    BY StagesType, MachineType DEF TypeOK, AlarmTypes, Machine, Check, Checked, M1, M2, M3, M4
  <1>1. g \in States
    BY <1>0, StagesType DEF Machines
  <1>2. g = "Dtc_Failed" <=> LinkFailed
    BY <1>0, CheckedDown
  <1>3. /\ ~(Ack_Button = 1)' /\ ~(Reset_Button = 1)' /\ (agm_mode = 1)' = (agm_mode = 1)
        /\ LinkFailed' = LinkFailed /\ Over' = Over
    <2>1. Ack_Button' = 0 /\ Reset_Button' = 0 /\ UNCHANGED <<agm_mode, limits, dose>>
      BY DEF Check, confVars, readVars
    <2>2. LinkFailed' = LinkFailed
      BY DEF Check, LinkFailed
    <2>3. Radiation' = Radiation
      BY <2>1, <2>2 DEF Radiation
    <2>4. \A l : LimitOf(l)' = LimitOf(l)
      BY <2>1 DEF LimitOf
    <2> QED BY <2>1, <2>2, <2>3, <2>4 DEF Over
  <1>4. /\ AckGiven(Machine) <=> ack \/ (agm_mode = 1 /\ ackTimer = "expired")
        /\ \A m \in Machines : m.ackTimer = "running" => (AckGiven(m) <=> ack)
    BY <1>0 DEF AckGiven
  <1>8. ASSUME Panel!Rise \/ Panel!Stand \/ Panel!Clear \/ Panel!NoAlarm \/ Panel!LinkFailure,
               \/ g \notin Raised /\ ~(f \in Raised /\ StatusOf(g) = StatusOf(f))
               \/ Level(g) # Level(f) /\ (g \in Raised => ackTimer' = "running")
               \/ /\ Level(g) = Level(f) /\ (g \in Raised => ackTimer' = ackTimer)
                  /\ g \in Raised => StatusOf(g) = StatusOf(f) /\ f \in Raised
                  /\ StatusOf(g) = StatusOf(f) /\ f \in Raised => g \in Raised
        PROVE  Panel!Evaluation
    <2>1. (g \in Raised /\ ackTimer' = "expired")
            = ((f \in Raised /\ ackTimer = "expired") /\ UNCHANGED Panel!display)
      <3>1. UNCHANGED Panel!display <=> StatusOf(g) = StatusOf(f) /\ Level(g) = Level(f)
        BY DEF Panel!display, StatusOf, Level
      <3> HIDE DEF f, g
      <3> QED BY <1>8, <3>1
    <2> QED BY <1>3, <1>8, <2>1 DEF Panel!Evaluation, Panel!situation, Over
  <1> HIDE DEF f, g
  <1>5. ASSUME \/ /\ LinkFailed /\ g = "Dtc_Failed"
               \/ /\ ~LinkFailed /\ Level(g) \in Over /\ Level(g) > Level(f)
                  /\ \A l \in Over : l <= Level(g)
                  /\ g \in (IF ack THEN Acked ELSE Raised)
                  /\ g \in Raised => ackTimer' = "running"
               \/ /\ ~LinkFailed /\ \A l \in Over : l <= Level(f)
                  /\ f \in Raised \cup Acked
                  /\ IF acked /\ release /\ Level(f) \notin Over
                       THEN g = "Normal"
                       ELSE /\ Level(g) = Level(f) /\ g \in (IF acked THEN Acked ELSE Raised)
                            /\ g \in Raised => ackTimer' = ackTimer
               \/ /\ ~LinkFailed /\ Over = {} /\ Level(f) = 0
                  /\ g \in IF f = "Dtc_Failed" THEN {"Normal"} ELSE {"Normal", "Hv_Fault"}
        PROVE  Panel!Evaluation
    <2>2. CASE LinkFailed /\ g = "Dtc_Failed"
      <3>1. Panel!LinkFailure
        BY <1>1, <2>2, StatusValues DEF Panel!LinkFailure, Level, g
      <3>2. g \notin Raised /\ ~(f \in Raised /\ StatusOf(g) = StatusOf(f))
        BY <1>0, <1>1, <2>2, StatusValues DEF Raised
      <3> QED BY <1>8, <3>1, <3>2
    <2>3. CASE /\ ~LinkFailed /\ Level(g) \in Over /\ Level(g) > Level(f)
               /\ \A l \in Over : l <= Level(g)
               /\ g \in (IF ack THEN Acked ELSE Raised)
               /\ g \in Raised => ackTimer' = "running"
      <3>1. StatusOf(g) = IF ack THEN "acked" ELSE "raised"
        BY <1>1, <2>3, StatusValues
      <3>2. Panel!Rise
        BY <2>3, <3>1 DEF Panel!Rise, Over, f, g
      <3>3. Level(g) # Level(f)
        BY <1>0, <1>1, <2>3, StatusValues
      <3> QED BY <1>8, <2>3, <3>2, <3>3
    <2>4. CASE /\ ~LinkFailed /\ \A l \in Over : l <= Level(f)
               /\ f \in Raised \cup Acked
               /\ IF acked /\ release /\ Level(f) \notin Over
                    THEN g = "Normal"
                    ELSE /\ Level(g) = Level(f) /\ g \in (IF acked THEN Acked ELSE Raised)
                         /\ g \in Raised => ackTimer' = ackTimer
      <3>1. /\ Panel!Acknowledged <=> acked
            /\ Panel!Released <=> acked /\ release /\ Level(f) \notin Over
            /\ Panel!NoneHigher /\ Level(f) > 0
        BY <1>0, <2>4, StatusValues
           DEF Panel!Acknowledged, Panel!Released, Panel!NoneHigher, Over, f
      <3>2. CASE acked /\ release /\ Level(f) \notin Over
        <4>1. g = "Normal" /\ StatusOf(g) = "clear" /\ Level(g) = 0
          BY <2>4, <3>2 DEF StatusOf, Level, Raised, Acked
        <4>2. Panel!Clear
          BY <3>1, <3>2, <4>1 DEF Panel!Clear, f, g
        <4>3. g \notin Raised /\ ~(f \in Raised /\ StatusOf(g) = StatusOf(f))
          BY <1>0, <4>1, StatusValues DEF Raised
        <4> QED BY <1>8, <4>2, <4>3
      <3>3. CASE ~(acked /\ release /\ Level(f) \notin Over)
        <4>1. Level(g) = Level(f) /\ g \in (IF acked THEN Acked ELSE Raised)
          BY <2>4, <3>3
        <4>2. StatusOf(g) = IF acked THEN "acked" ELSE "raised"
          BY <1>1, <4>1, StatusValues
        <4>3. Panel!Stand
          BY <3>1, <3>3, <4>1, <4>2 DEF Panel!Stand, f, g
        <4>4. g \in Raised => StatusOf(g) = "raised" /\ f \in Raised /\ StatusOf(f) = "raised"
          BY <1>0, <1>1, <2>4, <4>1, StatusValues DEF Raised, Acked
        <4>5. StatusOf(g) = StatusOf(f) /\ f \in Raised => g \in Raised
          BY <1>0, <1>1, StatusValues
        <4> QED BY <1>8, <2>4, <3>3, <4>1, <4>3, <4>4, <4>5
      <3> QED BY <3>2, <3>3
    <2>5. CASE /\ ~LinkFailed /\ Over = {} /\ Level(f) = 0
               /\ g \in IF f = "Dtc_Failed" THEN {"Normal"} ELSE {"Normal", "Hv_Fault"}
      <3>1. Level(g) = 0 /\ StatusOf(g) \in {"clear", "hv"} /\ (g = "Normal" => StatusOf(g) = "clear")
        BY <1>1, <2>5, StatusValues DEF Level
      <3>2. StatusOf(f) = "link" <=> f = "Dtc_Failed"
        BY <1>0, StatusValues
      <3>3. Panel!NoneHigher
        BY <2>5 DEF Panel!NoneHigher, Over
      <3>4. Panel!NoAlarm
        BY <2>5, <3>1, <3>2, <3>3 DEF Panel!NoAlarm, f, g
      <3>5. g \notin Raised /\ f \notin Raised
        BY <1>0, <1>1, <2>5, <3>1, StatusValues
      <3> QED BY <1>8, <3>4, <3>5
    <2> QED BY <1>5, <2>2, <2>3, <2>4, <2>5
  <1>6. CASE LinkFailed
    BY <1>2, <1>5, <1>6
  <1>7. CASE ~LinkFailed
    <2>1. /\ M1.flag # "Dtc_Failed" /\ Level(M1.flag) = Level(f)
          /\ \/ M1 = Machine
             \/ f = "Dtc_Failed" /\ M1.flag = "Normal" /\ M1.hvTimer = "running"
      <3>1. Prev_Dtc_Failed_Status \in BOOLEAN
        BY <1>0 DEF FlagTypes
      <3>2. f = "Dtc_Failed" <=> Prev_Dtc_Failed_Status
        BY DEF f
      <3>3. Level("Dtc_Failed") = Level("Normal")
        BY DEF Level
      <3> QED BY <1>0, <1>7, <3>1, <3>2, <3>3, LinkMove DEF M1
    <2>2. \A x \in {"Normal", "Hv_Fault"} : x \notin Raised \cup Acked /\ Level(x) = 0
      BY DEF Raised, Acked, Level
    <2>3. \A x \in Raised : /\ AckOf(x) \in Acked /\ Level(AckOf(x)) = Level(x)
                           /\ x \notin Acked /\ x # "Hv_Fault"
      BY DEF Raised, Acked, AckOf, Level
    <2>4. CASE /\ M2.flag \in Raised /\ Level(M2.flag) > Level(f) /\ M2.ackTimer = "running"
               /\ Level(M2.flag) \in Over /\ \A l \in Over : l <= Level(M2.flag)
      <3>1. M3 = M2
        BY <1>0, <2>3, <2>4, RecoverMove DEF M3
      <3>2. IF ack THEN M4.flag = AckOf(M2.flag) ELSE M4 = M2
        BY <1>0, <1>4, <2>4, <3>1, AcknowledgeMove DEF M4
      <3>3. Level(M4.flag) = Level(M2.flag)
        BY <2>3, <2>4, <3>2
      <3>4. Checked = M4
        BY <1>0, <2>4, <3>3, ResetExactly
      <3>5. g \in (IF ack THEN Acked ELSE Raised) /\ (g \in Raised => ackTimer' = "running")
        BY <1>0, <2>3, <2>4, <3>2, <3>4
      <3> QED BY <1>0, <1>5, <1>7, <2>4, <3>3, <3>4, <3>5
    <2>5. CASE M2 = M1 /\ M1 = Machine /\ f \in Raised \cup Acked
               /\ \A l \in Over : l <= Level(f)
      <3>1. M3 = Machine
        BY <1>0, <2>2, <2>5, RecoverMove DEF M3
      <3>2. IF f \in Raised /\ AckGiven(Machine) THEN M4.flag = AckOf(f) ELSE M4 = Machine
        BY <1>0, <3>1, AcknowledgeMove DEF M4
      <3>3. f \in Raised /\ AckGiven(Machine) <=> acked /\ f \notin Acked
        BY <1>4, <2>3
      <3>4. /\ Level(M4.flag) = Level(f) /\ M4.flag \in (IF acked THEN Acked ELSE Raised)
            /\ M4.flag \in Raised => M4 = Machine
        BY <1>0, <2>3, <2>5, <3>2, <3>3
      <3>5. M4.flag \in Acked <=> acked
        BY <2>3, <3>4
      <3>6. IF acked /\ release /\ Level(f) \notin Over THEN g = "Normal" ELSE Checked = M4
        BY <1>0, <3>4, <3>5, ResetExactly
      <3> QED BY <1>0, <1>5, <1>7, <2>5, <3>4, <3>6
    <2>6. CASE M2 = M1 /\ f \notin Raised \cup Acked /\ \A l \in Over : l <= Level(f)
      <3>1. /\ Level(f) = 0 /\ Over = {}
        BY <1>0, <2>6, StatusValues, OverLevels
      <3>2. /\ M1.flag \in {"Normal", "Hv_Fault"}
            /\ f = "Dtc_Failed" => M1.flag = "Normal"
        BY <1>0, <2>1, <2>6 DEF States
      <3>3. M3.flag \in {M1.flag, "Normal"}
        BY <1>0, <2>6, RecoverMove DEF M3
      <3>4. M4 = M3
        BY <1>0, <2>2, <3>2, <3>3, AcknowledgeMove DEF M4
      <3>5. Checked = M4
        BY <1>0, <2>2, <3>2, <3>3, <3>4, ResetExactly
      <3> QED BY <1>0, <1>5, <1>7, <3>1, <3>2, <3>3, <3>4, <3>5
    <2>7. CASE /\ M1.flag = "Normal" /\ M1.hvTimer = "expired" /\ M2.flag = "Hv_Fault"
               /\ \A l \in Over : l <= Level(f)
      <3>1. M1 = Machine /\ f = "Normal"
        BY <1>0, <2>1, <2>7
      <3>2. Level(f) = 0 /\ Over = {}
        BY <1>0, <2>2, <2>7, <3>1, OverLevels
      <3>3. M3.flag \in {"Hv_Fault", "Normal"}
        BY <1>0, <2>7, RecoverMove DEF M3
      <3>4. M4 = M3
        BY <1>0, <2>2, <3>3, AcknowledgeMove DEF M4
      <3>5. Checked = M4
        BY <1>0, <2>2, <3>3, <3>4, ResetExactly
      <3> QED BY <1>0, <1>5, <1>7, <3>1, <3>2, <3>3, <3>4, <3>5
    <2>8. \/ /\ M2.flag \in Raised /\ Level(M2.flag) > Level(f) /\ M2.ackTimer = "running"
             /\ Level(M2.flag) \in Over /\ \A l \in Over : l <= Level(M2.flag)
          \/ M2 = M1 /\ \A l \in Over : l <= Level(f)
          \/ /\ M1.flag = "Normal" /\ M1.hvTimer = "expired" /\ M2.flag = "Hv_Fault"
             /\ \A l \in Over : l <= Level(f)
      BY <1>0, <2>1, RaisesToHighest DEF M2
    <2>9. f \in Raised \cup Acked => M1 = Machine
      BY <2>1 DEF Raised, Acked
    <2> QED BY <2>4, <2>5, <2>6, <2>7, <2>8, <2>9
  <1> QED BY <1>6, <1>7

(* The steps of the inputs.  The situation is what the panel sees of the   *)
(* readings, the limits, the mode and the link.                            *)
LEMMA InputSteps ==
  [Next]_vars =>
    \/ Check
    \/ UNCHANGED <<State_Flag, ackTimer, Ack_Button, Reset_Button>>
    \/ UNCHANGED <<State_Flag, ackTimer, dose, limits, agm_mode, silent, Dtc_Failed_Status>>
    \/ AckMinutePasses
  <1>1. Superloop => \/ Check \/ UNCHANGED <<State_Flag, ackTimer, Ack_Button, Reset_Button>>
                     \/ UNCHANGED <<State_Flag, ackTimer, dose, limits, agm_mode, silent, Dtc_Failed_Status>>
    BY DEF Superloop, CurrentLoop, WriteAnswered, Reading, Answer, ThreePollsUnanswered,
           EndExport, RequestExport, Configure, PcAck, PcReset, PcBlockWrite, alarmVars,
           buttonVars, readVars, confVars, linkVars
  <1>2. Interrupt => \/ UNCHANGED <<State_Flag, ackTimer, Ack_Button, Reset_Button>>
                     \/ UNCHANGED <<State_Flag, ackTimer, dose, limits, agm_mode, silent, Dtc_Failed_Status>>
                     \/ AckMinutePasses
    BY DEF Interrupt, PressAck, PressReset, RtcSecond, HvGracePasses, alarmVars, buttonVars,
           readVars, confVars, linkVars
  <1>3. UNCHANGED vars => UNCHANGED <<State_Flag, ackTimer, Ack_Button, Reset_Button>>
    BY DEF vars, alarmVars, buttonVars
  <1> QED BY <1>1, <1>2, <1>3 DEF Next

(* The alarm state machine is the latch AlarmPanel describes, whatever the *)
(* limits, the order of the presses, and what a PC writes: no alarm is     *)
(* cleared unacknowledged or sinks, and no press is lost.                  *)
THEOREM PanelImplemented == Spec => AlarmsAreLatched
  <1>1. Init => Panel!PanelInit
    BY DEF Init, Panel!PanelInit, StatusOf, Level, Raised, Acked, LinkFailed
  <1>2. TypeOK /\ RegistersAgree /\ [Next]_vars => [Panel!PanelNext]_(Panel!panelVars)
    <2> SUFFICES ASSUME TypeOK, RegistersAgree, [Next]_vars
                 PROVE  Panel!PanelNext
      OBVIOUS
    <2>1. CASE Check
      BY <2>1, CheckIsEvaluation DEF RegistersAgree, Panel!PanelNext
    <2>2. CASE UNCHANGED <<State_Flag, ackTimer, Ack_Button, Reset_Button>>
      <3>1. Panel!SituationChanges
        BY <2>2 DEF Panel!SituationChanges, Panel!display, Panel!presses, StatusOf, Level
      <3> QED BY <3>1 DEF Panel!PanelNext
    <2>3. CASE UNCHANGED <<State_Flag, ackTimer, dose, limits, agm_mode, silent, Dtc_Failed_Status>>
      <3>1. LinkFailed' = LinkFailed /\ \A l : LimitOf(l)' = LimitOf(l)
        BY <2>3 DEF LinkFailed, LimitOf
      <3>2. Radiation' = Radiation
        BY <2>3, <3>1 DEF Radiation
      <3>3. Over' = Over
        BY <3>1, <3>2 DEF Over
      <3>4. Panel!Press
        BY <2>3, <3>1, <3>3 DEF Panel!Press, Panel!display, Panel!situation, StatusOf, Level, Over
      <3> QED BY <3>4 DEF Panel!PanelNext
    <2>4. CASE AckMinutePasses
      <3>0. /\ State_Flag' = State_Flag /\ ackTimer' = "expired"
            /\ UNCHANGED <<Ack_Button, Reset_Button, dose, limits, agm_mode, silent, Dtc_Failed_Status>>
        BY <2>4 DEF AckMinutePasses, buttonVars, readVars, confVars, linkVars
      <3>1. CASE State_Flag \in Raised
        <4>1. LinkFailed' = LinkFailed /\ \A l : LimitOf(l)' = LimitOf(l)
          BY <3>0 DEF LinkFailed, LimitOf
        <4>2. Radiation' = Radiation
          BY <3>0, <4>1 DEF Radiation
        <4>3. Over' = Over
          BY <4>1, <4>2 DEF Over
        <4>4. StatusOf(State_Flag) = "raised"
          BY <3>1, StatusValues DEF TypeOK, AlarmTypes
        <4>5. Panel!MinutePasses
          BY <3>0, <3>1, <4>1, <4>3, <4>4
             DEF Panel!MinutePasses, Panel!display, Panel!presses, Panel!situation, StatusOf, Level, Over
        <4> QED BY <4>5 DEF Panel!PanelNext
      <3>2. CASE State_Flag \notin Raised
        <4>1. Panel!SituationChanges
          BY <3>0, <3>2 DEF Panel!SituationChanges, Panel!display, Panel!presses, StatusOf, Level
        <4> QED BY <4>1 DEF Panel!PanelNext
      <3> QED BY <3>1, <3>2
    <2> QED BY <2>1, <2>2, <2>3, <2>4, InputSteps
  <1> QED BY <1>1, <1>2, TypeInit, TypeStep, RegistersCorrect, PTL
             DEF Spec, AlarmsAreLatched, Panel!PanelSpec

-----------------------------------------------------------------------------
(* Liveness, from the fairness of FairSpec and from WhenEnabled, which is  *)
(* all the proofs need to know of ENABLED.                                 *)

Faulty == State_Flag # "Normal"

(* A lasting fault reaches the 4-20 mA output: nothing but the output task *)
(* takes back the second that is due, and no export lasts.                 *)
THEOREM FaultReachesLoop == FairSpec /\ []WhenEnabled => LoopShowsFault
  <1>1. Faulty /\ <<CurrentLoop>>_vars => (loop = "fault")'
    BY DEF Faulty, CurrentLoop
  <1>2. Faulty /\ loop = "fault" /\ [Next]_vars => (loop = "fault")'
    BY DEF Faulty, Next, Superloop, Check, CurrentLoop, WriteAnswered, Reading,
           Answer, ThreePollsUnanswered, EndExport, RequestExport, Configure, PcAck,
           PcReset, PcBlockWrite, Interrupt, PressAck, PressReset, RtcSecond,
           AckMinutePasses, HvGracePasses, vars, loopVars
  <1>3. <<RtcSecond>>_vars => secondDue'
    BY DEF RtcSecond
  <1>4. secondDue /\ [Next]_vars /\ ~<<CurrentLoop>>_vars => secondDue'
    <2>1. secondDue /\ CurrentLoop => <<CurrentLoop>>_vars
      BY DEF CurrentLoop, vars, loopVars
    <2>2. secondDue /\ [Next]_vars /\ ~CurrentLoop => secondDue'
      BY DEF Next, Superloop, Check, WriteAnswered, Reading,
             Answer, ThreePollsUnanswered, EndExport, RequestExport, Configure, PcAck,
             PcReset, PcBlockWrite, Interrupt, PressAck, PressReset, RtcSecond,
             AckMinutePasses, HvGracePasses, vars, loopVars
    <2> QED BY <2>1, <2>2
  <1>5. <<EndExport>>_vars => ~exporting'
    BY DEF EndExport
  <1> QED BY <1>1, <1>2, <1>3, <1>4, <1>5, PTL
          DEF FairSpec, Spec, WhenEnabled, LoopShowsFault, Faulty

(* While all is well the check raises nothing, so the stages can only      *)
(* lower the flag.                                                         *)
LEMMA WellRaisesNothing ==
  ASSUME TypeOK, AllIsWell, NEW m \in Machines
  PROVE  Raise(m) = m
  <1>1. Radiation = dose /\ dose \in Nat
    BY DEF AllIsWell, Radiation, LinkFailed, TypeOK, InputTypes
  <1>2. ~OverloadDue(m) /\ ~OverrunDue(m) /\ ~AlarmDue(m) /\ ~HvFaultDue(m)
    BY <1>1, RadiationType DEF AllIsWell, TypeOK, OverloadDue, OverrunDue, AlarmDue, HvFaultDue
  <1> QED BY <1>2 DEF Raise

LEMMA WellIsBelow ==
  ASSUME TypeOK, AllIsWell, NEW f \in Acked
  PROVE  BelowItsLimit(f)
  <1>1. Radiation = dose
    BY DEF AllIsWell, Radiation, LinkFailed
  <1> QED BY <1>1 DEF AllIsWell, BelowItsLimit, Acked

(* What one check makes of a state in which all is well: an alarm nobody   *)
(* acknowledges stands, and everything else returns to Normal at once.     *)
LEMMA WellChecked ==
  ASSUME TypeOK, RegistersAgree, AllIsWell
  PROVE  \/ Checked.flag = "Normal"
         \/ /\ State_Flag \in Raised /\ ackTimer = "running" /\ Ack_Button # 1
            /\ Checked.flag = State_Flag /\ Checked.ackTimer = "running"
  <1>1. M1 \in Machines /\ M2 \in Machines /\ M3 \in Machines /\ M4 \in Machines
        /\ Machine \in Machines /\ State_Flag \in States /\ ackTimer \in {"running", "expired"}
    BY StagesType, MachineType DEF TypeOK, AlarmTypes
  <1>2. ~LinkFailed /\ agm_mode = 1 /\ hv = "in"
    BY DEF AllIsWell, LinkFailed
  <1>3. M2 = M1
    BY <1>1, WellRaisesNothing DEF M2
  <1>4. (M1 = Machine /\ State_Flag # "Dtc_Failed") \/ M1.flag = "Normal"
    <2>1. Prev_Dtc_Failed_Status \in BOOLEAN
      BY DEF TypeOK, FlagTypes
    <2> QED BY <1>1, <1>2, <2>1, LinkMove DEF M1, RegistersAgree
  <1>5. Checked = ResetToNormal(M4)
    BY DEF Checked, M1, M2, M3, M4
  <1>6. Machine.flag = State_Flag /\ Machine.ackTimer = ackTimer
    BY DEF Machine
  <1>7. CASE M1.flag = "Normal"
    <2>1. M3 = M1
      BY <1>3, <1>7 DEF M3, HvRecover
    <2>2. M4 = M1
      BY <1>7, <2>1 DEF M4, Acknowledge, Raised
    <2> QED BY <1>1, <1>5, <1>7, <2>2, ResetMove
  <1>8. CASE M1 = Machine /\ State_Flag = "Hv_Fault"
    <2>1. M3.flag = "Normal"
      BY <1>1, <1>2, <1>3, <1>6, <1>8 DEF M3, HvRecover, Machines
    <2>2. M4 = M3
      BY <2>1 DEF M4, Acknowledge, Raised
    <2> QED BY <1>1, <1>5, <2>1, <2>2, ResetMove
  <1>9. CASE M1 = Machine /\ State_Flag \in Acked
    <2>1. M4 = Machine
      BY <1>3, <1>6, <1>9 DEF M3, M4, HvRecover, Acknowledge, Raised, Acked
    <2>2. BelowItsLimit(M4.flag)
      BY <1>6, <1>9, <2>1, WellIsBelow
    <2> QED BY <1>1, <1>2, <1>5, <2>2 DEF ResetToNormal, Machines
  <1>10. CASE M1 = Machine /\ State_Flag \in Raised
    <2>1. M3 = Machine
      BY <1>3, <1>6, <1>10 DEF M3, HvRecover, Raised
    <2>2. CASE AckGiven(Machine)
      <3>1. M4.flag \in Acked
        BY <1>1, <1>6, <1>10, <2>1, <2>2, AcknowledgeMove, ShownAcked DEF M4
      <3>2. BelowItsLimit(M4.flag)
        BY <3>1, WellIsBelow
      <3> QED BY <1>1, <1>2, <1>5, <3>2 DEF ResetToNormal, Machines
    <2>3. CASE ~AckGiven(Machine)
      <3>1. M4 = Machine /\ Checked = Machine
        BY <1>5, <1>6, <1>10, <2>1, <2>3 DEF M4, Acknowledge, ResetToNormal, BelowItsLimit, Raised
      <3>2. ackTimer = "running" /\ Ack_Button # 1
        BY <1>1, <1>2, <1>6, <2>3 DEF AckGiven
      <3> QED BY <1>6, <1>10, <3>1, <3>2
    <2> QED BY <2>2, <2>3
  <1> QED BY <1>1, <1>4, <1>6, <1>7, <1>8, <1>9, <1>10 DEF States

(* The same of any step: only a check moves the flag, and the minute runs  *)
(* out by itself.                                                          *)
LEMMA FlagAndMinute ==
  [Next]_vars => \/ Check
                 \/ UNCHANGED <<State_Flag, ackTimer>>
                 \/ UNCHANGED State_Flag /\ ackTimer' = "expired"
  <1>1. Superloop => Check \/ UNCHANGED <<State_Flag, ackTimer>>
    BY DEF Superloop, CurrentLoop, WriteAnswered, Reading, Answer, ThreePollsUnanswered,
           EndExport, RequestExport, Configure, PcAck, PcReset, PcBlockWrite, alarmVars
  <1>2. Interrupt => \/ UNCHANGED <<State_Flag, ackTimer>>
                     \/ UNCHANGED State_Flag /\ ackTimer' = "expired"
    BY DEF Interrupt, PressAck, PressReset, RtcSecond, AckMinutePasses, HvGracePasses, alarmVars
  <1>3. UNCHANGED vars => UNCHANGED <<State_Flag, ackTimer>>
    BY DEF vars, alarmVars
  <1> QED BY <1>1, <1>2, <1>3 DEF Next

Standing == State_Flag \in Raised /\ ackTimer = "running"

(* In automatic mode the monitor returns to Normal once all stays well: an *)
(* alarm stands until its minute is over, the next check acknowledges and  *)
(* resets it, and nothing raises another.                                  *)
THEOREM RecoversUnattended == FairSpec /\ []WhenEnabled => AutoRecovers
  <1> DEFINE I == TypeOK /\ RegistersAgree
  <1>1. I /\ AllIsWell /\ ~Faulty /\ [Next]_vars => ~Faulty'
    <2> SUFFICES ASSUME I, AllIsWell, ~Faulty, [Next]_vars PROVE ~Faulty'
      OBVIOUS
    <2>1. CASE Check
      BY <2>1, WellChecked DEF Check, Faulty, Raised
    <2> QED BY <2>1, FlagAndMinute DEF Faulty
  <1>2. I /\ AllIsWell /\ Faulty /\ ~Standing /\ [Next]_vars => ~Faulty' \/ ~Standing'
    <2> SUFFICES ASSUME I, AllIsWell, Faulty, ~Standing, [Next]_vars
                 PROVE  ~Faulty' \/ ~Standing'
      OBVIOUS
    <2>1. CASE Check
      BY <2>1, WellChecked DEF Check, Faulty, Standing
    <2> QED BY <2>1, FlagAndMinute DEF Standing
  <1>3. I /\ AllIsWell /\ ~Standing /\ <<Check>>_vars => ~Faulty'
    BY WellChecked DEF Check, Faulty, Standing
  <1>4. <<AckMinutePasses>>_vars => ~Standing'
    BY DEF AckMinutePasses, Standing
  <1>5. Standing => ackTimer = "running"
    BY DEF Standing
  <1>6. <<EndExport>>_vars => ~exporting'
    BY DEF EndExport
  <1>7. FairSpec => []I
    BY TypeCorrect, RegistersCorrect, PTL DEF FairSpec
  <1>8. (State_Flag = "Normal" <=> ~Faulty) /\ (State_Flag # "Normal" <=> Faulty)
    BY DEF Faulty
  <1> HIDE DEF I
  <1> QED BY <1>1, <1>2, <1>3, <1>4, <1>5, <1>6, <1>7, <1>8, PTL
          DEF FairSpec, Spec, WhenEnabled, AutoRecovers
=============================================================================
