------------------------- MODULE DetectorConfigProofs -------------------------
(***************************************************************************)
(* The proof that every register of the detector holds the value asked for *)
(* last, for any set of writers and blocks.  ConfigurationIsApplied speaks *)
(* of the moment when nothing is queued; the induction follows the value   *)
(* on its way there: in the staging bank (StagedIsWanted), in the request  *)
(* on the line (RequestIsWanted) and behind the acknowledgement            *)
(* (AckIsTrue). The banks follow once the writers are quiet                *)
(* (BanksCatchUp), from FairSpec and WhenEnabled.                          *)
(***************************************************************************)
EXTENDS DetectorConfig, TLAPS

(* What is neither queued nor astray is already in the detector.           *)
HeldIsWanted == \A r \in Regs \ (astray \cup Carried) : reg[r] = want[r]

(* What is queued would be sent with the value wanted.                     *)
StagedIsWanted == \A r \in Carried \ astray : Sent[r] = want[r]

(* A request still on the line brings what is wanted, or what is queued    *)
(* will be sent after it.                                                  *)
RequestIsWanted ==
  \A r \in DOMAIN req.vals \ astray : r \in Carried \/ req.vals[r] = want[r]

(* A current request carries what is queued.                               *)
RequestIsCurrent == req.cur /\ queued # "POLLING" => req.vals = Sent

(* A current acknowledgement is for what is queued: the detector has it,   *)
(* and no other request is on the line.                                    *)
AckIsTrue ==
  reply.cur /\ queued # "POLLING" =>
    /\ req = None \/ req.cur
    /\ \A r \in Carried \ astray : reg[r] = want[r]

(* The temporaries of the menu stand still unless something was entered.   *)
MenuIsLoaded ==
  /\ "FREQ" \in entered \/ temps.FREQ = freq_dtc_mode
  /\ "HV" \in entered \/ temps.HV = 0

IInv == /\ TypeOK /\ HeldIsWanted /\ StagedIsWanted /\ RequestIsWanted
        /\ RequestIsCurrent /\ AckIsTrue /\ MenuIsLoaded

USE LinksAssumption, RangesAssumption, EditsAssumption
    DEF LinksAssumption, RangesAssumption, EditsAssumption

-----------------------------------------------------------------------------
(* What is queued and sent.                                                *)

LEMMA CarriedRegs == \A q : CarriedBy(q) \subseteq Regs
  BY DEF CarriedBy, Block, Regs, Staged, Calib

LEMMA SentType ==
  ASSUME TypeOK
  PROVE  /\ Sent \in [Carried -> Values]
         /\ "FREQ" \in Carried => Sent["FREQ"] \in {0, 1}
  <1>1. Carried \subseteq Regs
    BY CarriedRegs DEF Carried
  <1>2. 0 \in Values /\ 1 \in Values
    BY DEF Values, Own
  <1>3. \A r \in Carried : Sent[r] \in Values
    BY <1>1, <1>2 DEF Sent, TypeOK
  <1>4. "FREQ" \in Carried => Sent["FREQ"] \in {0, 1}
    BY DEF Sent, TypeOK, Staged, Calib
  <1> QED BY <1>3, <1>4 DEF Sent

LEMMA StagedIsSent == \A r \in Carried : r \in Staged => Sent[r] = staged[r]
  BY DEF Sent

LEMMA SwitchIsSent ==
  "FREQ" \in Carried => Sent["FREQ"] = IF queued = "FREQ_SWITCH" THEN dtc_freq_switch_val ELSE 0
  BY DEF Sent, Staged, Calib

(* The write that is queued for S carries every register of S.             *)
LEMMA QueuedCarries ==
  ASSUME NEW S \in SUBSET Regs, S # {}, SetFlags(S)
  PROVE  /\ S \subseteq Carried'
         /\ queued' \in Ranges \cup {"FREQ_SWITCH"}
         /\ queued' = "FREQ_SWITCH" <=> S = {"FREQ"}
         /\ Carried' \cap Calib # {} => S \cap Calib # {}
  <1>1. CASE S = {"FREQ"}
    BY <1>1 DEF SetFlags, CarriedBy, Carried, Calib
  <1>2. CASE S # {"FREQ"}
    <2>1. queued' = BlockFor(S)
      BY <1>2 DEF SetFlags
    <2>2. S \cap Calib = {} => S = {"HV"} \/ S = {"HV", "FREQ"}
      <3>1. S \subseteq Calib \cup {"HV", "FREQ"}
        BY DEF Regs, Staged
      <3>2. ASSUME S \cap Calib = {} PROVE S = {"HV"} \/ S = {"HV", "FREQ"}
        BY <1>2, <3>1, <3>2
      <3> QED BY <3>2
    <2>3. /\ S = {"HV"} => BlockFor(S) = "HV_WRITE"
          /\ S = {"HV", "FREQ"} => BlockFor(S) = "HV_AND_FREQ"
      <3>1. {"HV", "FREQ"} # {"HV"} /\ ~({"HV", "FREQ"} \subseteq Calib) /\ ~({"HV"} \subseteq Calib)
        BY DEF Calib
      <3> QED BY <3>1 DEF BlockFor
    <2>4. /\ BlockFor(S) \in Ranges
          /\ S \subseteq Block(BlockFor(S))
      BY <1>2 DEF BlockFor, Block, Ranges, Regs, Staged, Calib
    <2>5. \A q \in Ranges : CarriedBy(q) = Block(q) /\ q # "FREQ_SWITCH"
      BY DEF CarriedBy, Ranges
    <2>6. Carried' = Block(BlockFor(S)) /\ queued' \in Ranges
      BY <2>1, <2>4, <2>5 DEF Carried
    <2>7. Block("HV_WRITE") \cap Calib = {} /\ Block("HV_AND_FREQ") \cap Calib = {}
      BY DEF Block, Calib
    <2>8. Carried' \cap Calib # {} => S \cap Calib # {}
      BY <2>2, <2>3, <2>6, <2>7
    <2> QED BY <1>2, <2>4, <2>5, <2>6, <2>8
  <1> QED BY <1>1, <1>2
-----------------------------------------------------------------------------
(* Queueing: what Queue does for any set S that a writer puts in the       *)
(* flags, of which the registers in asked were asked for.                  *)

Queueing(S, asked, w, mode) ==
  /\ S \in SUBSET Regs /\ asked \in SUBSET Regs /\ w \in Banks /\ mode \in {0, 1}
  /\ S \cap {"HV", "FREQ"} \subseteq asked
  /\ Queue(S, asked, w, mode)
  /\ reg' = reg

LEMMA NothingQueued ==
  ASSUME TypeOK, NEW asked, NEW w, NEW mode, Queueing({}, asked, w, mode)
  PROVE  /\ UNCHANGED <<staged, dtc_freq_switch_val, queued, req, reply, reg>>
         /\ Carried' = Carried /\ Sent' = Sent
  <1>1. staged' = staged
    BY DEF Queueing, Queue, Stage, TypeOK
  <1>2. dtc_freq_switch_val' = dtc_freq_switch_val /\ queued' = queued
    BY DEF Queueing, Queue, SetSwitch, SetFlags
  <1>3. UNCHANGED <<req, reply, reg>>
    BY DEF Queueing, Queue
  <1> QED BY <1>1, <1>2, <1>3 DEF Carried, Sent

LEMMA SomethingQueued ==
  ASSUME TypeOK, NEW S, NEW asked, NEW w, NEW mode, Queueing(S, asked, w, mode), S # {}
  PROVE  /\ req' = Aged(req) /\ reply' = Aged(reply) /\ reg' = reg
         /\ S \subseteq Carried' /\ queued' # "POLLING"
         /\ queued' \in Ranges \cup {"FREQ_SWITCH"}
  <1>1. queued' \in Ranges \cup {"FREQ_SWITCH"} /\ S \subseteq Carried'
    BY QueuedCarries DEF Queueing, Queue
  <1>2. \A q \in Ranges : q # "POLLING"
    BY DEF Ranges
  <1> QED BY <1>1, <1>2 DEF Queueing, Queue

(* Wants change only where asked, and nothing astray is cleared but what   *)
(* was asked for and written.                                              *)
LEMMA WantsFollow ==
  ASSUME TypeOK, NEW S, NEW asked, NEW w, NEW mode, Queueing(S, asked, w, mode)
  PROVE  /\ want' \in Banks /\ astray' \subseteq Regs
         /\ \A r \in Regs \ astray' :
              /\ r \in asked \cap S \/ want'[r] = want[r]
              /\ r \in asked \cap S \/ r \notin astray
              /\ r \in asked => want'[r] = w[r]
  <1>1. want' = [r \in Regs |-> IF r \in asked THEN w[r] ELSE want[r]]
    BY DEF Queueing, Queue, Follow
  <1>2. (astray \ (asked \cap S)) \cup TakenForUnchanged(S, asked, w) \subseteq astray'
    BY DEF Queueing, Queue, Follow
  <1>3. want' \in Banks
    <2>1. want' \in [Regs -> Values]
      BY <1>1 DEF Banks, Queueing, TypeOK
    <2>2. want'["FREQ"] \in {0, 1}
      BY <1>1 DEF Banks, Queueing, TypeOK, Regs
    <2> QED BY <2>1, <2>2 DEF Banks
  <1>4. astray' \subseteq Regs
    BY CarriedRegs DEF Queueing, Queue, Follow, TypeOK, Overwritten, TakenForUnchanged,
       StaleBeside, SwitchZeroed, VoltageUnstaged, Carried, Regs, Staged, Calib
  <1> QED BY <1>1, <1>2, <1>3, <1>4 DEF TakenForUnchanged

LEMMA QueueTypes ==
  ASSUME TypeOK, NEW S, NEW asked, NEW w, NEW mode, Queueing(S, asked, w, mode)
  PROVE  /\ staged' \in [Staged -> Values] /\ dtc_freq_switch_val' \in {0, 1}
         /\ queued' \in Ranges \cup {"POLLING", "HV_SWITCH", "FREQ_SWITCH"}
         /\ req' \in Frames /\ reply' \in Frames
         /\ \A f \in {req', reply'} : "FREQ" \in DOMAIN f.vals => f.vals.FREQ \in {0, 1}
         /\ reply'.kind = "READ" => DOMAIN reply'.vals = Regs
  <1>1. CASE S = {}
    BY <1>1, NothingQueued DEF TypeOK
  <1>2. CASE S # {}
    <2>1. staged' \in [Staged -> Values]
      BY DEF Queueing, Queue, Stage, TypeOK, Banks, Regs
    <2>2. dtc_freq_switch_val' \in {0, 1}
      BY DEF Queueing, Queue, SetSwitch, TypeOK, Banks
    <2>3. req' \in Frames /\ reply' \in Frames
      BY <1>2, SomethingQueued DEF TypeOK, Aged, Frames
    <2>4. \A f \in Frames : Aged(f).vals = f.vals /\ Aged(f).kind = f.kind
      BY DEF Aged, Frames
    <2>5. /\ req'.vals = req.vals /\ reply'.vals = reply.vals
          /\ reply'.kind = reply.kind
      BY <1>2, <2>4, SomethingQueued DEF TypeOK
    <2>6. queued' \in Ranges \cup {"FREQ_SWITCH"}
      BY <1>2, SomethingQueued
    <2> QED BY <2>1, <2>2, <2>3, <2>5, <2>6 DEF TypeOK
  <1> QED BY <1>1, <1>2

(* What is queued is wanted.                                               *)
LEMMA QueuedIsWanted ==
  ASSUME TypeOK, StagedIsWanted,
         NEW S, NEW asked, NEW w, NEW mode, Queueing(S, asked, w, mode)
  PROVE  StagedIsWanted'
  <1>1. CASE S = {}
    BY <1>1, NothingQueued, WantsFollow, CarriedRegs DEF StagedIsWanted, Carried
  <1>2. CASE S # {}
    <2> SUFFICES ASSUME NEW r \in Carried', r \notin astray' PROVE Sent'[r] = want'[r]
      BY DEF StagedIsWanted
    <2>1. r \in Regs
      BY CarriedRegs DEF Carried
    <2>2. r \in asked => want'[r] = w[r]
      BY <2>1, WantsFollow
    <2>3. SetFlags(S) /\ S \in SUBSET Regs
      BY DEF Queueing, Queue
    <2>4. CASE r = "FREQ"
      <3>1. Sent'["FREQ"] = IF queued' = "FREQ_SWITCH" THEN dtc_freq_switch_val' ELSE 0
        BY <2>4, SwitchIsSent DEF Sent, Carried, Staged, Calib
      <3>2. CASE S = {"FREQ"}
        BY <3>1, <3>2, <1>2, <2>2, <2>3, <2>4, QueuedCarries DEF Queueing, Queue, SetSwitch
      <3>3. CASE S # {"FREQ"}
        <4>1. queued' # "FREQ_SWITCH"
          BY <1>2, <2>3, <3>3, QueuedCarries
        <4>2. SwitchZeroed(S) \subseteq astray'
          BY DEF Queueing, Queue, Follow
        <4>3. want'["FREQ"] = 0
          BY <1>2, <2>4, <3>3, <4>2 DEF SwitchZeroed, Carried
        <4> QED BY <2>4, <3>1, <4>1, <4>3
      <3> QED BY <3>2, <3>3
    <2>5. CASE r \in Calib
      <3>1. S \cap Calib # {}
        BY <1>2, <2>3, <2>5, QueuedCarries
      <3>2. Sent'[r] = w[r]
        BY <2>5, <3>1 DEF Sent, Carried, Queueing, Queue, Stage, Staged
      <3>3. StaleBeside(S, asked, w) \subseteq astray'
        BY DEF Queueing, Queue, Follow
      <3>4. r \in asked \/ w[r] = want[r]
        BY <2>5, <3>1, <3>3 DEF StaleBeside
      <3>5. r \in asked \/ want'[r] = want[r]
        BY <2>1, WantsFollow
      <3> QED BY <2>2, <3>2, <3>4, <3>5
    <2>6. CASE r = "HV"
      <3>1. Sent'[r] = staged'["HV"]
        BY <2>6 DEF Sent, Carried, Staged
      <3>2. CASE "HV" \in S
        BY <2>2, <2>6, <3>1, <3>2 DEF Queueing, Queue, Stage, Staged
      <3>3. CASE "HV" \notin S
        <4>1. staged'["HV"] = staged.HV
          BY <3>3 DEF Queueing, Queue, Stage, Staged, Calib
        <4>2. VoltageUnstaged(S) \subseteq astray'
          BY DEF Queueing, Queue, Follow
        <4>3. staged.HV = want'["HV"]
          BY <1>2, <2>6, <3>3, <4>2 DEF VoltageUnstaged, Carried
        <4> QED BY <2>6, <3>1, <4>1, <4>3
      <3> QED BY <3>2, <3>3
    <2> QED BY <2>1, <2>4, <2>5, <2>6 DEF Regs, Staged
  <1> QED BY <1>1, <1>2

(* Queueing keeps what the induction says of the detector, the request and *)
(* the reply.                                                              *)
LEMMA QueueKeeps ==
  ASSUME IInv, NEW S, NEW asked, NEW w, NEW mode, Queueing(S, asked, w, mode)
  PROVE  HeldIsWanted' /\ RequestIsWanted' /\ RequestIsCurrent' /\ AckIsTrue'
  <1> USE DEF IInv
  <1>1. CASE S = {}
    <2>1. /\ UNCHANGED <<queued, req, reply, reg>>
          /\ Carried' = Carried /\ Sent' = Sent
      BY <1>1, NothingQueued
    <2>2. \A r \in Regs \ astray' : want'[r] = want[r] /\ r \notin astray
      BY <1>1, WantsFollow
    <2>3. Carried \subseteq Regs /\ DOMAIN req.vals \subseteq Regs
      BY CarriedRegs DEF Carried, TypeOK, Frames
    <2> QED BY <2>1, <2>2, <2>3 DEF HeldIsWanted, RequestIsWanted, RequestIsCurrent, AckIsTrue
  <1>2. CASE S # {}
    <2>1. /\ req' = Aged(req) /\ reply' = Aged(reply) /\ reg' = reg
          /\ S \subseteq Carried'
      BY <1>2, SomethingQueued
    <2>2. /\ ~req'.cur /\ ~reply'.cur /\ req'.vals = req.vals
      BY <2>1 DEF Aged, TypeOK, Frames
    <2>3. Carried \ Carried' \subseteq astray'
      BY <1>2 DEF Queueing, Queue, Follow, Overwritten, Carried
    <2>4. \A r \in Regs \ (astray' \cup Carried') :
             want'[r] = want[r] /\ r \notin astray \cup Carried
      BY <2>1, <2>3, WantsFollow
    <2>5. HeldIsWanted'
      BY <2>1, <2>4 DEF HeldIsWanted
    <2>6. DOMAIN req.vals \subseteq Regs
      BY DEF TypeOK, Frames
    <2>7. RequestIsWanted'
      BY <2>2, <2>4, <2>6 DEF RequestIsWanted
    <2> QED BY <2>2, <2>5, <2>7 DEF RequestIsCurrent, AckIsTrue
  <1> QED BY <1>1, <1>2

-----------------------------------------------------------------------------
(* The steps.                                                              *)

LEMMA BankTypes == ASSUME NEW b \in Banks
                   PROVE  /\ b.FREQ \in {0, 1} /\ \A r \in Regs : b[r] \in Values
                          /\ \A m \in {0, 1} : Loaded(b, m) \in Banks /\ Loaded(b, m).FREQ = m
                                               /\ Loaded(b, m).HV = 0
                          /\ \A m \in {0, 1} : [b EXCEPT !.FREQ = m] \in Banks
  <1>1. 0 \in Values /\ 1 \in Values /\ "FREQ" \in Regs /\ "HV" \in Regs
    BY DEF Values, Own, Regs, Staged
  <1>2. b \in [Regs -> Values]
    BY DEF Banks
  <1> QED BY <1>1, <1>2 DEF Banks, Loaded

LEMMA PcWriteKeeps ==
  ASSUME IInv, edits \in 0..(MaxEdits - 1), edits' = edits + 1,
         NEW l \in Links, NEW S \in PcRanges, NEW f \in {0, 1}, PcWrite(l, S, f)
  PROVE  IInv'
  <1> DEFINE w == [r \in Regs |-> CASE r \notin S -> live[r]
                                    [] r = "FREQ" /\ r \in S -> f
                                    [] OTHER -> edits + 1]
             bank == IF l = "tcp" /\ "FREQ" \in S THEN [w EXCEPT !.FREQ = 0] ELSE w
  <1>1. edits + 1 \in Values /\ 0 \in Values /\ 1 \in Values
    BY DEF Values, Own
  <1>2. w \in Banks
    <2>1. live \in [Regs -> Values] /\ live.FREQ \in {0, 1} /\ "FREQ" \in Regs
      BY DEF IInv, TypeOK, Banks, Regs
    <2>2. \A r \in Regs : w[r] \in Values
      BY <1>1, <2>1
    <2>3. w["FREQ"] \in {0, 1}
      BY <2>1
    <2> QED BY <2>2, <2>3 DEF Banks
  <1>3. bank \in Banks
    BY <1>2, BankTypes
  <1>4. /\ Queue(S, S, w, live.FREQ) /\ live' = bank /\ freq_dtc_mode' = bank.FREQ
        /\ temps' = Loaded(bank, bank.FREQ) /\ entered' = {}
        /\ reg' = reg /\ Modbus_State_DTC' = Modbus_State_DTC
    BY DEF PcWrite
  <1> HIDE DEF w, bank
  <1>5. live.FREQ \in {0, 1} /\ bank.FREQ \in {0, 1}
    BY <1>3 DEF IInv, TypeOK, Banks
  <1>6. Queueing(S, S, w, live.FREQ)
    BY <1>2, <1>4, <1>5 DEF Queueing
  <1>7. temps' \in Banks /\ MenuIsLoaded'
    BY <1>3, <1>4, <1>5, BankTypes DEF MenuIsLoaded
  <1>8. TypeOK'
    BY <1>3, <1>4, <1>5, <1>6, <1>7, QueueTypes, WantsFollow DEF IInv, TypeOK
  <1> QED BY <1>6, <1>7, <1>8, QueueKeeps, QueuedIsWanted DEF IInv

LEMMA SaveMenuKeeps ==
  ASSUME IInv, edits \in 0..(MaxEdits - 1), edits' = edits + 1, SaveMenu
  PROVE  IInv'
  <1>1. /\ Queue(Changed, entered, temps, freq_dtc_mode) /\ freq_dtc_mode' = temps.FREQ
        /\ live' = [live EXCEPT !.FREQ = temps.FREQ]
        /\ UNCHANGED <<reg, temps, entered, Modbus_State_DTC>>
    BY DEF SaveMenu
  <1>2. Changed \cap {"HV", "FREQ"} \subseteq entered
    BY DEF Changed, Calib, IInv, MenuIsLoaded
  <1>3. Queueing(Changed, entered, temps, freq_dtc_mode)
    BY <1>1, <1>2 DEF Queueing, IInv, TypeOK, Changed, Regs, Staged
  <1>4. temps.FREQ \in {0, 1}
    BY DEF IInv, TypeOK, Banks
  <1>5. live' \in Banks
    BY <1>1, <1>4, BankTypes DEF IInv, TypeOK
  <1>6. TypeOK'
    BY <1>1, <1>3, <1>4, <1>5, QueueTypes, WantsFollow DEF IInv, TypeOK
  <1>7. MenuIsLoaded'
    BY <1>1 DEF IInv, MenuIsLoaded
  <1> QED BY <1>3, <1>6, <1>7, QueueKeeps, QueuedIsWanted DEF IInv

LEMMA MenuKeeps ==
  ASSUME IInv, edits \in 0..(MaxEdits - 1), edits' = edits + 1,
         OpenMenu \/ ToggleSwitch \/ \E r \in Staged : EnterValue(r)
  PROVE  IInv'
  <1>1. /\ UNCHANGED <<reg, req, reply, live, freq_dtc_mode, staged, dtc_freq_switch_val,
                       queued, Modbus_State_DTC, want, astray>>
        /\ Carried' = Carried /\ Sent' = Sent
    BY DEF OpenMenu, ToggleSwitch, EnterValue, detVars, queueVars, Carried, Sent
  <1>2. temps' \in Banks /\ entered' \subseteq Regs /\ MenuIsLoaded'
    <2>1. CASE OpenMenu
      BY <2>1, BankTypes DEF OpenMenu, IInv, TypeOK, MenuIsLoaded
    <2>2. CASE ToggleSwitch
      <3>1. 1 - temps.FREQ \in {0, 1}
        BY DEF IInv, TypeOK, Banks
      <3>2. temps' \in Banks /\ entered' = entered \cup {"FREQ"}
        BY <2>2, <3>1, BankTypes DEF ToggleSwitch, IInv, TypeOK
      <3>3. temps'["HV"] = temps["HV"]
        BY <2>2 DEF ToggleSwitch, IInv, TypeOK, Banks, Regs, Staged
      <3> QED BY <3>2, <3>3 DEF IInv, TypeOK, MenuIsLoaded, Regs
    <2>3. CASE \E r \in Staged : EnterValue(r)
      <3>1. PICK r \in Staged : EnterValue(r)
        BY <2>3
      <3>2. edits + 1 \in Values
        BY DEF Values, Own
      <3>3. /\ temps' = [temps EXCEPT ![r] = edits + 1] /\ entered' = entered \cup {r}
            /\ freq_dtc_mode' = freq_dtc_mode
        BY <3>1 DEF EnterValue
      <3>4. temps \in [Regs -> Values] /\ temps.FREQ \in {0, 1}
        BY DEF IInv, TypeOK, Banks
      <3>5. r \in Regs /\ r # "FREQ"
        BY DEF Regs, Staged, Calib
      <3>6. temps' \in [Regs -> Values] /\ temps'["FREQ"] = temps["FREQ"]
        BY <3>2, <3>3, <3>4, <3>5 DEF Regs
      <3>7. r = "HV" \/ temps'["HV"] = temps["HV"]
        BY <3>3, <3>4 DEF Regs, Staged
      <3> QED BY <3>3, <3>4, <3>5, <3>6, <3>7 DEF Banks, IInv, TypeOK, MenuIsLoaded
    <2> QED BY <2>1, <2>2, <2>3
  <1>3. TypeOK'
    BY <1>1, <1>2 DEF IInv, TypeOK
  <1> QED BY <1>1, <1>2, <1>3 DEF IInv, HeldIsWanted, StagedIsWanted, RequestIsWanted,
                                  RequestIsCurrent, AckIsTrue

LEMMA RelayKeeps ==
  ASSUME IInv, edits \in 0..(MaxEdits - 1), edits' = edits + 1, RelayChange
  PROVE  IInv'
  <1>1. /\ queued' = "HV_SWITCH" /\ astray' = astray \cup Carried
        /\ req' = Aged(req) /\ reply' = Aged(reply)
        /\ UNCHANGED <<reg, live, freq_dtc_mode, temps, entered, staged, dtc_freq_switch_val,
                       Modbus_State_DTC, want>>
    BY DEF RelayChange, menuVars
  <1>2. Carried' = {}
    BY <1>1 DEF Carried, CarriedBy
  <1>3. /\ ~req'.cur /\ ~reply'.cur /\ req'.vals = req.vals /\ req' \in Frames
        /\ reply' \in Frames /\ reply'.vals = reply.vals /\ reply'.kind = reply.kind
    BY <1>1 DEF Aged, Frames, IInv, TypeOK
  <1>4. TypeOK'
    BY <1>1, <1>3, CarriedRegs DEF IInv, TypeOK, Carried
  <1> QED BY <1>1, <1>2, <1>3, <1>4 DEF IInv, HeldIsWanted, StagedIsWanted, RequestIsWanted,
                                        RequestIsCurrent, AckIsTrue, MenuIsLoaded

LEMMA NoneType == None \in Frames /\ ~None.cur /\ DOMAIN None.vals = {} /\ None.kind = "NONE"
  <1>1. NoVals \in [{} -> Values] /\ DOMAIN NoVals = {}
    BY DEF NoVals
  <1>2. NoVals \in UNION {[S -> Values] : S \in SUBSET Regs}
    BY <1>1
  <1> QED BY <1>1, <1>2 DEF None, Frames

LEMMA SendKeeps ==
  ASSUME IInv, Send
  PROVE  IInv'
  <1>1. /\ req' = Request /\ Modbus_State_DTC' = "WAIT"
        /\ UNCHANGED <<reg, reply, live, freq_dtc_mode, temps, entered, staged,
                       dtc_freq_switch_val, queued, edits, want, astray>>
        /\ Carried' = Carried /\ Sent' = Sent
    BY DEF Send, menuVars, queueVars, Carried, Sent
  <1>2. CASE queued = "POLLING"
    <2>1. req' = [kind |-> "READ", vals |-> NoVals, cur |-> FALSE] /\ DOMAIN req'.vals = {}
      BY <1>1, <1>2 DEF Request, NoVals
    <2>2. req' \in Frames
      BY <2>1, NoneType DEF Frames, None
    <2>3. TypeOK'
      BY <1>1, <2>1, <2>2 DEF IInv, TypeOK
    <2> QED BY <1>1, <1>2, <2>1, <2>3 DEF IInv, HeldIsWanted, StagedIsWanted, RequestIsWanted,
                                         RequestIsCurrent, AckIsTrue, MenuIsLoaded
  <1>3. CASE queued # "POLLING"
    <2>1. /\ req'.vals = Sent /\ req'.cur = TRUE /\ req'.kind \in {"0x06", "0x10"}
          /\ req' = [kind |-> req'.kind, vals |-> Sent, cur |-> TRUE]
      BY <1>1, <1>3 DEF Request
    <2>2. /\ Sent \in [Carried -> Values]
          /\ "FREQ" \in Carried => Sent["FREQ"] \in {0, 1}
      BY SentType DEF IInv
    <2>3. Sent \in UNION {[S -> Values] : S \in SUBSET Regs}
      BY <2>2, CarriedRegs DEF Carried
    <2>4. req' \in Frames
      BY <2>1, <2>3 DEF Frames
    <2>5. TypeOK'
      BY <1>1, <2>1, <2>2, <2>4 DEF IInv, TypeOK
    <2>6. DOMAIN req'.vals = Carried
      BY <2>1, <2>2
    <2> QED BY <1>1, <2>1, <2>5, <2>6 DEF IInv, HeldIsWanted, StagedIsWanted, RequestIsWanted,
                                         RequestIsCurrent, AckIsTrue, MenuIsLoaded
  <1> QED BY <1>2, <1>3

(* Dropping what is queued leaves it astray.                               *)
LEMMA DropKeeps ==
  ASSUME IInv, Drop, UNCHANGED <<reg, req, want>>
  PROVE  HeldIsWanted' /\ StagedIsWanted' /\ RequestIsWanted' /\ RequestIsCurrent' /\ AckIsTrue'
  <1>1. queued' = "POLLING" /\ astray' = astray \cup Carried
    BY DEF Drop
  <1>2. Carried' = {}
    BY <1>1 DEF Carried, CarriedBy
  <1> QED BY <1>1, <1>2 DEF IInv, HeldIsWanted, StagedIsWanted, RequestIsWanted,
                            RequestIsCurrent, AckIsTrue

LEMMA UseReadKeeps ==
  ASSUME IInv, NEW e \in BOOLEAN, UseRead(e)
  PROVE  IInv'
  <1>1. /\ reply.kind = "READ" /\ Modbus_State_DTC' = "IDLE" /\ reply' = None
        /\ live' = reply.vals
        /\ IF e THEN Drop ELSE UNCHANGED <<queued, astray>>
        /\ UNCHANGED <<reg, req, freq_dtc_mode, temps, entered, staged, dtc_freq_switch_val,
                       edits, want>>
    BY DEF UseRead, BankFilled, detVars, menuVars
  <1>2. live' \in Banks
    <2>1. DOMAIN reply.vals = Regs /\ reply.vals \in UNION {[S -> Values] : S \in SUBSET Regs}
      BY <1>1 DEF IInv, TypeOK, Frames
    <2>2. reply.vals \in [Regs -> Values]
      BY <2>1
    <2>3. reply.vals["FREQ"] \in {0, 1}
      BY <2>1 DEF IInv, TypeOK, Regs
    <2> QED BY <1>1, <2>2, <2>3 DEF Banks
  <1>3. astray' \subseteq Regs /\ queued' \in Ranges \cup {"POLLING", "HV_SWITCH", "FREQ_SWITCH"}
    BY <1>1, CarriedRegs DEF Drop, IInv, TypeOK, Carried
  <1>4. TypeOK'
    BY <1>1, <1>2, <1>3, NoneType DEF IInv, TypeOK
  <1>5. MenuIsLoaded'
    BY <1>1 DEF IInv, MenuIsLoaded
  <1>6. CASE e
    BY <1>1, <1>4, <1>5, <1>6, DropKeeps DEF IInv
  <1>7. CASE ~e
    <2>1. UNCHANGED <<queued, astray>> /\ Carried' = Carried /\ Sent' = Sent
      BY <1>1, <1>7 DEF Carried, Sent
    <2> QED BY <1>1, <1>4, <1>5, <2>1, NoneType
            DEF IInv, HeldIsWanted, StagedIsWanted, RequestIsWanted, RequestIsCurrent, AckIsTrue
  <1> QED BY <1>6, <1>7

LEMMA UseAckKeeps ==
  ASSUME IInv, UseAck
  PROVE  IInv'
  <1>1. /\ Modbus_State_DTC' = "IDLE" /\ reply' = None /\ staged' = Blank
        /\ IF reply.cur THEN queued' = "POLLING" /\ astray' = astray ELSE Drop
        /\ UNCHANGED <<reg, req, live, freq_dtc_mode, temps, entered, dtc_freq_switch_val,
                       edits, want>>
    BY DEF UseAck, detVars, menuVars
  <1>2. queued' = "POLLING" /\ Carried' = {} /\ astray' \subseteq Regs
    BY <1>1, CarriedRegs DEF Drop, Carried, CarriedBy, IInv, TypeOK
  <1>3. staged' \in [Staged -> Values]
    BY <1>1 DEF Blank, Values, Own
  <1>4. TypeOK'
    BY <1>1, <1>2, <1>3, NoneType DEF IInv, TypeOK
  <1>5. MenuIsLoaded'
    BY <1>1 DEF IInv, MenuIsLoaded
  <1>6. CASE reply.cur
    <2>1. queued # "POLLING" => /\ req = None \/ req.cur
                               /\ \A r \in Carried \ astray : reg[r] = want[r]
      BY <1>6 DEF IInv, AckIsTrue
    <2>2. queued = "POLLING" => Carried = {}
      BY DEF Carried, CarriedBy
    <2>3. HeldIsWanted'
      BY <1>1, <1>2, <1>6, <2>1, <2>2 DEF IInv, HeldIsWanted
    <2>4. \A r \in DOMAIN req.vals \ astray : req.vals[r] = want[r]
      BY <2>1, <2>2, NoneType, SentType
         DEF IInv, RequestIsWanted, RequestIsCurrent, StagedIsWanted
    <2> QED BY <1>1, <1>2, <1>4, <1>5, <1>6, <2>3, <2>4
            DEF IInv, StagedIsWanted, RequestIsWanted, RequestIsCurrent, AckIsTrue
  <1>7. CASE ~reply.cur
    BY <1>1, <1>4, <1>5, <1>7, DropKeeps DEF IInv
  <1> QED BY <1>6, <1>7

LEMMA TimeOutKeeps ==
  ASSUME IInv, TimeOut
  PROVE  IInv'
  <1>1. /\ Modbus_State_DTC' = "IDLE" /\ Drop
        /\ UNCHANGED <<reg, req, reply, live, freq_dtc_mode, temps, entered, staged,
                       dtc_freq_switch_val, edits, want>>
    BY DEF TimeOut, detVars, menuVars
  <1>2. TypeOK'
    BY <1>1, CarriedRegs DEF Drop, Carried, IInv, TypeOK
  <1>3. MenuIsLoaded'
    BY <1>1 DEF IInv, MenuIsLoaded
  <1> QED BY <1>1, <1>2, <1>3, DropKeeps DEF IInv

LEMMA ServeKeeps ==
  ASSUME IInv, NEW heard \in BOOLEAN, Serve(heard)
  PROVE  IInv'
  <1>1. /\ req # None /\ req' = None
        /\ reg' = [r \in Regs |-> IF r \in DOMAIN req.vals THEN req.vals[r] ELSE reg[r]]
        /\ reply' = CASE ~heard -> reply
                      [] heard /\ req.kind = "READ" -> [req EXCEPT !.vals = reg]
                      [] OTHER -> [req EXCEPT !.vals = NoVals]
        /\ UNCHANGED <<live, freq_dtc_mode, temps, entered, staged, dtc_freq_switch_val,
                       queued, Modbus_State_DTC, edits, want, astray>>
        /\ Carried' = Carried /\ Sent' = Sent
    BY DEF Serve, menuVars, queueVars, Carried, Sent
  <1>2. /\ req \in Frames /\ req.vals \in UNION {[S -> Values] : S \in SUBSET Regs}
        /\ reg \in Banks /\ reg \in [Regs -> Values] /\ reg["FREQ"] \in {0, 1}
        /\ "FREQ" \in DOMAIN req.vals => req.vals["FREQ"] \in {0, 1}
    BY DEF IInv, TypeOK, Frames, Banks
  <1>3. reg' \in Banks
    <2>1. \A r \in DOMAIN req.vals : req.vals[r] \in Values
      BY <1>2
    <2>2. reg' \in [Regs -> Values]
      BY <1>1, <1>2, <2>1
    <2>3. reg'["FREQ"] \in {0, 1}
      BY <1>1, <1>2 DEF Regs
    <2> QED BY <2>2, <2>3 DEF Banks
  <1>4. /\ reply' \in Frames
        /\ reply'.cur => reply.cur \/ req.cur
        /\ "FREQ" \in DOMAIN reply'.vals => reply'.vals["FREQ"] \in {0, 1}
        /\ reply'.kind = "READ" => DOMAIN reply'.vals = Regs
    <2>1. CASE ~heard
      BY <1>1, <2>1 DEF IInv, TypeOK
    <2>2. CASE heard /\ req.kind = "READ"
      <3>1. reg \in UNION {[S -> Values] : S \in SUBSET Regs} /\ DOMAIN reg = Regs
        BY <1>2
      <3>2. reply' = [req EXCEPT !.vals = reg]
        BY <1>1, <2>2
      <3> QED BY <1>2, <3>1, <3>2 DEF Frames
    <2>3. CASE heard /\ req.kind # "READ"
      <3>1. reply' = [req EXCEPT !.vals = NoVals]
        BY <1>1, <2>3
      <3>2. NoVals \in UNION {[S -> Values] : S \in SUBSET Regs} /\ DOMAIN NoVals = {}
        BY NoneType DEF None, Frames
      <3> QED BY <1>2, <2>3, <3>1, <3>2 DEF Frames
    <2> QED BY <2>1, <2>2, <2>3
  <1>5. TypeOK'
    <2>1. \A f \in {req', reply'} : "FREQ" \in DOMAIN f.vals => f.vals["FREQ"] \in {0, 1}
      BY <1>1, <1>4, NoneType
    <2>2. req' \in Frames
      BY <1>1, NoneType
    <2>3. UNCHANGED <<live, freq_dtc_mode, temps, entered, staged, dtc_freq_switch_val,
                      queued, Modbus_State_DTC, edits, want, astray>>
      BY <1>1
    <2>4. /\ reply' \in Frames
          /\ reply'.kind = "READ" => DOMAIN reply'.vals = Regs
      BY <1>4
    <2> QED BY <1>3, <2>1, <2>2, <2>3, <2>4 DEF IInv, TypeOK
  <1>6. HeldIsWanted'
    BY <1>1 DEF IInv, HeldIsWanted, RequestIsWanted
  <1>7. AckIsTrue'
    <2> SUFFICES ASSUME reply'.cur, queued # "POLLING"
                 PROVE  \A r \in Carried \ astray : reg'[r] = want[r]
      BY <1>1 DEF AckIsTrue
    <2>1. req.cur
      BY <1>1, <1>4 DEF IInv, AckIsTrue
    <2>2. req.vals = Sent /\ Sent \in [Carried -> Values]
      BY <2>1, SentType DEF IInv, RequestIsCurrent
    <2> QED BY <1>1, <2>2, CarriedRegs DEF IInv, StagedIsWanted, Carried
  <1> QED BY <1>1, <1>5, <1>6, <1>7, NoneType
          DEF IInv, StagedIsWanted, RequestIsWanted, RequestIsCurrent, MenuIsLoaded

-----------------------------------------------------------------------------
LEMMA InvariantInit == Init => IInv
  <1> SUFFICES ASSUME Init PROVE IInv
    OBVIOUS
  <1>1. 0 \in Values /\ 1 \in Values /\ Own \in Values
    BY DEF Values, Own
  <1>2. reg \in Banks /\ want = reg
    BY <1>1 DEF Init, Banks, Regs
  <1>3. live \in Banks /\ temps = live /\ temps.FREQ = 0 /\ temps.HV = 0
    BY <1>1 DEF Init, Banks, Regs, Staged
  <1>4. staged \in [Staged -> Values]
    BY <1>1 DEF Init, Blank
  <1>5. Carried = {} /\ queued = "POLLING" /\ req = None /\ reply = None
    BY DEF Init, Carried, CarriedBy
  <1>6. TypeOK
    BY <1>2, <1>3, <1>4, <1>5, NoneType DEF Init, TypeOK
  <1> QED BY <1>2, <1>3, <1>5, <1>6, NoneType
          DEF Init, IInv, HeldIsWanted, StagedIsWanted, RequestIsWanted, RequestIsCurrent,
              AckIsTrue, MenuIsLoaded

LEMMA InvariantStep == IInv /\ [Next]_vars => IInv'
  <1> SUFFICES ASSUME IInv, [Next]_vars PROVE IInv'
    OBVIOUS
  <1>1. CASE Writers
    <2>1. edits \in 0..(MaxEdits - 1) /\ edits' = edits + 1
      BY <1>1 DEF Writers, IInv, TypeOK
    <2> QED BY <1>1, <2>1, PcWriteKeeps, MenuKeeps, SaveMenuKeeps, RelayKeeps DEF Writers
  <1>2. CASE Master
    BY <1>2, SendKeeps, UseAckKeeps, TimeOutKeeps, UseReadKeeps DEF Master
  <1>3. CASE \E h \in BOOLEAN : Serve(h)
    BY <1>3, ServeKeeps
  <1>4. CASE UNCHANGED vars
    BY <1>4 DEF vars, detVars, menuVars, queueVars, IInv, TypeOK, HeldIsWanted, StagedIsWanted,
       RequestIsWanted, RequestIsCurrent, AckIsTrue, MenuIsLoaded, Carried, Sent
  <1> QED BY <1>1, <1>2, <1>3, <1>4 DEF Next

(* The invariant holds in every state of every behaviour.                  *)
LEMMA InvariantHolds == Spec => []IInv
  BY InvariantInit, InvariantStep, PTL DEF Spec

(* Every variable keeps its type, whatever is written in whatever order.   *)
THEOREM TypesHold == Spec => []TypeOK
  <1>1. IInv => TypeOK
    BY DEF IInv
  <1> QED BY <1>1, InvariantHolds, PTL

(* Every register of the detector holds the value asked for last once      *)
(* nothing is queued, unless it went astray in one of the ways Follow,     *)
(* Drop and RelayChange name (calib_factors_hv_write, is_reconfigure_hv_*, *)
(* modbus_task_dtc).                                                       *)
THEOREM LastValueIsApplied == Spec => []ConfigurationIsApplied
  <1>1. IInv => ConfigurationIsApplied
    BY DEF IInv, HeldIsWanted, ConfigurationIsApplied, Carried, CarriedBy
  <1> QED BY <1>1, InvariantHolds, PTL

-----------------------------------------------------------------------------
(* Once the writers are quiet, the banks come to show the detector.  What  *)
(* is queued is sent or given up, then the master only reads, then the     *)
(* detector changes no more, then no reply is older than that.             *)

Reading     == [kind |-> "READ", vals |-> NoVals, cur |-> FALSE]
OnlyReads   == queued = "POLLING" /\ req \in {None, Reading}
ReplyIsTrue == reply.kind = "READ" => reply.vals = reg
Fresh       == OnlyReads /\ ReplyIsTrue
Waits       == Modbus_State_DTC = "WAIT"
Polls       == queued = "POLLING"
NoRead      == req.kind # "READ" /\ reply.kind # "READ"

LEMMA QuietCases ==
  [Next]_vars /\ [~Writers]_vars =>
    \/ Send \/ UseAck \/ TimeOut \/ UseRead(TRUE) \/ UseRead(FALSE)
    \/ Serve(TRUE) \/ Serve(FALSE) \/ UNCHANGED vars
  BY DEF Next, Master

(* The master sends, and an answer or the time-out ends the wait.          *)
LEMMA WaitStep ==
  [Next]_vars /\ [~Writers]_vars =>
    /\ Waits => Waits' \/ reply' = None \/ Polls'
    /\ ~Waits /\ ~<<Send>>_vars => ~Waits'
    /\ Polls => Polls'
  <1> SUFFICES ASSUME [Next]_vars, [~Writers]_vars
               PROVE  /\ Waits => Waits' \/ reply' = None \/ Polls'
                      /\ ~Waits /\ ~<<Send>>_vars => ~Waits'
                      /\ Polls => Polls'
    OBVIOUS
  <1> USE DEF Waits, Polls
  <1>1. CASE Send
    BY <1>1 DEF Send, queueVars, vars
  <1>2. CASE UseAck
    BY <1>2 DEF UseAck, Drop
  <1>3. CASE TimeOut
    BY <1>3 DEF TimeOut, Drop
  <1>4. CASE UseRead(TRUE) \/ UseRead(FALSE)
    BY <1>4 DEF UseRead, Drop
  <1>5. CASE Serve(TRUE) \/ Serve(FALSE)
    BY <1>5 DEF Serve, queueVars
  <1>6. CASE UNCHANGED vars
    BY <1>6 DEF vars, queueVars
  <1> QED BY <1>1, <1>2, <1>3, <1>4, <1>5, <1>6, QuietCases

(* A write that stays queued drives the reads off the line.                *)
LEMMA WriteStep ==
  TypeOK /\ [Next]_vars /\ [~Writers]_vars /\ ~Polls =>
    /\ <<Send>>_vars => req'.kind # "READ"
    /\ req.kind # "READ" => req'.kind # "READ"
    /\ NoRead => NoRead'
    /\ req.kind # "READ" /\ reply' = None => NoRead'
    /\ Waits /\ NoRead => Waits' \/ Polls'
  <1> SUFFICES ASSUME TypeOK, [Next]_vars, [~Writers]_vars, ~Polls
               PROVE  /\ <<Send>>_vars => req'.kind # "READ"
                      /\ req.kind # "READ" => req'.kind # "READ"
                      /\ NoRead => NoRead'
                      /\ req.kind # "READ" /\ reply' = None => NoRead'
                      /\ Waits /\ NoRead => Waits' \/ Polls'
    OBVIOUS
  <1>1. None.kind # "READ" /\ Request.kind # "READ"
    BY DEF None, Request, Polls
  <1> USE <1>1 DEF Waits, Polls, NoRead
  <1>2. CASE Send
    BY <1>2 DEF Send
  <1>3. CASE ~Send
    <2>1. CASE UseAck
      BY <1>3, <2>1 DEF UseAck, Drop, detVars
    <2>2. CASE TimeOut
      BY <1>3, <2>2 DEF TimeOut, Drop, detVars
    <2>3. CASE UseRead(TRUE) \/ UseRead(FALSE)
      BY <1>3, <2>3 DEF UseRead, Drop, detVars
    <2>4. CASE Serve(TRUE) \/ Serve(FALSE)
      <3>1. req.kind # "READ" => reply'.kind \in {req.kind, reply.kind}
        BY <2>4 DEF Serve, TypeOK, Frames
      <3> QED BY <1>3, <2>4, <3>1 DEF Serve
    <2>5. CASE UNCHANGED vars
      BY <1>3, <2>5 DEF vars, detVars
    <2> QED BY <1>3, <2>1, <2>2, <2>3, <2>4, <2>5, QuietCases
  <1> QED BY <1>2, <1>3

(* With reads only on the line, the detector stands still.                 *)
LEMMA ReadStep ==
  TypeOK /\ OnlyReads /\ [Next]_vars /\ [~Writers]_vars =>
    /\ OnlyReads' /\ reg' = reg
    /\ ReplyIsTrue => ReplyIsTrue'
    /\ ReplyIsTrue /\ live = reg => live' = reg'
    /\ ReplyIsTrue /\ reply.kind = "READ" => reply'.kind = "READ" \/ live' = reg'
    /\ <<Serve(TRUE)>>_vars => reply'.kind = "READ" /\ ReplyIsTrue'
    /\ <<UseRead(FALSE)>>_vars => ReplyIsTrue'
    /\ <<UseRead(FALSE)>>_vars /\ ReplyIsTrue => live' = reg'
    /\ <<Send>>_vars => req' # None
  <1> SUFFICES ASSUME TypeOK, OnlyReads, [Next]_vars, [~Writers]_vars
               PROVE  /\ OnlyReads' /\ reg' = reg
                      /\ ReplyIsTrue => ReplyIsTrue'
                      /\ ReplyIsTrue /\ live = reg => live' = reg'
                      /\ ReplyIsTrue /\ reply.kind = "READ" => reply'.kind = "READ" \/ live' = reg'
                      /\ <<Serve(TRUE)>>_vars => reply'.kind = "READ" /\ ReplyIsTrue'
                      /\ <<UseRead(FALSE)>>_vars => ReplyIsTrue'
                      /\ <<UseRead(FALSE)>>_vars /\ ReplyIsTrue => live' = reg'
                      /\ <<Send>>_vars => req' # None
    OBVIOUS
  <1>1. /\ None.kind = "NONE" /\ Reading.kind = "READ" /\ Reading # None
        /\ DOMAIN None.vals = {} /\ DOMAIN Reading.vals = {}
    BY DEF None, Reading, NoVals
  <1>2. reg \in [Regs -> Values]
    BY DEF TypeOK, Banks
  <1>3. Request = Reading
    BY DEF OnlyReads, Request, Reading
  <1> USE <1>1 DEF OnlyReads, ReplyIsTrue
  <1>4. CASE Send
    BY <1>3, <1>4 DEF Send, queueVars, UseRead, Serve
  <1>5. CASE UseAck
    BY <1>5 DEF UseAck, Drop, detVars, Send, Serve, UseRead
  <1>6. CASE TimeOut
    BY <1>6 DEF TimeOut, Drop, detVars, Send, Serve, UseRead
  <1>7. CASE UseRead(TRUE) \/ UseRead(FALSE)
    BY <1>7 DEF UseRead, BankFilled, Drop, detVars, Send, Serve
  <1>8. CASE Serve(TRUE) \/ Serve(FALSE)
    <2>1. reg' = reg
      BY <1>2, <1>8 DEF Serve
    <2>2. req = Reading
      BY <1>8 DEF Serve
    <2>3. reply' = reply \/ (reply'.kind = "READ" /\ reply'.vals = reg)
      BY <1>8, <2>2 DEF Serve, Reading
    <2>4. Serve(TRUE) => reply'.kind = "READ" /\ reply'.vals = reg
      BY <2>2 DEF Serve, Reading
    <2> QED BY <1>8, <2>1, <2>2, <2>3, <2>4 DEF Serve, queueVars, Send, UseRead
  <1>9. CASE UNCHANGED vars
    BY <1>9 DEF vars, detVars, queueVars
  <1> QED BY <1>4, <1>5, <1>6, <1>7, <1>8, <1>9, QuietCases

(* The master polls again once the writers are quiet: what is queued is    *)
(* acknowledged or times out.                                              *)
LEMMA EventuallyPolls ==
  FairSpec /\ []WhenEnabled /\ <>[][~Writers]_vars => <>[]Polls
  <1> DEFINE Writes == req.kind # "READ"
             Empty == reply = None
  <1>1. FairSpec => []TypeOK
    BY TypesHold, PTL DEF FairSpec
  <1>2. [Next]_vars /\ [~Writers]_vars =>
          /\ Waits => Waits' \/ Empty' \/ Polls'
          /\ ~Waits /\ ~<<Send>>_vars => ~Waits'
          /\ Polls => Polls'
    BY WaitStep
  <1>3. TypeOK /\ [Next]_vars /\ [~Writers]_vars /\ ~Polls =>
          /\ <<Send>>_vars => Writes'
          /\ Writes => Writes'
          /\ NoRead => NoRead'
          /\ Writes /\ Empty' => NoRead'
          /\ Waits /\ NoRead => Waits' \/ Polls'
    BY WriteStep
  <1>4. <<TimeOut>>_vars => Polls'
    BY DEF TimeOut, Drop, Polls
  <1>5. <<Send>>_vars => Waits'
    BY DEF Send, Waits
  <1>6. TypeOK => (Modbus_State_DTC = "IDLE" <=> ~Waits) /\ (Modbus_State_DTC = "WAIT" <=> Waits)
    BY DEF TypeOK, Waits
  <1> HIDE DEF Writes, Empty
  <1> QED
    BY <1>1, <1>2, <1>3, <1>4, <1>5, <1>6, PTL DEF FairSpec, Spec, WhenEnabled

(* Once the writers are quiet, the banks the PCs read come to show what    *)
(* the detector holds, and go on showing it.                               *)
THEOREM BanksCatchUp ==
  FairSpec /\ []WhenEnabled /\ <>[][~Writers]_vars => BanksShowDetector
  <1> DEFINE IsRead == reply.kind = "READ"
             Shows == live = reg
             Asked == req # None
  <1>1. FairSpec => []TypeOK
    BY TypesHold, PTL DEF FairSpec
  <1>2. [Next]_vars /\ [~Writers]_vars => (~Waits /\ ~<<Send>>_vars => ~Waits')
    BY WaitStep
  <1>3. Polls /\ <<Send>>_vars => OnlyReads' \/ ~Polls'
    BY DEF Polls, Send, Request, Reading, OnlyReads
  <1>4. TypeOK /\ OnlyReads /\ [Next]_vars /\ [~Writers]_vars =>
          /\ OnlyReads'
          /\ ReplyIsTrue => ReplyIsTrue'
          /\ ReplyIsTrue /\ Shows => Shows'
          /\ ReplyIsTrue /\ IsRead => IsRead' \/ Shows'
          /\ <<Serve(TRUE)>>_vars => IsRead' /\ ReplyIsTrue'
          /\ <<UseRead(FALSE)>>_vars => ReplyIsTrue'
          /\ <<UseRead(FALSE)>>_vars /\ ReplyIsTrue => Shows'
          /\ <<Send>>_vars => Asked'
    BY ReadStep
  <1>5. <<Send>>_vars => Waits'
    BY DEF Send, Waits
  <1>6. <<TimeOut>>_vars => ~Waits'
    BY DEF TimeOut, Waits
  <1>7. ~IsRead => ReplyIsTrue
    BY DEF ReplyIsTrue
  <1>8. TypeOK => (Modbus_State_DTC = "IDLE" <=> ~Waits) /\ (Modbus_State_DTC = "WAIT" <=> Waits)
    BY DEF TypeOK, Waits
  <1>9. WhenEnabled =>
          /\ Modbus_State_DTC = "IDLE" => ENABLED <<Send>>_vars
          /\ Modbus_State_DTC = "WAIT" => ENABLED <<TimeOut>>_vars
          /\ Asked => ENABLED <<Serve(TRUE)>>_vars
          /\ Modbus_State_DTC = "WAIT" /\ IsRead => ENABLED <<UseRead(FALSE)>>_vars
    BY PTL DEF WhenEnabled
  <1> HIDE DEF IsRead, Shows, Asked
  <1>10. FairSpec /\ []WhenEnabled /\ <>[][~Writers]_vars => <>[]Shows
    BY <1>1, <1>2, <1>3, <1>4, <1>5, <1>6, <1>7, <1>8, <1>9, EventuallyPolls, PTL
       DEF FairSpec, Spec
  <1> QED
    BY <1>10, PTL DEF BanksShowDetector, Shows
=============================================================================
