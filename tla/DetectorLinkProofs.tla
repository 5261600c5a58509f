------------------------- MODULE DetectorLinkProofs -------------------------
(***************************************************************************)
(* Theorems about DetectorLink, for every set of operator edits, relay     *)
(* readings and faults and every counter width. Liveness is proved from    *)
(* FairSpec and WhenEnabled.                                               *)
(***************************************************************************)
EXTENDS DetectorLink, TLAPS

USE EditsAssumption, RelaysAssumption, CounterAssumption, SilenceAssumption
    DEF EditsAssumption, RelaysAssumption, CounterAssumption, SilenceAssumption

LEMMA NoneIsFrame == None \in Frames
  BY DEF None, Frames, Kinds, On, Off

LEMMA BadIsFrame == [None EXCEPT !.kind = "BAD"] \in Frames
  BY DEF None, Frames, Kinds, On, Off

LEMMA HvValueType == \A r : HvValue(r) \in {On, Off}
  BY DEF HvValue

LEMMA AgedType == \A f \in Frames : Aged(f) \in Frames /\ ~Aged(f).cur
                                    /\ Aged(f).kind = f.kind /\ Aged(f).val = f.val
  BY DEF Aged, Frames

LEMMA AgedNone == Aged(None) = None
  BY DEF Aged, None

LEMMA RequestType == WriteTypes => Request \in Frames
  <1> SUFFICES ASSUME WriteTypes PROVE Request \in Frames
    OBVIOUS
  <1>1. CASE HvPending
    BY <1>1 DEF Request, WriteTypes, Frames, Kinds
  <1>2. CASE ~HvPending
    BY <1>2, NoneIsFrame DEF Request, WriteTypes, Frames, Kinds, HvPending, On, Off
  <1> QED BY <1>1, <1>2

LEMMA CountType ==
  \A n \in 0..(CounterMod - 1) : (n + 1) % CounterMod \in 0..(CounterMod - 1)
  OBVIOUS

LEMMA WrapLowers ==
  \A n \in 0..(CounterMod - 1) : (n + 1) % CounterMod <= n + 1
  <1> TAKE n \in 0..(CounterMod - 1)
  <1>1. CASE n + 1 = CounterMod
    BY <1>1
  <1>2. CASE n + 1 < CounterMod
    BY <1>2
  <1> QED BY <1>1, <1>2

-----------------------------------------------------------------------------
(* Type correctness, one lemma per part of TypeOK: each part is preserved  *)
(* by the superloop, the interrupt handlers and the detector.              *)

LEMMA RelayTypesStep == RelayTypes /\ [Next]_vars => RelayTypes'
  <1>1. RelayTypes /\ Task => RelayTypes'
    BY DEF RelayTypes, Task, TaskEntry, PickHvValue, LatchRelay, Send, NoPollDue,
           CountPoll, AwaitReply, NotWaiting, Supervise, QueueMultiple,
           QueueSingle, NothingQueued, isrVars
  <1>2. RelayTypes /\ Interrupt => RelayTypes'
    BY DEF RelayTypes, Interrupt, RtcTick, TimeoutPasses, UartError, TxComplete,
           RelaySampled, isrVars
  <1>3. RelayTypes /\ Detector => RelayTypes'
    BY DEF RelayTypes, Detector, PowerLoss, Serve, isrVars
  <1>4. RelayTypes /\ UNCHANGED vars => RelayTypes'
    BY DEF RelayTypes, vars, isrVars
  <1> QED BY <1>1, <1>2, <1>3, <1>4 DEF Next

LEMMA LineTypesStep == LineTypes /\ [Next]_vars => LineTypes'
  <1>1. LineTypes /\ Task => LineTypes'
    BY DEF LineTypes, Task, TaskEntry, PickHvValue, LatchRelay, Send, NoPollDue,
           CountPoll, PollCounted, AwaitReply, NotWaiting, Supervise,
           QueueMultiple, QueueSingle, NothingQueued, isrVars, timeVars
  <1>2. LineTypes /\ Interrupt => LineTypes'
    BY DEF LineTypes, Interrupt, RtcTick, TimeoutPasses, UartError, TxComplete,
           RelaySampled, isrVars, timeVars
  <1>3. LineTypes /\ Detector => LineTypes'
    BY DEF LineTypes, Detector, PowerLoss, Serve, isrVars, timeVars
  <1>4. LineTypes /\ UNCHANGED vars => LineTypes'
    BY DEF LineTypes, vars, isrVars, timeVars
  <1> QED BY <1>1, <1>2, <1>3, <1>4 DEF Next

LEMMA FrameTypesStep == FrameTypes /\ WriteTypes /\ [Next]_vars => FrameTypes'
  <1>1. FrameTypes /\ WriteTypes /\ Task => FrameTypes'
    BY NoneIsFrame, AgedType, RequestType
       DEF FrameTypes, Task, TaskEntry, PickHvValue, LatchRelay, Send, NoPollDue,
           CountPoll, AwaitReply, NotWaiting, Supervise, QueueMultiple,
           QueueSingle, NothingQueued, isrVars, detVars
  <1>2. FrameTypes /\ Interrupt => FrameTypes'
    BY NoneIsFrame DEF FrameTypes, Interrupt, RtcTick, TimeoutPasses, UartError,
           TxComplete, RelaySampled, isrVars, detVars
  <1>3. FrameTypes /\ Detector => FrameTypes'
    BY NoneIsFrame, BadIsFrame DEF FrameTypes, Detector, PowerLoss, Serve, isrVars
  <1>4. FrameTypes /\ UNCHANGED vars => FrameTypes'
    BY DEF FrameTypes, vars, isrVars, detVars
  <1> QED BY <1>1, <1>2, <1>3, <1>4 DEF Next

LEMMA WriteTypesStep == WriteTypes /\ FrameTypes /\ [Next]_vars => WriteTypes'
  <1>1. WriteTypes /\ FrameTypes /\ Task => WriteTypes'
    BY HvValueType
       DEF WriteTypes, FrameTypes, Task, TaskEntry, PickHvValue, LatchRelay,
           QueueHv, Send, NoPollDue, CountPoll, AwaitReply, ClearWrite, ClearKind,
           Expire, NotWaiting, Supervise, QueueMultiple, QueueSingle,
           NothingQueued, writeVars, detVars
  <1>2. WriteTypes /\ Interrupt => WriteTypes'
    BY DEF WriteTypes, Interrupt, RtcTick, TimeoutPasses, UartError, TxComplete,
           RelaySampled, writeVars, detVars
  <1>3. WriteTypes /\ FrameTypes /\ Detector => WriteTypes'
    BY DEF WriteTypes, FrameTypes, Frames, Detector, PowerLoss, Serve, writeVars
  <1>4. WriteTypes /\ UNCHANGED vars => WriteTypes'
    BY DEF WriteTypes, vars, writeVars, detVars
  <1> QED BY <1>1, <1>2, <1>3, <1>4 DEF Next

LEMMA FailTypesStep == FailTypes /\ [Next]_vars => FailTypes'
  <1>1. FailTypes /\ Task => FailTypes'
    BY DEF FailTypes, Task, TaskEntry, PickHvValue, LatchRelay, Send, NoPollDue,
           CountPoll, AwaitReply, LinkAlive, NotWaiting, Supervise, LinkDown,
           QueueMultiple, QueueSingle, NothingQueued, failVars
  <1>2. FailTypes /\ Interrupt => FailTypes'
    BY DEF FailTypes, Interrupt, RtcTick, TimeoutPasses, UartError, TxComplete,
           RelaySampled, failVars
  <1>3. FailTypes /\ Detector => FailTypes'
    BY DEF FailTypes, Detector, PowerLoss, Serve, failVars
  <1>4. FailTypes /\ UNCHANGED vars => FailTypes'
    BY DEF FailTypes, vars, failVars
  <1> QED BY <1>1, <1>2, <1>3, <1>4 DEF Next

LEMMA CountTypesStep == CountTypes /\ [Next]_vars => CountTypes'
  <1>1. CountTypes /\ Task => CountTypes'
    BY CountType
       DEF CountTypes, Task, TaskEntry, PickHvValue, LatchRelay, Send, NoPollDue,
           CountPoll, PollCounted, AwaitReply, LinkAlive, NotWaiting, Supervise,
           QueueMultiple, QueueSingle, NothingQueued, timeVars, failVars
  <1>2. CountTypes /\ Interrupt => CountTypes'
    BY DEF CountTypes, Interrupt, RtcTick, TimeoutPasses, UartError, TxComplete,
           RelaySampled, timeVars, failVars
  <1>3. CountTypes /\ Detector => CountTypes'
    BY DEF CountTypes, Detector, PowerLoss, Serve, timeVars, failVars
  <1>4. CountTypes /\ UNCHANGED vars => CountTypes'
    BY DEF CountTypes, vars, timeVars, failVars
  <1> QED BY <1>1, <1>2, <1>3, <1>4 DEF Next

CauseType == hvLost \in Causes \cup {"nothing"}

LEMMA CauseTypeStep == CauseType /\ [Next]_vars => CauseType'
  <1>1. CauseType /\ Task => CauseType'
    BY DEF CauseType, Causes, Lost, LostIfPending, Task, TaskEntry,
           PickHvValue, LatchRelay, Send, NoPollDue, CountPoll, AwaitReply,
           ClearWrite, Expire, NotWaiting, Supervise, QueueMultiple, QueueSingle,
           NothingQueued
  <1>2. CauseType /\ Interrupt => CauseType'
    BY DEF CauseType, Interrupt, RtcTick, TimeoutPasses, UartError,
           TxComplete, RelaySampled
  <1>3. CauseType /\ Detector => CauseType'
    BY DEF CauseType, Causes, Lost, Detector, PowerLoss, Serve
  <1>4. CauseType /\ UNCHANGED vars => CauseType'
    BY DEF CauseType, vars
  <1> QED BY <1>1, <1>2, <1>3, <1>4 DEF Next

LEMMA TypeStep == TypeOK /\ [Next]_vars => TypeOK'
  BY RelayTypesStep, LineTypesStep, FrameTypesStep, WriteTypesStep,
     FailTypesStep, CountTypesStep, CauseTypeStep DEF TypeOK, CauseType

LEMMA TypeInit == Init => TypeOK
  <1> SUFFICES ASSUME Init PROVE TypeOK
    OBVIOUS
  <1>1. RelayTypes /\ LineTypes /\ FrameTypes
    BY NoneIsFrame DEF Init, RelayTypes, LineTypes, FrameTypes
  <1>2. WriteTypes /\ FailTypes
    BY DEF Init, WriteTypes, FailTypes
  <1>3. CountTypes /\ hvLost \in Causes \cup {"nothing"}
    BY DEF Init, CountTypes
  <1> QED BY <1>1, <1>2, <1>3 DEF TypeOK

(* Every variable keeps its type, for every width of the time-out counter. *)
THEOREM TypeCorrect == Spec => []TypeOK
  BY TypeInit, TypeStep, PTL DEF Spec

-----------------------------------------------------------------------------
(* A queued write names what it writes, so no request is ever built from   *)
(* registers an acknowledgement has already zeroed.  The step of each task *)
(* is checked; no interrupt handler touches the write flags.               *)
THEOREM PendingWriteCorrect == Spec => []PendingWriteIsReal
  <1> USE DEF PendingWriteIsReal
  <1>1. Init => PendingWriteIsReal
    BY DEF Init
  <1>2. PendingWriteIsReal /\ [Next]_vars => PendingWriteIsReal'
    <2> SUFFICES ASSUME PendingWriteIsReal, [Next]_vars PROVE PendingWriteIsReal'
      OBVIOUS
    <2>1. CASE LatchRelay
      BY <2>1 DEF LatchRelay, QueueHv
    <2>2. CASE AwaitReply
      BY <2>2 DEF AwaitReply, ClearWrite, Expire
    <2>3. ASSUME NEW k \in MultipleEdits, QueueMultiple(k) PROVE PendingWriteIsReal'
      BY <2>3 DEF QueueMultiple
    <2>4. ASSUME NEW k \in SingleEdits, QueueSingle(k) PROVE PendingWriteIsReal'
      BY <2>4 DEF QueueSingle
    <2>5. CASE TaskEntry \/ PickHvValue \/ Send \/ NoPollDue \/ CountPoll
                 \/ NotWaiting \/ NothingQueued \/ Supervise
      BY <2>5 DEF TaskEntry, PickHvValue, Send, NoPollDue, CountPoll, NotWaiting,
                  NothingQueued, Supervise, writeVars
    <2>6. CASE Interrupt
      BY <2>6 DEF Interrupt, RtcTick, TimeoutPasses, UartError, TxComplete,
                  RelaySampled, writeVars
    <2>7. CASE Detector
      BY <2>7 DEF Detector, PowerLoss, Serve, writeVars
    <2>8. CASE UNCHANGED vars
      BY <2>8 DEF vars, writeVars
    <2> QED BY <2>1, <2>2, <2>3, <2>4, <2>5, <2>6, <2>7, <2>8 DEF Next, Task
  <1> QED BY <1>1, <1>2, PTL DEF Spec

-----------------------------------------------------------------------------
(* The high voltage follows the relay.  HvSwitchFollowsRelay says nothing  *)
(* while a command is queued or under way, so the invariant follows the    *)
(* command from the relay change (CommandMatchesRelay) through the frames  *)
(* that carry it (OneInFlight, CurrentCarriesCommand) to the               *)
(* acknowledgement that ends it (AckMeansApplied, IdleMeansApplied).       *)

OneInFlight == tx = None \/ detReq = None

CurrentCarriesCommand ==
  /\ \A f \in {tx, detReq, rx} : f.cur => f.kind = "HV"
  /\ pc # "latch" => \A f \in {tx, detReq} : f.cur => f.val = hv_switch_val

Applied == /\ detHv = hv_switch_val
           /\ \A f \in {tx, detReq} : f.kind = "HV" => f.val = hv_switch_val

Settled == hvLost = "nothing" /\ pc # "latch"
AckMeansApplied     == Settled /\ rx.cur => Applied
IdleMeansApplied    == Settled /\ ~HvPending => Applied
CommandMatchesRelay == Settled => hv_switch_val = HvValue(prev_relay_status)

HvInv == /\ OneInFlight /\ CurrentCarriesCommand /\ AckMeansApplied
         /\ IdleMeansApplied /\ CommandMatchesRelay

LEMMA HvInvInit == Init => HvInv
  BY DEF Init, HvInv, OneInFlight, CurrentCarriesCommand, AckMeansApplied,
         IdleMeansApplied, CommandMatchesRelay, Applied, Settled, HvPending,
         HvValue, UnknownRelay, None, On, Off

LEMMA HvInvStep == TypeOK /\ HvInv /\ [Next]_vars => HvInv'
  <1> SUFFICES ASSUME TypeOK, HvInv, [Next]_vars PROVE HvInv'
    OBVIOUS
  <1> USE DEF HvInv, OneInFlight, CurrentCarriesCommand, AckMeansApplied,
              IdleMeansApplied, CommandMatchesRelay, Applied, Settled, HvPending
  <1>1. CASE TaskEntry
    BY <1>1 DEF TaskEntry, isrVars, writeVars, detVars
  <1>2. CASE PickHvValue
    BY <1>2 DEF PickHvValue, isrVars, detVars
  <1>3. CASE LatchRelay
    <2>1. tx' \in Frames /\ detReq' \in Frames /\ rx' \in Frames
          /\ ~tx'.cur /\ ~detReq'.cur /\ ~rx'.cur
      BY <1>3, AgedType DEF LatchRelay, TypeOK, FrameTypes
    <2>2. OneInFlight'
      BY <1>3, AgedNone DEF LatchRelay
    <2>3. HvPending' /\ pc' = "poll"
          /\ (hvLost' = "nothing" => hv_switch_val' = HvValue(prev_relay_status'))
      BY <1>3 DEF LatchRelay, QueueHv
    <2> QED BY <2>1, <2>2, <2>3
  <1>4. CASE Send
    BY <1>4 DEF Send, Request, None, writeVars
  <1>5. CASE CountPoll
    BY <1>5 DEF CountPoll, writeVars, detVars
  <1>6. CASE AwaitReply
    BY <1>6 DEF AwaitReply, Used, ClearWrite, ClearKind, Expire, Lost, LostIfPending,
                None, detVars
  <1>7. CASE NoPollDue \/ NotWaiting \/ NothingQueued
    BY <1>7 DEF NoPollDue, NotWaiting, NothingQueued, isrVars, writeVars, detVars
  <1>8. ASSUME NEW k \in MultipleEdits, QueueMultiple(k) PROVE HvInv'
    BY <1>8 DEF QueueMultiple, Lost, LostIfPending, isrVars, detVars
  <1>9. ASSUME NEW k \in SingleEdits, QueueSingle(k) PROVE HvInv'
    BY <1>9 DEF QueueSingle, Lost, LostIfPending, isrVars, detVars
  <1>10. CASE Supervise
    BY <1>10 DEF Supervise, Lost, isrVars, writeVars, detVars
  <1>11. ASSUME NEW heard \in BOOLEAN, TxComplete(heard) PROVE HvInv'
    BY <1>11 DEF TxComplete, None, writeVars
  <1>12. CASE RtcTick \/ TimeoutPasses \/ UartError
    BY <1>12 DEF RtcTick, TimeoutPasses, UartError, isrVars, writeVars, detVars
  <1>13. ASSUME NEW r \in Relays, RelaySampled(r) PROVE HvInv'
    BY <1>13 DEF RelaySampled, writeVars, detVars
  <1>14. ASSUME NEW o \in {"good", "damaged", "unheard"}, Serve(o) PROVE HvInv'
    BY <1>14 DEF Serve, None, writeVars, TypeOK, FrameTypes, Frames
  <1>15. CASE PowerLoss
    BY <1>15 DEF PowerLoss, Lost, isrVars, writeVars
  <1>16. CASE UNCHANGED vars
    BY <1>16 DEF vars, isrVars, writeVars, detVars
  <1> QED
    BY <1>1, <1>2, <1>3, <1>4, <1>5, <1>6, <1>7, <1>8, <1>9, <1>10, <1>11, <1>12,
       <1>13, <1>14, <1>15, <1>16 DEF Next, Task, Interrupt, Detector

(* With no HV write queued and the relay as the master last saw it, the    *)
(* detector applies the value the relay asks for, unless one of Causes     *)
(* happened since the relay changed.                                       *)
THEOREM HvSwitchCorrect == Spec => []HvSwitchFollowsRelay
  <1>1. TypeOK /\ HvInv => HvSwitchFollowsRelay
    BY DEF HvInv, IdleMeansApplied, CommandMatchesRelay, Settled, Applied,
           HvSwitchFollowsRelay
  <1> QED BY <1>1, TypeInit, TypeStep, HvInvInit, HvInvStep, PTL DEF Spec

-----------------------------------------------------------------------------
(* The link implements the monitor.  Polls are counted at most one ahead   *)
(* of the seconds of silence: one may be due when a reply is used.  The    *)
(* wrap of the counter only lowers it, so this holds for every CounterMod. *)

Due == IF dtc_poll THEN 1 ELSE 0
CountInv == /\ pc = "clear" => dtc_poll
            /\ silence < SilenceCap => Dtc_Failed_Timeout + Due <= silence + 1

LEMMA CountInvInit == Init => CountInv
  BY DEF Init, CountInv, Due

LEMMA CountInvStep ==
  LineTypes /\ CountTypes /\ CountInv /\ [Next]_vars => CountInv'
  <1> SUFFICES ASSUME LineTypes, CountTypes, CountInv, [Next]_vars PROVE CountInv'
    OBVIOUS
  <1> USE DEF CountInv, Due, LineTypes, CountTypes
  <1>1. CASE Send
    BY <1>1 DEF Send, failVars
  <1>2. CASE CountPoll
    <2>1. (Dtc_Failed_Timeout + 1) % CounterMod <= Dtc_Failed_Timeout + 1
      BY WrapLowers
    <2> QED BY <1>2, <2>1 DEF CountPoll, PollCounted
  <1>3. CASE AwaitReply
    BY <1>3 DEF AwaitReply, LinkAlive
  <1>4. CASE RtcTick
    BY <1>4 DEF RtcTick, failVars
  <1>5. CASE Task /\ ~(Send \/ CountPoll \/ AwaitReply)
    BY <1>5 DEF Task, TaskEntry, PickHvValue, LatchRelay, NoPollDue, NotWaiting,
                QueueMultiple, QueueSingle, NothingQueued, Supervise, isrVars, failVars
  <1>6. CASE Interrupt /\ ~RtcTick
    BY <1>6 DEF Interrupt, TimeoutPasses, UartError, TxComplete, RelaySampled,
                isrVars, failVars
  <1>7. CASE Detector
    BY <1>7 DEF Detector, PowerLoss, Serve, isrVars, failVars
  <1>8. CASE UNCHANGED vars
    BY <1>8 DEF vars, isrVars, failVars
  <1> QED BY <1>1, <1>2, <1>3, <1>4, <1>5, <1>6, <1>7, <1>8 DEF Next

LEMMA MonitorStep ==
  CountTypes /\ FailTypes /\ CountInv /\ [Next]_vars
    => [Monitor!MonitorNext]_(Monitor!monitorVars)
  <1> SUFFICES ASSUME CountTypes, FailTypes, CountInv, [Next]_vars
               PROVE  [Monitor!MonitorNext]_(Monitor!monitorVars)
    OBVIOUS
  <1> USE DEF Monitor!MonitorNext, Monitor!monitorVars
  <1>1. CASE Supervise
    <2>1. CASE Dtc_Failed_Status
      BY <1>1, <2>1 DEF Supervise, LinkDown, FailTypes
    <2>2. CASE ~Dtc_Failed_Status /\ Dtc_Failed_Timeout >= 3
      <3>1. silence >= 2
        BY <2>2 DEF CountInv, Due, CountTypes
      <3>2. Dtc_Failed_Status' = TRUE /\ UNCHANGED silence
        BY <1>1, <2>2 DEF Supervise, LinkDown
      <3> QED BY <3>1, <3>2 DEF Monitor!Declare, Monitor!LongSilence
    <2>3. CASE ~Dtc_Failed_Status /\ ~(Dtc_Failed_Timeout >= 3)
      BY <1>1, <2>3 DEF Supervise, LinkDown, FailTypes
    <2> QED BY <2>1, <2>2, <2>3
  <1>2. CASE AwaitReply
    BY <1>2 DEF AwaitReply, LinkAlive, Monitor!Answered
  <1>3. CASE RtcTick
    BY <1>3 DEF RtcTick, failVars, Monitor!Second
  <1>4. CASE Task /\ ~(Supervise \/ AwaitReply)
    BY <1>4 DEF Task, TaskEntry, PickHvValue, LatchRelay, Send, NoPollDue, CountPoll,
                NotWaiting, QueueMultiple, QueueSingle, NothingQueued, failVars
  <1>5. CASE Interrupt /\ ~RtcTick
    BY <1>5 DEF Interrupt, TimeoutPasses, UartError, TxComplete, RelaySampled, failVars
  <1>6. CASE Detector
    BY <1>6 DEF Detector, PowerLoss, Serve, failVars
  <1>7. CASE UNCHANGED vars
    BY <1>7 DEF vars, failVars
  <1> QED BY <1>1, <1>2, <1>3, <1>4, <1>5, <1>6, <1>7 DEF Next

(* The failure is declared only after two silent seconds, stays declared   *)
(* until a valid reply, and is then cleared: every step of the link is a   *)
(* step of LinkMonitor or leaves what the monitor shows unchanged.         *)
THEOREM LinkImplementsMonitor == Spec => FailureNeedsSilence
  <1>1. Init => Monitor!MonitorInit
    BY DEF Init, Monitor!MonitorInit
  <1>2. TypeOK => LineTypes /\ CountTypes /\ FailTypes
    BY DEF TypeOK
  <1> QED BY <1>1, <1>2, TypeInit, TypeStep, CountInvInit, CountInvStep, MonitorStep,
             PTL DEF Spec, FailureNeedsSilence

-----------------------------------------------------------------------------
(* Liveness.  WhenEnabled (DetectorLink) is the hypothesis that stands for *)
(* ENABLED.  First, where each step of the superloop leads and which       *)
(* action it is.                                                           *)

Onward(p) ==
  CASE p = "entry"  -> {"pick", "poll"}
    [] p = "pick"   -> {"latch"}
    [] p = "latch"  -> {"poll"}
    [] p = "poll"   -> {"clear", "wait"}
    [] p = "clear"  -> {"wait"}
    [] p = "wait"   -> {"others"}
    [] p = "others" -> {"check"}
    [] p = "check"  -> {"entry"}

Queued == \/ \E k \in MultipleEdits : QueueMultiple(k)
          \/ \E k \in SingleEdits : QueueSingle(k)
          \/ NothingQueued

LEMMA WhichStep ==
  [Next]_vars =>
    /\ Task => pc' # pc
    /\ pc' # pc =>
         /\ pc' \in Onward(pc)
         /\ pc = "entry" => TaskEntry
         /\ pc = "pick" => PickHvValue
         /\ pc = "latch" => LatchRelay
         /\ pc = "poll" => Send \/ NoPollDue
         /\ pc = "clear" => CountPoll
         /\ pc = "wait" => AwaitReply \/ NotWaiting
         /\ pc = "others" => Queued
         /\ pc = "check" => Supervise
    /\ pc' = pc => Interrupt \/ Detector \/ UNCHANGED vars
  <1> SUFFICES ASSUME [Next]_vars
      PROVE  /\ Task => pc' # pc
             /\ pc' # pc =>
                  /\ pc' \in Onward(pc)
                  /\ pc = "entry" => TaskEntry
                  /\ pc = "pick" => PickHvValue
                  /\ pc = "latch" => LatchRelay
                  /\ pc = "poll" => Send \/ NoPollDue
                  /\ pc = "clear" => CountPoll
                  /\ pc = "wait" => AwaitReply \/ NotWaiting
                  /\ pc = "others" => Queued
                  /\ pc = "check" => Supervise
             /\ pc' = pc => Interrupt \/ Detector \/ UNCHANGED vars
    OBVIOUS
  <1>1. Interrupt \/ Detector \/ UNCHANGED vars => pc' = pc
    BY DEF Interrupt, RtcTick, TimeoutPasses, UartError, TxComplete, RelaySampled, Detector,
           PowerLoss, Serve, vars
  <1>2. Queued => pc' # pc /\ pc = "others" /\ pc' = "check"
    BY DEF Queued, QueueMultiple, QueueSingle, NothingQueued
  <1>3. Task => Queued \/ TaskEntry \/ PickHvValue \/ LatchRelay \/ Send \/ NoPollDue
                \/ CountPoll \/ AwaitReply \/ NotWaiting \/ Supervise
    BY DEF Task, Queued
  <1>4. /\ TaskEntry => pc = "entry" /\ pc' \in {"pick", "poll"}
        /\ PickHvValue => pc = "pick" /\ pc' = "latch"
        /\ LatchRelay => pc = "latch" /\ pc' = "poll"
        /\ Send => pc = "poll" /\ pc' = "clear"
        /\ NoPollDue => pc = "poll" /\ pc' = "wait"
        /\ CountPoll => pc = "clear" /\ pc' = "wait"
        /\ AwaitReply \/ NotWaiting => pc = "wait" /\ pc' = "others"
        /\ Supervise => pc = "check" /\ pc' = "entry"
    BY DEF TaskEntry, PickHvValue, LatchRelay, Send, NoPollDue, CountPoll, AwaitReply,
           NotWaiting, Supervise
  <1>5. Task => pc' # pc
    BY <1>2, <1>3, <1>4
  <1>6. CASE pc' = pc
    BY <1>5, <1>6 DEF Next
  <1>7. CASE pc' # pc
    BY <1>1, <1>2, <1>3, <1>4, <1>7 DEF Next, Onward
  <1> QED BY <1>5, <1>6, <1>7

(* The superloop comes round again and again.                              *)
LEMMA LoopTurns ==
  FairSpec /\ []WhenEnabled =>
    /\ []<>(pc = "entry")
    /\ []<>(pc = "poll")
    /\ []<>(pc = "wait")
    /\ []<>(pc = "check")
  <1> DEFINE Entry == pc = "entry"
             Pick == pc = "pick"
             Latch == pc = "latch"
             Poll == pc = "poll"
             Clear == pc = "clear"
             Wait == pc = "wait"
             Rest == pc = "others"
             Check == pc = "check"
             Fair == FairSpec /\ []WhenEnabled
  <1>1. FairSpec => []TypeOK
    BY TypeCorrect, PTL DEF FairSpec
  <1>2. TypeOK =>
          Entry \/ Pick \/ Latch \/ Poll \/ Clear \/ Wait \/ Rest \/ Check
    BY DEF TypeOK, WriteTypes
  <1>3. [Next]_vars =>
          /\ Entry => Entry' \/ Pick' \/ Poll'
          /\ Pick => Pick' \/ Latch'
          /\ Latch => Latch' \/ Poll'
          /\ Poll => Poll' \/ Clear' \/ Wait'
    BY WhichStep DEF Onward
  <1>4. [Next]_vars =>
          /\ Clear => Clear' \/ Wait'
          /\ Wait => Wait' \/ Rest'
          /\ Rest => Rest' \/ Check'
          /\ Check => Check' \/ Entry'
    BY WhichStep DEF Onward
  <1>5. [Next]_vars /\ <<Task>>_vars =>
          /\ ~(Entry /\ Entry') /\ ~(Pick /\ Pick') /\ ~(Latch /\ Latch') /\ ~(Poll /\ Poll')
          /\ ~(Clear /\ Clear') /\ ~(Wait /\ Wait') /\ ~(Rest /\ Rest') /\ ~(Check /\ Check')
    BY WhichStep
  <1>6. WhenEnabled => ENABLED <<Task>>_vars
    BY PTL DEF WhenEnabled
  <1> HIDE DEF Entry, Pick, Latch, Poll, Clear, Wait, Rest, Check
  <1>7. Fair => (Entry ~> Pick \/ Poll) /\ (Pick ~> Latch) /\ (Latch ~> Poll)
    BY <1>3, <1>5, <1>6, PTL DEF FairSpec, Spec
  <1>8. Fair => (Poll ~> Clear \/ Wait) /\ (Clear ~> Wait) /\ (Wait ~> Rest)
    BY <1>3, <1>4, <1>5, <1>6, PTL DEF FairSpec, Spec
  <1>9. Fair => (Rest ~> Check) /\ (Check ~> Entry)
    BY <1>4, <1>5, <1>6, PTL DEF FairSpec, Spec
  <1>10. Fair => []<>Entry /\ []<>Poll /\ []<>Wait /\ []<>Check
    BY <1>1, <1>2, <1>7, <1>8, <1>9, PTL
  <1> QED BY <1>10 DEF Entry, Poll, Wait, Check

(* A request that is on its way is one the detector answers.               *)
Answers == {"READ", "HV", "FREQ", "CONFIG"}
RequestsReal == \A f \in {tx, detReq} : f = None \/ f.kind \in Answers

LEMMA RequestIsReal == TypeOK /\ PendingWriteIsReal => Request # None /\ Request.kind \in Answers
  <1> SUFFICES ASSUME TypeOK, PendingWriteIsReal
               PROVE  Request # None /\ Request.kind \in Answers
    OBVIOUS
  <1>1. CASE HvPending
    BY <1>1 DEF Request, None, Answers
  <1>2. CASE ~HvPending
    BY <1>2 DEF Request, None, Answers, HvPending, PendingWriteIsReal, TypeOK, WriteTypes
  <1> QED BY <1>1, <1>2

LEMMA AgedReal == \A f : f \in Frames /\ (f = None \/ f.kind \in Answers) =>
                          /\ Aged(f) = None \/ Aged(f).kind \in Answers
                          /\ f # None => Aged(f) # None
  <1> TAKE f
  <1> SUFFICES ASSUME f \in Frames, f = None \/ f.kind \in Answers
               PROVE  /\ Aged(f) = None \/ Aged(f).kind \in Answers
                      /\ f # None => Aged(f) # None
    OBVIOUS
  <1>1. CASE f = None
    BY <1>1, AgedNone
  <1>2. CASE f # None
    <2>1. Aged(f).kind = f.kind /\ f.kind \in Answers
      BY <1>2, AgedType
    <2>2. Aged(f).kind # "NONE"
      BY <2>1 DEF Answers
    <2> QED BY <2>1, <2>2 DEF None
  <1> QED BY <1>1, <1>2

LinkInv == TypeOK /\ PendingWriteIsReal /\ RequestsReal

LEMMA LinkInvHolds == Spec => []LinkInv
  <1>1. Init => RequestsReal
    BY DEF Init, RequestsReal
  <1>2. TypeOK /\ PendingWriteIsReal /\ RequestsReal /\ [Next]_vars => RequestsReal'
    <2> SUFFICES ASSUME TypeOK, PendingWriteIsReal, RequestsReal, [Next]_vars
                 PROVE  RequestsReal'
      OBVIOUS
    <2> USE DEF RequestsReal
    <2>1. CASE pc' = pc
      <3>1. CASE Interrupt
        BY <3>1 DEF Interrupt, RtcTick, TimeoutPasses, UartError, TxComplete, RelaySampled,
                    isrVars, detVars
      <3>2. CASE Detector
        BY <3>2 DEF Detector, PowerLoss, Serve, isrVars
      <3>3. CASE UNCHANGED vars
        BY <3>3 DEF vars, isrVars, detVars
      <3> QED BY <2>1, <3>1, <3>2, <3>3, WhichStep
    <2>2. CASE Send
      BY <2>2, RequestIsReal DEF Send
    <2>3. CASE LatchRelay
      BY <2>3, AgedReal DEF LatchRelay, TypeOK, FrameTypes
    <2>4. CASE pc' # pc /\ ~Send /\ ~LatchRelay
      <3>1. \/ TaskEntry \/ PickHvValue \/ NoPollDue \/ CountPoll \/ AwaitReply \/ NotWaiting
            \/ Queued \/ Supervise
        BY <2>4, WhichStep DEF TypeOK, WriteTypes
      <3> QED BY <3>1
              DEF TaskEntry, PickHvValue, NoPollDue, CountPoll, AwaitReply, NotWaiting, Queued,
                  QueueMultiple, QueueSingle, NothingQueued, Supervise, isrVars, detVars
    <2> QED BY <2>1, <2>2, <2>3, <2>4
  <1>3. Spec => []TypeOK /\ []PendingWriteIsReal
    BY TypeCorrect, PendingWriteCorrect, PTL
  <1> QED BY <1>1, <1>2, <1>3, PTL DEF Spec, LinkInv

-----------------------------------------------------------------------------
(* The master waits for a reply and sends a request again and again: every *)
(* wait ends with a reply or the time-out, and every second brings a poll. *)
Waiting == Modbus_State_DTC = "WAIT"

LEMMA WaitStep ==
  LinkInv /\ [Next]_vars =>
    /\ Waiting /\ ~Waiting' => pc = "wait" /\ pc' # pc
    /\ ~Waiting /\ Waiting' => pc = "poll" /\ pc' # pc /\ tx' # None
    /\ Waiting /\ overdue => overdue' \/ ~Waiting'
    /\ Waiting /\ overdue /\ pc = "wait" /\ pc' # pc => ~Waiting'
    /\ Waiting /\ ~overdue /\ ~overdue' /\ Waiting' => age' \in {age, age + 1} /\ age' \in 0..2
    /\ RtcTick => dtc_poll' /\ (Waiting /\ age < 2 => age' = age + 1)
    /\ TimeoutPasses => overdue'
    /\ dtc_poll => dtc_poll' \/ (pc = "clear" /\ pc' # pc)
    /\ dtc_poll /\ pc = "poll" /\ pc' # pc => pc' = "clear" /\ Waiting'
  <1> SUFFICES ASSUME LinkInv, [Next]_vars
      PROVE  /\ Waiting /\ ~Waiting' => pc = "wait" /\ pc' # pc
             /\ ~Waiting /\ Waiting' => pc = "poll" /\ pc' # pc /\ tx' # None
             /\ Waiting /\ overdue => overdue' \/ ~Waiting'
             /\ Waiting /\ overdue /\ pc = "wait" /\ pc' # pc => ~Waiting'
             /\ Waiting /\ ~overdue /\ ~overdue' /\ Waiting'
                  => age' \in {age, age + 1} /\ age' \in 0..2
             /\ dtc_poll => dtc_poll' \/ (pc = "clear" /\ pc' # pc)
             /\ dtc_poll /\ pc = "poll" /\ pc' # pc => pc' = "clear" /\ Waiting'
    BY DEF RtcTick, TimeoutPasses, Waiting
  <1>1. TypeOK /\ age \in 0..2 /\ Modbus_State_DTC \in {"IDLE", "WAIT"}
    BY DEF LinkInv, TypeOK, CountTypes, WriteTypes
  <1> USE DEF Waiting
  <1>2. CASE pc' = pc
    <2>1. CASE Interrupt
      BY <1>1, <1>2, <2>1 DEF Interrupt, RtcTick, TimeoutPasses, UartError, TxComplete,
                              RelaySampled, isrVars, timeVars
    <2>2. CASE Detector \/ UNCHANGED vars
      BY <1>1, <1>2, <2>2 DEF Detector, PowerLoss, Serve, vars, isrVars, timeVars
    <2> QED BY <1>2, <2>1, <2>2, WhichStep
  <1>3. CASE pc = "poll" /\ pc' # pc
    BY <1>1, <1>3, WhichStep, RequestIsReal DEF LinkInv, Send, NoPollDue, isrVars, timeVars
  <1>4. CASE pc = "wait" /\ pc' # pc
    BY <1>1, <1>4, WhichStep DEF AwaitReply, Used, Expire, NotWaiting, isrVars, timeVars
  <1>5. CASE pc = "clear" /\ pc' # pc
    BY <1>1, <1>5, WhichStep DEF CountPoll, timeVars
  <1>6. CASE pc \notin {"poll", "wait", "clear"} /\ pc' # pc
    <2>1. TaskEntry \/ PickHvValue \/ LatchRelay \/ Queued \/ Supervise
      BY <1>1, <1>6, WhichStep DEF TypeOK, WriteTypes
    <2> QED BY <1>1, <1>6, <2>1
            DEF TaskEntry, PickHvValue, LatchRelay, Queued, QueueMultiple, QueueSingle,
                NothingQueued, Supervise, isrVars, timeVars
  <1> QED BY <1>2, <1>3, <1>4, <1>5, <1>6

LEMMA WaitsEnd == FairSpec /\ []WhenEnabled => []<>~Waiting
  <1> DEFINE Wait == pc = "wait"
             Young == age = 0
             Older == age = 1
             Old == age = 2
             Fair == FairSpec /\ []WhenEnabled
  <1>1. FairSpec => []LinkInv
    BY LinkInvHolds, PTL DEF FairSpec
  <1>2. LinkInv => Young \/ Older \/ Old
    BY DEF LinkInv, TypeOK, CountTypes
  <1>3. LinkInv /\ [Next]_vars =>
          /\ Waiting /\ overdue => overdue' \/ ~Waiting'
          /\ Waiting /\ overdue /\ Wait /\ ~Wait' => ~Waiting'
          /\ Waiting /\ ~overdue /\ ~overdue' /\ Waiting' =>
               /\ Young => Young' \/ Older'
               /\ Older => Older' \/ Old'
               /\ Old => Old'
          /\ <<RtcTick>>_vars /\ Waiting => ~(Young /\ Young') /\ ~(Older /\ Older')
          /\ <<TimeoutPasses>>_vars => overdue'
    BY WaitStep
  <1>4. WhenEnabled =>
          /\ Waiting /\ age < 2 => ENABLED <<RtcTick>>_vars
          /\ Old /\ ~overdue => ENABLED <<TimeoutPasses>>_vars
    BY PTL DEF WhenEnabled, Waiting
  <1>5. Young \/ Older => age < 2
    OBVIOUS
  <1>6. Fair => []<>Wait /\ []<>~Wait
    <2>1. ~(pc = "wait" /\ pc = "entry")
      OBVIOUS
    <2> QED BY <2>1, LoopTurns, PTL DEF Wait
  <1> HIDE DEF Wait, Young, Older, Old
  <1>7. Fair => ~<>[](Waiting /\ ~overdue)
    BY <1>1, <1>2, <1>3, <1>4, <1>5, PTL DEF FairSpec, Spec
  <1>8. Fair => ~<>[](Waiting /\ overdue)
    BY <1>1, <1>3, <1>6, PTL DEF FairSpec, Spec
  <1> QED BY <1>1, <1>3, <1>7, <1>8, PTL DEF FairSpec, Spec

LEMMA SendsGoOn == FairSpec /\ []WhenEnabled => []<>Waiting
  <1> DEFINE Poll == pc = "poll"
             Clear == pc = "clear"
             Fair == FairSpec /\ []WhenEnabled
  <1>1. FairSpec => []LinkInv
    BY LinkInvHolds, PTL DEF FairSpec
  <1>2. LinkInv /\ [Next]_vars =>
          /\ dtc_poll => dtc_poll' \/ (Clear /\ ~Clear')
          /\ dtc_poll /\ Poll /\ ~Poll' => Waiting'
          /\ <<RtcTick>>_vars => dtc_poll'
    BY WaitStep
  <1>3. LinkInv /\ [Next]_vars =>
          /\ ~Clear /\ Clear' => Poll /\ ~Poll' /\ (dtc_poll \/ Waiting')
    BY WhichStep DEF Onward, LinkInv, TypeOK, WriteTypes, Send, NoPollDue
  <1>4. WhenEnabled => (~dtc_poll => ENABLED <<RtcTick>>_vars)
    BY PTL DEF WhenEnabled
  <1>5. Fair => []<>Poll /\ []<>~Poll /\ []<>~Clear
    <2>1. ~(pc = "poll" /\ pc = "entry") /\ ~(pc = "clear" /\ pc = "entry")
      OBVIOUS
    <2> QED BY <2>1, LoopTurns, PTL DEF Poll, Clear
  <1> HIDE DEF Poll, Clear
  <1>6. Fair => (<>[]~Waiting => <>[]~Clear)
    BY <1>1, <1>2, <1>3, <1>5, PTL DEF FairSpec, Spec
  <1>7. Fair => (<>[]~Waiting /\ <>[]~Clear => <>[]dtc_poll)
    BY <1>1, <1>2, <1>4, PTL DEF FairSpec, Spec
  <1> QED BY <1>1, <1>2, <1>5, <1>6, <1>7, PTL DEF FairSpec, Spec

-----------------------------------------------------------------------------
(* The high voltage comes to follow the relay.  Once the relay rests, the  *)
(* master sees it as it is; a command that is still queued then is sent,   *)
(* answers to older requests run out, and its own answer ends it.          *)

Same == prev_relay_status = relay_status
Calm == hvLost = "nothing"
Latching == pc = "latch"
SentClean == tx.kind # "READ" /\ detReq.kind # "READ"
HeardClean == ~(frame_recv_dtc /\ rx.kind = "READ")

LEMMA RelayStep ==
  TypeOK /\ [Next]_vars /\ [FALSE]_relay_status /\ Calm' =>
    /\ Same => Same'
    /\ Latching /\ ~Latching' => Same'
    /\ pc = "entry" /\ pc' # "entry" => Same \/ pc' = "pick"
    /\ Same /\ pc' = "pick" => pc = "pick"
    /\ HvPending' => HvPending \/ Latching
  <1> SUFFICES ASSUME TypeOK, [Next]_vars, relay_status' = relay_status, Calm'
      PROVE  /\ Same => Same'
             /\ Latching /\ ~Latching' => Same'
             /\ pc = "entry" /\ pc' # "entry" => Same \/ pc' = "pick"
             /\ Same /\ pc' = "pick" => pc = "pick"
             /\ HvPending' => HvPending \/ Latching
    OBVIOUS
  <1> USE DEF Same, Calm, Latching, HvPending
  <1>1. CASE pc' = pc
    BY <1>1, WhichStep
       DEF Interrupt, RtcTick, TimeoutPasses, UartError, TxComplete, RelaySampled, Detector,
           PowerLoss, Serve, vars, writeVars
  <1>2. CASE pc' # pc /\ pc \in {"entry", "pick", "latch", "poll", "clear", "check"}
    BY <1>2, WhichStep DEF TaskEntry, RelayChanged, PickHvValue, LatchRelay, Send, NoPollDue,
                           CountPoll, Supervise, Lost, writeVars
  <1>3. CASE pc' # pc /\ pc = "wait"
    BY <1>3, WhichStep DEF AwaitReply, ClearWrite, ClearKind, Expire, NotWaiting, writeVars
  <1>4. CASE pc' # pc /\ pc = "others"
    BY <1>4, WhichStep DEF Queued, QueueMultiple, QueueSingle, NothingQueued, writeVars
  <1> QED BY <1>1, <1>2, <1>3, <1>4 DEF TypeOK, WriteTypes

LEMMA CommandStep ==
  TypeOK /\ [Next]_vars /\ [~Trouble]_vars /\ Calm /\ Calm' /\ HvPending /\ HvPending' =>
    /\ SentClean => SentClean'
    /\ SentClean /\ HeardClean => HeardClean'
    /\ Waiting /\ ~Waiting' => ~HeardClean /\ HeardClean'
    /\ ~Waiting /\ Waiting' => SentClean'
  <1> SUFFICES ASSUME TypeOK, [Next]_vars, [~Trouble]_vars, Calm, Calm', HvPending, HvPending'
      PROVE  /\ SentClean => SentClean'
             /\ SentClean /\ HeardClean => HeardClean'
             /\ Waiting /\ ~Waiting' => ~HeardClean /\ HeardClean'
             /\ ~Waiting /\ Waiting' => SentClean'
    OBVIOUS
  <1> USE DEF SentClean, HeardClean, Waiting, Calm, HvPending
  <1>1. None.kind = "NONE"
    BY DEF None
  <1>2. CASE pc' = pc
    <2>1. CASE Interrupt \/ UNCHANGED vars
      BY <1>1, <2>1 DEF Interrupt, RtcTick, TimeoutPasses, UartError, TxComplete, RelaySampled,
                        isrVars, detVars, vars
    <2>2. CASE PowerLoss
      BY <1>1, <2>2 DEF PowerLoss, isrVars
    <2>3. ASSUME NEW o \in {"good", "damaged", "unheard"}, Serve(o)
          PROVE  /\ detReq' = None /\ UNCHANGED <<tx, Modbus_State_DTC>>
                 /\ UNCHANGED <<frame_recv_dtc, rx>> \/ rx' = detReq \/ rx'.kind = "BAD"
      BY <2>3 DEF Serve, None
    <2> QED BY <1>1, <1>2, <2>1, <2>2, <2>3, WhichStep DEF Detector
  <1>3. CASE pc' # pc /\ pc = "poll"
    BY <1>1, <1>3, WhichStep DEF Send, Request, NoPollDue, isrVars, detVars
  <1>4. CASE pc' # pc /\ pc = "latch"
    BY <1>1, <1>4, WhichStep, AgedType DEF LatchRelay, TypeOK, FrameTypes
  <1>5. CASE pc' # pc /\ pc = "wait"
    BY <1>1, <1>5, WhichStep
       DEF AwaitReply, Used, ClearWrite, ClearKind, Expire, Lost, LostIfPending, NotWaiting,
           isrVars, detVars
  <1>6. CASE pc' # pc /\ pc \notin {"poll", "latch", "wait"}
    <2>1. TaskEntry \/ PickHvValue \/ CountPoll \/ Queued \/ Supervise
      BY <1>6, WhichStep DEF TypeOK, WriteTypes
    <2> QED BY <2>1 DEF TaskEntry, PickHvValue, CountPoll, Queued, QueueMultiple, QueueSingle,
                        NothingQueued, Supervise, isrVars, detVars
  <1> QED BY <1>2, <1>3, <1>4, <1>5, <1>6

(* A command that is queued while the relay rests comes to an end.         *)
LEMMA CommandEnds ==
  FairSpec /\ []WhenEnabled /\ LineIsSound /\ <>[](hvLost = "nothing") => ~<>[]HvPending
  <1> DEFINE Fair == FairSpec /\ []WhenEnabled /\ LineIsSound /\ <>[]Calm
  <1>1. FairSpec => []TypeOK
    BY TypeCorrect, PTL DEF FairSpec
  <1>2. TypeOK /\ [Next]_vars /\ [~Trouble]_vars /\ Calm /\ Calm' /\ HvPending /\ HvPending' =>
          /\ SentClean => SentClean'
          /\ SentClean /\ HeardClean => HeardClean'
          /\ Waiting /\ ~Waiting' => ~HeardClean /\ HeardClean'
          /\ ~Waiting /\ Waiting' => SentClean'
    BY CommandStep
  <1>3. Fair => []<>Waiting /\ []<>~Waiting
    BY WaitsEnd, SendsGoOn, PTL
  <1>4. Fair => (<>[]HvPending => <>[]SentClean)
    BY <1>1, <1>2, <1>3, PTL DEF FairSpec, Spec, LineIsSound
  <1>5. Fair => (<>[]HvPending => <>[]HeardClean)
    BY <1>1, <1>2, <1>3, <1>4, PTL DEF FairSpec, Spec, LineIsSound
  <1>6. Fair => ~<>[]HvPending
    BY <1>1, <1>2, <1>3, <1>5, PTL DEF FairSpec, Spec, LineIsSound
  <1> QED BY <1>6, PTL DEF Calm

(* Once the relay and the line are quiet, the detector comes to apply what *)
(* the relay asks for, and goes on applying it, unless one of Causes       *)
(* happens (modbus_task_dtc).  Nothing is assumed of the detector.         *)
THEOREM CommandReachesDetector == FairSpec /\ []WhenEnabled => HvEventuallyApplied
  <1> DEFINE Entry == pc = "entry"
             Pick == pc = "pick"
             Good == relay_status # UnknownRelay => detHv = HvValue(relay_status)
             Fair == FairSpec /\ []WhenEnabled /\ LineIsSound /\ <>[]Calm
                       /\ <>[][FALSE]_relay_status
  <1>1. FairSpec => []TypeOK /\ []HvSwitchFollowsRelay
    BY TypeCorrect, HvSwitchCorrect, PTL DEF FairSpec
  <1>2. TypeOK /\ [Next]_vars /\ [FALSE]_relay_status /\ Calm' =>
          /\ Same => Same'
          /\ Latching /\ ~Latching' => Same'
          /\ Entry /\ ~Entry' => Same \/ Pick'
          /\ Same /\ Pick' => Pick
          /\ HvPending' => HvPending \/ Latching
    BY RelayStep
  <1>3. TypeOK /\ [Next]_vars => /\ Pick => Pick' \/ Latching'
                                 /\ ~Pick /\ Latching' => Latching
    BY WhichStep DEF Onward, Latching, TypeOK, WriteTypes
  <1>4. HvSwitchFollowsRelay /\ ~Latching /\ ~HvPending /\ Calm /\ Same => Good
    BY DEF HvSwitchFollowsRelay, Latching, Calm, Same
  <1>5. Fair => []<>Entry
    BY LoopTurns DEF Entry
  <1>6. ~(Entry /\ Pick) /\ ~(Entry /\ Latching) /\ ~(Pick /\ Latching)
    BY DEF Latching
  <1>7. Fair => []<>~Entry
    <2>1. ~(pc = "entry" /\ pc = "poll")
      OBVIOUS
    <2> QED BY <2>1, LoopTurns, PTL DEF Entry
  <1>8. Fair => ~<>[]HvPending
    BY CommandEnds, PTL DEF Calm
  <1> HIDE DEF Entry, Pick, Good
  <1>9. Fair => <>[]Same
    BY <1>1, <1>2, <1>3, <1>5, <1>6, <1>7, PTL DEF FairSpec, Spec
  <1>10. Fair => <>[]~Latching
    <2>1. Fair => <>[]~Pick
      BY <1>1, <1>2, <1>5, <1>6, <1>9, PTL DEF FairSpec, Spec
    <2> QED BY <1>1, <1>3, <1>5, <1>6, <2>1, PTL DEF FairSpec, Spec
  <1>11. Fair => <>[]~HvPending
    BY <1>1, <1>2, <1>8, <1>10, PTL DEF FairSpec, Spec
  <1>12. Fair => <>[]Good
    BY <1>1, <1>4, <1>9, <1>10, <1>11, PTL
  <1> QED BY <1>12, PTL DEF HvEventuallyApplied, Good, Calm

-----------------------------------------------------------------------------
(* The link heals.  Every transmission arms the receiver again, so once    *)
(* the line is sound an answer is heard; it stays in the buffer until the  *)
(* master waits for one, even if the request it answers has timed out.     *)

Ready == Used(rx)
Sending == tx # None
Asked == detReq # None
Hears == detReq = None \/ armed

LEMMA HealStep ==
  LinkInv /\ [Next]_vars /\ [~Trouble]_vars /\ Dtc_Failed_Status' =>
    /\ Ready => Ready' /\ ~(Waiting /\ pc = "wait" /\ pc' # pc)
    /\ Sending => Sending' \/ (Asked' /\ Hears')
    /\ Hears => Hears'
    /\ (\E heard \in BOOLEAN : TxComplete(heard)) => ~Sending'
    /\ Hears /\ Serve("good") => Ready'
  <1> SUFFICES ASSUME LinkInv, [Next]_vars, [~Trouble]_vars, Dtc_Failed_Status'
      PROVE  /\ Ready => Ready' /\ ~(Waiting /\ pc = "wait" /\ pc' # pc)
             /\ Sending => Sending' \/ (Asked' /\ Hears')
             /\ Hears => Hears'
             /\ (\E heard \in BOOLEAN : TxComplete(heard)) => ~Sending'
             /\ Hears /\ Serve("good") => Ready'
    OBVIOUS
  <1> USE DEF Ready, Used, Sending, Asked, Hears, Waiting
  <1>1. TypeOK /\ RequestsReal /\ PendingWriteIsReal
    BY DEF LinkInv
  <1>2. (\E heard \in BOOLEAN : TxComplete(heard)) => ~Sending'
    BY DEF TxComplete
  <1>3. Asked /\ Serve("good") /\ Hears => Ready'
    BY <1>1 DEF Serve, RequestsReal, Answers
  <1>4. Serve("good") => Asked
    BY DEF Serve
  <1> SUFFICES /\ Ready => Ready' /\ ~(Waiting /\ pc = "wait" /\ pc' # pc)
               /\ Sending => Sending' \/ (Asked' /\ Hears')
               /\ Hears => Hears'
    BY <1>2, <1>3, <1>4
  <1>5. CASE pc' = pc
    <2>1. CASE RtcTick \/ TimeoutPasses \/ (\E r \in Relays : RelaySampled(r)) \/ UNCHANGED vars
      BY <1>5, <2>1 DEF RtcTick, TimeoutPasses, RelaySampled, isrVars, detVars, vars
    <2>2. CASE UartError
      BY <2>2 DEF Trouble, UartError, vars, isrVars
    <2>3. CASE \E heard \in BOOLEAN : TxComplete(heard)
      <3>1. tx # None /\ tx' = None /\ armed' = TRUE /\ UNCHANGED <<frame_recv_dtc, rx>>
        BY <2>3 DEF TxComplete
      <3>2. ~TxComplete(FALSE)
        BY <3>1 DEF Trouble, vars, isrVars
      <3>3. TxComplete(TRUE)
        BY <2>3, <3>2
      <3>4. detReq' = tx
        BY <3>3 DEF TxComplete
      <3> QED BY <1>5, <3>1, <3>4
    <2>4. CASE PowerLoss
      BY <1>5, <2>4 DEF Trouble, PowerLoss, vars, isrVars, detVars
    <2>5. CASE Serve("good")
      BY <1>1, <1>5, <2>5 DEF Serve, RequestsReal, Answers
    <2>6. CASE Serve("damaged") \/ Serve("unheard")
      BY <2>6 DEF Trouble, Serve, vars, detVars
    <2> QED BY <1>5, <2>1, <2>2, <2>3, <2>4, <2>5, <2>6, WhichStep DEF Interrupt, Detector
  <1>6. CASE pc' # pc /\ pc = "poll"
    BY <1>1, <1>6, WhichStep, RequestIsReal DEF Send, NoPollDue, isrVars, detVars
  <1>7. CASE pc' # pc /\ pc = "latch"
    BY <1>1, <1>7, WhichStep, AgedType, AgedReal, AgedNone
       DEF LatchRelay, TypeOK, FrameTypes, RequestsReal
  <1>8. CASE pc' # pc /\ pc = "wait"
    <2>1. CASE AwaitReply
      <3>1. UNCHANGED <<tx, detReq, armed>>
        BY <2>1 DEF AwaitReply, detVars
      <3>2. ~Used(rx)
        BY <2>1 DEF AwaitReply, LinkAlive
      <3> QED BY <3>1, <3>2
    <2>2. CASE NotWaiting
      BY <2>2 DEF NotWaiting, isrVars, detVars
    <2> QED BY <1>8, <2>1, <2>2, WhichStep
  <1>9. CASE pc' # pc /\ pc \notin {"poll", "latch", "wait"}
    <2>1. TaskEntry \/ PickHvValue \/ CountPoll \/ Queued \/ Supervise
      BY <1>1, <1>9, WhichStep DEF TypeOK, WriteTypes
    <2>2. UNCHANGED <<frame_recv_dtc, rx, tx, armed, detReq>>
      BY <2>1 DEF TaskEntry, PickHvValue, CountPoll, Queued, QueueMultiple, QueueSingle,
                  NothingQueued, Supervise, isrVars, detVars
    <2> QED BY <1>9, <2>2
  <1> QED BY <1>5, <1>6, <1>7, <1>8, <1>9

(* Once the line and the detector work, a declared failure never lasts: a  *)
(* reply is used and clears it (Check_Fault_Conditions, modbus_task_dtc).  *)
THEOREM LinkRecovers == AnsweringSpec /\ []WhenEnabled => LinkHeals
  <1> DEFINE Failed == Dtc_Failed_Status
             Wait == pc = "wait"
             Fair == AnsweringSpec /\ []WhenEnabled /\ LineIsSound
  <1>1. AnsweringSpec => FairSpec /\ []LinkInv
    BY LinkInvHolds, PTL DEF AnsweringSpec, FairSpec
  <1>2. LinkInv /\ [Next]_vars /\ [~Trouble]_vars /\ Failed' =>
          /\ Ready => Ready' /\ ~(Waiting /\ Wait /\ ~Wait')
          /\ Sending => Sending' \/ (Asked' /\ Hears')
          /\ Hears => Hears'
          /\ <<\E heard \in BOOLEAN : TxComplete(heard)>>_vars => ~Sending'
          /\ Hears /\ <<Serve("good")>>_vars => Ready'
    BY HealStep
  <1>3. LinkInv /\ [Next]_vars =>
          /\ Waiting /\ ~Waiting' => Wait /\ ~Wait'
          /\ ~Waiting /\ Waiting' => Sending'
    BY WaitStep DEF Sending
  <1>4. WhenEnabled =>
          /\ Sending => ENABLED <<\E heard \in BOOLEAN : TxComplete(heard)>>_vars
          /\ Asked => ENABLED <<Serve("good")>>_vars
    BY PTL DEF WhenEnabled, Sending, Asked
  <1>5. Fair => []<>Waiting /\ []<>~Waiting
    BY <1>1, WaitsEnd, SendsGoOn, PTL
  <1> HIDE DEF Failed, Wait
  <1>6. Fair => []<>Sending
    BY <1>1, <1>3, <1>5, PTL DEF AnsweringSpec, FairSpec, Spec
  <1>7. Fair => (<>[]Failed => <>[]Hears /\ []<>Asked)
    <2>1. Fair => []<><<\E heard \in BOOLEAN : TxComplete(heard)>>_vars \/ []<>~Sending
      BY <1>4, PTL DEF AnsweringSpec, FairSpec, Spec
    <2>2. Fair => (<>[]Failed => []<>~Sending)
      BY <1>1, <1>2, <2>1, PTL DEF AnsweringSpec, FairSpec, Spec, LineIsSound
    <2>3. Fair => (<>[]Failed => []<>Asked)
      BY <1>1, <1>2, <1>6, <2>2, PTL DEF AnsweringSpec, FairSpec, Spec, LineIsSound
    <2>4. Fair => (<>[]Failed => <>[]Hears)
      BY <1>1, <1>2, <1>6, <2>2, PTL DEF AnsweringSpec, FairSpec, Spec, LineIsSound
    <2> QED BY <2>3, <2>4, PTL
  <1>8. Fair => (<>[]Failed => <>[]Ready)
    BY <1>1, <1>2, <1>4, <1>7, PTL DEF AnsweringSpec, FairSpec, Spec, LineIsSound
  <1>9. Fair => ~<>[]Failed
    BY <1>1, <1>2, <1>3, <1>5, <1>8, PTL DEF AnsweringSpec, FairSpec, Spec, LineIsSound
  <1> QED BY <1>9, PTL DEF LinkHeals, Failed

-----------------------------------------------------------------------------
(* Lasting silence is declared.  While no reply is used every poll is      *)
(* counted, and the third one is seen by the supervision in the same turn  *)
(* of the loop, before the counter could wrap.                             *)

Silent == silence >= 2 /\ ~Dtc_Failed_Status

LEMMA SilentStep ==
  LinkInv /\ [Next]_vars /\ Silent /\ Silent' =>
    /\ pc # "clear" \/ pc' = pc => Dtc_Failed_Timeout' = Dtc_Failed_Timeout
    /\ pc = "clear" /\ pc' # pc =>
         pc' = "wait" /\ Dtc_Failed_Timeout' = (Dtc_Failed_Timeout + 1) % CounterMod
    /\ pc = "check" /\ pc' # pc => ~(Dtc_Failed_Timeout >= 3)
    /\ ~Waiting /\ Waiting' => pc' = "clear"
  <1> SUFFICES ASSUME LinkInv, [Next]_vars, Silent, Silent'
      PROVE  /\ pc # "clear" \/ pc' = pc => Dtc_Failed_Timeout' = Dtc_Failed_Timeout
             /\ pc = "clear" /\ pc' # pc =>
                  pc' = "wait" /\ Dtc_Failed_Timeout' = (Dtc_Failed_Timeout + 1) % CounterMod
             /\ pc = "check" /\ pc' # pc => ~(Dtc_Failed_Timeout >= 3)
             /\ ~Waiting /\ Waiting' => pc' = "clear"
    OBVIOUS
  <1> USE DEF Silent
  <1>1. ~Waiting /\ Waiting' => pc' = "clear"
    BY WaitStep, WhichStep DEF Send, NoPollDue, Waiting
  <1>2. CASE pc' = pc
    BY <1>1, <1>2, WhichStep
       DEF Interrupt, RtcTick, TimeoutPasses, UartError, TxComplete, RelaySampled, Detector,
           PowerLoss, Serve, vars, failVars
  <1>3. CASE pc' # pc /\ pc \in {"entry", "pick", "latch", "poll", "clear", "check"}
    BY <1>1, <1>3, WhichStep
       DEF TaskEntry, PickHvValue, LatchRelay, Send, NoPollDue, CountPoll, PollCounted,
           Supervise, LinkDown, failVars
  <1>4. CASE pc' # pc /\ pc = "wait"
    BY <1>1, <1>4, WhichStep DEF AwaitReply, NotWaiting, failVars
  <1>5. CASE pc' # pc /\ pc = "others"
    BY <1>1, <1>5, WhichStep DEF Queued, QueueMultiple, QueueSingle, NothingQueued, failVars
  <1> QED BY <1>2, <1>3, <1>4, <1>5 DEF LinkInv, TypeOK, WriteTypes

LEMMA SilenceEnds == FairSpec /\ []WhenEnabled => ~<>[]Silent
  <1> DEFINE Clear == pc = "clear"
             Check == pc = "check"
             Seen == pc \in {"wait", "others", "check"}
             Zero == Dtc_Failed_Timeout = 0
             One == Dtc_Failed_Timeout = 1
             Two == Dtc_Failed_Timeout = 2
             Many == Dtc_Failed_Timeout >= 3
             Fair == FairSpec /\ []WhenEnabled
  <1>1. FairSpec => []LinkInv
    BY LinkInvHolds, PTL DEF FairSpec
  <1>2. LinkInv => /\ Zero \/ One \/ Two \/ Many
                   /\ ~(Zero /\ One) /\ ~(One /\ Two) /\ ~(Two /\ Many)
    BY DEF LinkInv, TypeOK, CountTypes
  <1>3. LinkInv /\ [Next]_vars /\ Silent /\ Silent' =>
          /\ ~(Clear /\ ~Clear') =>
               (Zero => Zero') /\ (One => One') /\ (Two => Two') /\ (Many => Many')
          /\ Clear /\ ~Clear' => /\ Seen'
                                 /\ Zero => One'
                                 /\ One => Two'
                                 /\ Two => Many'
                                 /\ Many => Zero' \/ Many'
          /\ Many /\ Check => Check'
    <2> SUFFICES ASSUME LinkInv, [Next]_vars, Silent, Silent'
                 PROVE  /\ ~(Clear /\ ~Clear') =>
                             /\ Zero => Zero'
                             /\ One => One'
                             /\ Two => Two'
                             /\ Many => Many'
                        /\ Clear /\ ~Clear' => /\ Seen'
                                               /\ Zero => One'
                                               /\ One => Two'
                                               /\ Two => Many'
                                               /\ Many => Zero' \/ Many'
                        /\ Many /\ Check => Check'
      OBVIOUS
    <2>1. Dtc_Failed_Timeout \in 0..(CounterMod - 1)
      BY DEF LinkInv, TypeOK, CountTypes
    <2>2. /\ Zero => (Dtc_Failed_Timeout + 1) % CounterMod = 1
          /\ One => (Dtc_Failed_Timeout + 1) % CounterMod = 2
          /\ Two => (Dtc_Failed_Timeout + 1) % CounterMod = 3
      OBVIOUS
    <2>3. Many => (Dtc_Failed_Timeout + 1) % CounterMod = 0
                  \/ (Dtc_Failed_Timeout + 1) % CounterMod >= 3
      <3>1. CASE Dtc_Failed_Timeout + 1 = CounterMod
        BY <2>1, <3>1
      <3>2. CASE Dtc_Failed_Timeout + 1 < CounterMod
        BY <2>1, <3>2
      <3> QED BY <2>1, <3>1, <3>2
    <2> QED BY <2>2, <2>3, SilentStep
  <1>4. [Next]_vars => (Seen => Seen' \/ (Check /\ ~Check'))
    BY WhichStep DEF Onward
  <1>5. LinkInv /\ [Next]_vars /\ Silent /\ Silent' => (~Waiting /\ Waiting' => Clear')
    BY SilentStep
  <1>6. Fair => []<>Waiting /\ []<>~Waiting
    BY WaitsEnd, SendsGoOn, PTL
  <1>7. Fair => []<>Check /\ []<>~Clear
    <2>1. ~(pc = "clear" /\ pc = "check")
      OBVIOUS
    <2> QED BY <2>1, LoopTurns, PTL DEF Check, Clear
  <1>8. Seen => ~Clear
    OBVIOUS
  <1>9. Fair => []<>~Check
    <2>1. ~(pc = "check" /\ pc = "entry")
      OBVIOUS
    <2> QED BY <2>1, LoopTurns, PTL DEF Check
  <1> HIDE DEF Clear, Check, Seen, Zero, One, Two, Many
  <1>10. Fair => (<>[]Silent => []<>Clear)
    BY <1>1, <1>5, <1>6, PTL DEF FairSpec, Spec
  <1>11. Fair => (<>[]Silent => <>[]~(Seen /\ Many))
    BY <1>1, <1>3, <1>4, <1>7, <1>8, <1>9, PTL DEF FairSpec, Spec
  <1>12. Fair => (<>[]Silent => ~<>[]Zero /\ ~<>[]One /\ ~<>[]Two)
    BY <1>1, <1>2, <1>3, <1>7, <1>10, PTL DEF FairSpec, Spec
  <1> QED BY <1>1, <1>2, <1>3, <1>7, <1>10, <1>11, <1>12, PTL DEF FairSpec, Spec

(* The monitor's promise with its fairness: every step of the link is a    *)
(* step of LinkMonitor, and a failure that may be declared for ever is     *)
(* (CountPoll and Check_Fault_Conditions).                                 *)
THEOREM SilenceIsDeclared == FairSpec /\ []WhenEnabled => FailureIsDeclared
  <1>1. FairSpec => FailureNeedsSilence
    BY LinkImplementsMonitor, PTL DEF FairSpec
  <1>2. WhenEnabled => (ENABLED <<Monitor!Declare>>_(Monitor!monitorVars)
                          => silence >= 2 /\ ~Dtc_Failed_Status)
    BY PTL DEF WhenEnabled
  <1>3. Silent <=> silence >= 2 /\ ~Dtc_Failed_Status
    BY DEF Silent
  <1> QED BY <1>1, <1>2, <1>3, SilenceEnds,
             PTL DEF FailureIsDeclared, FailureNeedsSilence, Monitor!MonitorSpec
=============================================================================
