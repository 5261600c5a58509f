--------------------------- MODULE TcpServerProofs ---------------------------
(***************************************************************************)
(* Theorems about TcpServer, for every set of disturbances, either pin and *)
(* every width of the retry counter. Liveness is proved from FairSpec and  *)
(* WhenEnabled.                                                            *)
(***************************************************************************)
EXTENDS TcpServer, TLAPS

USE FaultsAssumption, PulsesAssumption, RetryAssumption
    DEF FaultsAssumption, PulsesAssumption, RetryAssumption, common

LEMMA RetryType == \A n \in 0..(RetryMod - 1) : (n + 1) % RetryMod \in 0..(RetryMod - 1)
  OBVIOUS

-----------------------------------------------------------------------------
(* Type correctness, one lemma per part of TypeOK.                         *)

LEMMA SocketTypesStep == SocketTypes /\ [Next]_vars => SocketTypes'
  <1> SUFFICES ASSUME SocketTypes, [Next]_vars PROVE SocketTypes'
    OBVIOUS
  <1> USE DEF SocketTypes, Connected, Bits, chip
  <1>1. CASE Client
    BY <1>1 DEF Client, Connect, Ask, Echo, Leave, Vanish, Raise, loop, Received, Requests
  <1>2. CASE W5500
    BY <1>2 DEF W5500, Delivered, ClosedByBoth, TimesOut, Glitch, Raise, loop, Received
  <1>3. CASE Network
    BY <1>3 DEF Network, NetworkOther, NetworkClosed, NetworkInit, NetworkCloseWait,
                Disconnected, Open, Reset, Received
  <1>4. CASE Interrupts
    <2>1. CASE NoInterrupt \/ TakeFlag \/ ReadIr \/ RecvNothing \/ Recv
      BY <2>1 DEF NoInterrupt, TakeFlag, ReadIr, RecvNothing, Recv, Received
    <2>2. CASE AckSendRecv \/ AckOthers
      BY <2>2 DEF AckSendRecv, AckOthers, Clear
    <2>3. CASE AnswerRead
      BY <2>3 DEF AnswerRead, Sent, Clear
    <2>4. CASE AnswerSettings \/ AnswerFails \/ Restarted
      BY <2>4 DEF AnswerSettings, AnswerFails, Restarted, Open, Reset, Received
    <2> QED BY <1>4, <2>1, <2>2, <2>3, <2>4 DEF Interrupts
  <1>5. CASE Monitors
    BY <1>5 DEF Monitors, Healthy, Unhealthy, AddressKept, AddressLost, Others, Reconfigure,
                Reset, Received
  <1>6. CASE UNCHANGED vars
    BY <1>6 DEF vars
  <1> QED BY <1>1, <1>2, <1>3, <1>4, <1>5, <1>6 DEF Next, TcpTask

LEMMA LoopTypesStep == SocketTypes /\ LoopTypes /\ [Next]_vars => LoopTypes'
  <1> SUFFICES ASSUME SocketTypes, LoopTypes, [Next]_vars PROVE LoopTypes'
    OBVIOUS
  <1> USE DEF LoopTypes
  <1>1. CASE Client
    BY <1>1 DEF Client, Connect, Ask, Echo, Leave, Vanish, Raise, loop
  <1>2. CASE W5500
    BY <1>2 DEF W5500, Delivered, ClosedByBoth, TimesOut, Glitch, Raise, loop
  <1>3. CASE Network
    BY <1>3 DEF Network, NetworkOther, NetworkClosed, NetworkInit, NetworkCloseWait,
                Disconnected, Open, Reset, Steps, Waits
  <1>4. CASE Interrupts
    <2>1. CASE NoInterrupt \/ TakeFlag \/ ReadIr \/ RecvNothing
      BY <2>1 DEF NoInterrupt, TakeFlag, ReadIr, RecvNothing, Steps, SocketTypes
    <2>2. CASE Recv
      BY <2>2 DEF Recv, Steps, SocketTypes, Received, Requests
    <2>3. CASE AckSendRecv \/ AckOthers
      BY <2>3 DEF AckSendRecv, AckOthers, Clear, Steps
    <2>4. CASE AnswerRead
      BY <2>4 DEF AnswerRead, Sent, Clear, Steps
    <2>5. CASE AnswerSettings \/ AnswerFails \/ Restarted
      BY <2>5 DEF AnswerSettings, AnswerFails, Restarted, Open, Reset, Steps, Waits
    <2> QED BY <1>4, <2>1, <2>2, <2>3, <2>4, <2>5 DEF Interrupts
  <1>5. CASE Monitors
    <2>1. CASE Unhealthy
      BY <2>1, RetryType DEF Unhealthy, Reset, Steps
    <2>2. CASE ~Unhealthy
      BY <1>5, <2>2 DEF Monitors, Healthy, AddressKept, AddressLost, Others, Reconfigure,
                        Reset, Steps
    <2> QED BY <2>1, <2>2
  <1>6. CASE UNCHANGED vars
    BY <1>6 DEF vars
  <1> QED BY <1>1, <1>2, <1>3, <1>4, <1>5, <1>6 DEF Next, TcpTask

LEMMA PeerTypesStep == SocketTypes /\ PeerTypes /\ [Next]_vars => PeerTypes'
  <1> SUFFICES ASSUME SocketTypes, PeerTypes, [Next]_vars PROVE PeerTypes'
    OBVIOUS
  <1> USE DEF PeerTypes, peer, NoPeer
  <1>1. CASE Client
    BY <1>1 DEF Client, Connect, Ask, Echo, Leave, Vanish
  <1>2. CASE W5500
    BY <1>2 DEF W5500, Delivered, ClosedByBoth, TimesOut, Glitch
  <1>3. CASE Network
    BY <1>3 DEF Network, NetworkOther, NetworkClosed, NetworkInit, NetworkCloseWait,
                Disconnected, Open, Reset
  <1>4. CASE Interrupts
    BY <1>4 DEF Interrupts, NoInterrupt, TakeFlag, ReadIr, AckSendRecv, RecvNothing, Recv,
                AnswerRead, Sent, AnswerSettings, AnswerFails, Restarted, AckOthers, Open, Reset
  <1>5. CASE Monitors
    BY <1>5 DEF Monitors, Healthy, Unhealthy, AddressKept, AddressLost, Others, Reconfigure,
                Reset
  <1>6. CASE UNCHANGED vars
    BY <1>6 DEF vars
  <1> QED BY <1>1, <1>2, <1>3, <1>4, <1>5, <1>6 DEF Next, TcpTask

(* Where the loop is in tcp_task says what the socket can be: it closes    *)
(* only while the loop waits, and a request is answered on a connection    *)
(* or after its loss.                                                      *)
Phases ==
  /\ pc \in Waits => sr \in {"CLOSING", "CLOSED"}
  /\ sr = "CLOSING" => pc \in Waits
  /\ pc \in Requests => sr \in Connected \cup {"CLOSED"}
  /\ rx # "nothing" => sr \in Connected \cup {"CLOSING"}

LEMMA PhasesStep == SocketTypes /\ Phases /\ [Next]_vars => Phases'
  <1> SUFFICES ASSUME SocketTypes, Phases, [Next]_vars PROVE Phases'
    OBVIOUS
  <1> USE DEF Phases, Waits, Connected, Requests, chip
  <1>1. CASE Client
    BY <1>1 DEF Client, Connect, Ask, Echo, Leave, Vanish, loop
  <1>2. CASE W5500
    BY <1>2 DEF W5500, Delivered, ClosedByBoth, TimesOut, Glitch, loop
  <1>3. CASE Network
    BY <1>3 DEF Network, NetworkOther, NetworkClosed, NetworkInit, NetworkCloseWait,
                Disconnected, Open, Reset
  <1>4. CASE Interrupts
    <2>1. CASE NoInterrupt \/ TakeFlag \/ ReadIr \/ AckSendRecv \/ RecvNothing \/ AckOthers
      BY <2>1 DEF NoInterrupt, TakeFlag, ReadIr, AckSendRecv, RecvNothing, AckOthers
    <2>2. CASE Recv
      BY <2>2 DEF Recv, SocketTypes, Received
    <2>3. CASE AnswerRead \/ AnswerSettings \/ Restarted
      BY <2>3 DEF AnswerRead, AnswerSettings, Restarted, CanSend, Open, Reset
    <2>4. CASE AnswerFails
      BY <2>4 DEF AnswerFails
    <2> QED BY <1>4, <2>1, <2>2, <2>3, <2>4 DEF Interrupts
  <1>5. CASE Monitors
    BY <1>5 DEF Monitors, Healthy, Unhealthy, AddressKept, AddressLost, Others, Reconfigure,
                Reset
  <1>6. CASE UNCHANGED vars
    BY <1>6 DEF vars
  <1> QED BY <1>1, <1>2, <1>3, <1>4, <1>5, <1>6 DEF Next, TcpTask

LEMMA InitTypes == Init => TypeOK
  <1> SUFFICES ASSUME Init PROVE TypeOK
    OBVIOUS
  <1>1. SocketTypes
    BY DEF Init, SocketTypes, Connected, Bits, Received, Requests
  <1>2. LoopTypes
    <2>1. 0 \in 0..(RetryMod - 1)
      OBVIOUS
    <2>2. "network" \in Steps
      BY DEF Steps
    <2> QED BY <2>1, <2>2 DEF Init, LoopTypes
  <1>3. PeerTypes
    BY DEF Init, PeerTypes
  <1> QED BY <1>1, <1>2, <1>3 DEF Init, TypeOK, Waits

LEMMA InitPhases == Init => Phases
  BY DEF Init, Phases, Waits, Requests

(* Whatever the client and the chip do between two steps of the loop,      *)
(* every variable keeps its type and the loop waits only for a socket that *)
(* is closing (tcp_task).                                                  *)
THEOREM TypeCorrect == Spec => []TypeOK
  <1>1. TypeOK /\ Phases /\ [Next]_vars => TypeOK' /\ Phases'
    BY SocketTypesStep, LoopTypesStep, PeerTypesStep, PhasesStep DEF TypeOK, Phases
  <1> QED BY <1>1, InitTypes, InitPhases, PTL DEF Spec

-----------------------------------------------------------------------------
(* Sending.  A message marks its connection as one the chip probes; a      *)
(* socket that is not connected is never marked as sending.                *)

SendInv ==
  /\ SendingEnds /\ KeepAliveIsArmed
  /\ sr \in {"INIT", "LISTEN"} => ~sending
  /\ sr \in Connected /\ sending => armed

LEMMA SendStep == SocketTypes /\ SendInv /\ [Next]_vars => SendInv'
  <1> SUFFICES ASSUME SocketTypes, SendInv, [Next]_vars PROVE SendInv'
    OBVIOUS
  <1> USE DEF SendInv, SendingEnds, KeepAliveIsArmed, Connected, chip
  <1>1. CASE Client
    BY <1>1 DEF Client, Connect, Ask, Echo, Leave, Vanish, Raise, loop
  <1>2. CASE W5500
    BY <1>2 DEF W5500, Delivered, ClosedByBoth, TimesOut, Glitch, Raise, loop, peer
  <1>3. CASE Network
    BY <1>3 DEF Network, NetworkOther, NetworkClosed, NetworkInit, NetworkCloseWait,
                Disconnected, Open, Reset, peer
  <1>4. CASE Interrupts
    <2>1. CASE NoInterrupt \/ TakeFlag \/ ReadIr \/ RecvNothing \/ Recv
      BY <2>1 DEF NoInterrupt, TakeFlag, ReadIr, RecvNothing, Recv, peer
    <2>2. CASE AckSendRecv
      BY <2>2 DEF AckSendRecv, Clear, peer
    <2>3. CASE AnswerRead
      BY <2>3 DEF AnswerRead, Sent, Clear, CanSend
    <2>4. CASE AnswerSettings \/ AnswerFails \/ Restarted
      BY <2>4 DEF AnswerSettings, AnswerFails, Restarted, Open, Reset, peer
    <2>5. CASE AckOthers
      <3> DEFINE kick == "CON" \in sn_ir /\ CanSend
      <3>1. CASE kick
        BY <2>5, <3>1 DEF AckOthers, CanSend
      <3>2. CASE ~kick
        BY <2>5, <3>2 DEF AckOthers, Clear, CanSend
      <3> QED BY <3>1, <3>2
    <2> QED BY <1>4, <2>1, <2>2, <2>3, <2>4, <2>5 DEF Interrupts
  <1>5. CASE Monitors
    BY <1>5 DEF Monitors, Healthy, Unhealthy, AddressKept, AddressLost, Others, Reconfigure,
                Reset, peer
  <1>6. CASE UNCHANGED vars
    BY <1>6 DEF vars, peer
  <1> QED BY <1>1, <1>2, <1>3, <1>4, <1>5, <1>6 DEF Next, TcpTask

LEMMA SendAlways == Spec => [](SendingEnds /\ KeepAliveIsArmed)
  <1>1. Init => SendInv
    BY DEF Init, SendInv, SendingEnds, KeepAliveIsArmed, Connected
  <1>2. SendInv => SendingEnds /\ KeepAliveIsArmed
    BY DEF SendInv
  <1>3. TypeOK => SocketTypes
    BY DEF TypeOK
  <1> QED BY <1>1, <1>2, <1>3, SendStep, TypeCorrect, PTL DEF Spec

(* A socket marked as sending always has a message on its way or a         *)
(* delivery to take notice of (sock_is_sending, W5500_Process_Interrupts). *)
THEOREM SendingNeverSticks == Spec => []SendingEnds
  <1> QED BY SendAlways, PTL

(* Every connection is probed by keep-alive, or is about to be sent the    *)
(* kickstart packet (the CON branch of W5500_Process_Interrupts).          *)
THEOREM ConnectionsAreProbed == Spec => []KeepAliveIsArmed
  <1> QED BY SendAlways, PTL

-----------------------------------------------------------------------------
(* The interrupt pin.  While the handler holds a copy of the bits and no   *)
(* edge has come since, the copy is part of what is set: bits cleared      *)
(* behind the handler's back come back with an edge.                       *)

PinInv ==
  /\ InterruptsAreNotLost
  /\ PinPulses /\ simr /\ pc = "ack" /\ ir # {} /\ ~flag => sn_ir \subseteq ir /\ sn_ir # {}

LEMMA PinStep == SocketTypes /\ LoopTypes /\ PinInv /\ [Next]_vars => PinInv'
  <1> SUFFICES ASSUME SocketTypes, LoopTypes, PinInv, [Next]_vars PROVE PinInv'
    OBVIOUS
  <1> USE DEF PinInv, InterruptsAreNotLost, chip
  <1>1. CASE Client
    BY <1>1 DEF Client, Connect, Ask, Echo, Leave, Vanish, Raise, loop
  <1>2. CASE W5500
    BY <1>2 DEF W5500, Delivered, ClosedByBoth, TimesOut, Glitch, Raise, loop
  <1>3. CASE Network
    BY <1>3 DEF Network, NetworkOther, NetworkClosed, NetworkInit, NetworkCloseWait,
                Disconnected, Open, Reset
  <1>4. CASE Interrupts
    <2>1. CASE NoInterrupt \/ TakeFlag \/ ReadIr \/ RecvNothing
      BY <2>1 DEF NoInterrupt, TakeFlag, ReadIr, RecvNothing
    <2>2. CASE Recv
      BY <2>2 DEF Recv, SocketTypes, Received, Requests
    <2>3. CASE AckSendRecv
      BY <2>3 DEF AckSendRecv, Clear, LoopTypes, Bits
    <2>4. CASE AnswerRead
      BY <2>4 DEF AnswerRead, Sent, Clear
    <2>5. CASE AnswerSettings \/ Restarted
      <3>1. pc' = "con" /\ simr' = simr
        <4>1. AnswerSettings => pc' = "con" /\ simr' = simr
          BY DEF AnswerSettings
        <4>2. Restarted => pc' = "con" /\ simr' = simr
          BY DEF Restarted
        <4> QED BY <2>5, <4>1, <4>2, Zenon
      <3>2. pc \in Requests \cup {"restarting"}
        BY <2>5 DEF AnswerSettings, Restarted, Requests
      <3>3. ir' = {} \/ (ir' = ir /\ (flag => flag'))
        BY <2>5 DEF AnswerSettings, Restarted, Open, Reset
      <3> QED BY <3>1, <3>2, <3>3 DEF Requests
    <2>6. CASE AnswerFails
      <3>1. pc \in Requests /\ pc' = "restarting" /\ UNCHANGED <<ir, simr, flag>>
        BY <2>6 DEF AnswerFails
      <3> QED BY <3>1 DEF Requests
    <2>7. CASE AckOthers
      BY <2>7 DEF AckOthers, Clear
    <2> QED BY <1>4, <2>1, <2>2, <2>3, <2>4, <2>5, <2>6, <2>7 DEF Interrupts
  <1>5. CASE Monitors
    BY <1>5 DEF Monitors, Healthy, Unhealthy, AddressKept, AddressLost, Others, Reconfigure,
                Reset
  <1>6. CASE UNCHANGED vars
    BY <1>6 DEF vars
  <1> QED BY <1>1, <1>2, <1>3, <1>4, <1>5, <1>6 DEF Next, TcpTask

(* No interrupt of the socket is left without a flag, however the bits     *)
(* arise while the handler clears others, provided INTn pulses and SIMR is *)
(* set (W5500_Process_Interrupts, HAL_GPIO_EXTI_Callback).                 *)
THEOREM NoInterruptIsLost == Spec => []InterruptsAreNotLost
  <1>1. Init => PinInv
    BY DEF Init, PinInv, InterruptsAreNotLost
  <1>2. PinInv => InterruptsAreNotLost
    BY DEF PinInv
  <1>3. TypeOK => SocketTypes /\ LoopTypes
    BY DEF TypeOK
  <1> QED BY <1>1, <1>2, <1>3, PinStep, TypeCorrect, PTL DEF Spec

-----------------------------------------------------------------------------
(* The client, the kickstart packet and what has arrived.  A client is     *)
(* there exactly while the socket is in a connection; what has arrived     *)
(* stays announced until the handler is about to read it; and while the    *)
(* kickstart packet of a connection is to come, nothing has echoed it.     *)

Handling == {"ack", "recv", "con", "restarting"} \cup Requests
KickPending == "CON" \in ir \/ (pc \in Handling /\ "CON" \in sn_ir)

ClientInv ==
  /\ sr \in Connected \cup {"CLOSING"} <=> client # "away"
  /\ awaiting => client = "open"
  /\ sr = "CLOSE_WAIT" => client \in {"left", "vanished"}
  /\ client = "left" => sr # "ESTABLISHED"
  /\ client = "away" => ~echo /\ ~armed

ReceivedInv ==
  rx # "nothing" => "RECV" \in ir \/ pc = "recv" \/ (pc = "ack" /\ "RECV" \in sn_ir)

KickInv == echo \/ rx \in {"echo", "both"} => ~KickPending

LEMMA ClientStep == TypeOK /\ Phases /\ ClientInv /\ [Next]_vars => ClientInv'
  <1> SUFFICES ASSUME TypeOK, Phases, ClientInv, [Next]_vars PROVE ClientInv'
    OBVIOUS
  <1> USE DEF ClientInv, Phases, Waits, Connected, chip, peer, NoPeer
  <1>1. CASE Client
    <2>1. CASE Connect \/ Leave \/ Vanish
      BY <2>1 DEF Connect, Leave, Vanish, loop, Raise
    <2>2. CASE Echo
      BY <2>2 DEF Echo, loop, Raise
    <2>3. CASE \E kind \in Requests : Ask(kind)
      BY <2>3 DEF Ask, loop, Raise, Requests
    <2> QED BY <1>1, <2>1, <2>2, <2>3 DEF Client
  <1>2. CASE W5500
    BY <1>2 DEF W5500, Delivered, ClosedByBoth, TimesOut, Glitch, loop, Raise
  <1>3. CASE Network
    BY <1>3 DEF Network, NetworkOther, NetworkClosed, NetworkInit, NetworkCloseWait,
                Disconnected, Open, Reset
  <1>4. CASE Interrupts
    <2>1. CASE NoInterrupt \/ TakeFlag \/ ReadIr \/ RecvNothing
      BY <2>1 DEF NoInterrupt, TakeFlag, ReadIr, RecvNothing
    <2>2. CASE Recv
      BY <2>2 DEF Recv, TypeOK, SocketTypes, Received, Requests
    <2>3. CASE AckSendRecv
      BY <2>3 DEF AckSendRecv, Clear
    <2>4. CASE AnswerRead
      BY <2>4 DEF AnswerRead, Sent, Clear, CanSend
    <2>5. CASE AnswerSettings \/ Restarted
      BY <2>5 DEF AnswerSettings, Restarted, Open, Reset, CanSend
    <2>6. CASE AnswerFails
      BY <2>6 DEF AnswerFails, Requests
    <2>7. CASE AckOthers
      BY <2>7 DEF AckOthers, Clear, CanSend
    <2> QED BY <1>4, <2>1, <2>2, <2>3, <2>4, <2>5, <2>6, <2>7 DEF Interrupts
  <1>5. CASE Monitors
    BY <1>5 DEF Monitors, Healthy, Unhealthy, AddressKept, AddressLost, Others, Reconfigure,
                Reset
  <1>6. CASE UNCHANGED vars
    BY <1>6 DEF vars
  <1> QED BY <1>1, <1>2, <1>3, <1>4, <1>5, <1>6 DEF Next, TcpTask

LEMMA ReceivedStep == TypeOK /\ Phases /\ ReceivedInv /\ [Next]_vars => ReceivedInv'
  <1> SUFFICES ASSUME TypeOK, Phases, ReceivedInv, [Next]_vars PROVE ReceivedInv'
    OBVIOUS
  <1> USE DEF ReceivedInv, Phases, Connected, Waits, chip
  <1>1. CASE Client
    <2>1. CASE Connect \/ Leave \/ Vanish
      BY <2>1 DEF Connect, Leave, Vanish, loop, Raise
    <2>2. CASE Echo
      BY <2>2 DEF Echo, loop, Raise
    <2>3. CASE \E kind \in Requests : Ask(kind)
      BY <2>3 DEF Ask, loop, Raise, Requests
    <2> QED BY <1>1, <2>1, <2>2, <2>3 DEF Client
  <1>2. CASE W5500
    BY <1>2 DEF W5500, Delivered, ClosedByBoth, TimesOut, Glitch, loop, Raise
  <1>3. CASE Network
    BY <1>3 DEF Network, NetworkOther, NetworkClosed, NetworkInit, NetworkCloseWait,
                Disconnected, Open, Reset
  <1>4. CASE Interrupts
    <2>1. CASE NoInterrupt \/ TakeFlag \/ ReadIr \/ RecvNothing
      BY <2>1 DEF NoInterrupt, TakeFlag, ReadIr, RecvNothing
    <2>2. CASE Recv
      BY <2>2 DEF Recv, TypeOK, SocketTypes, Received, Requests
    <2>3. CASE AckSendRecv
      BY <2>3 DEF AckSendRecv, Clear
    <2>4. CASE AnswerRead
      BY <2>4 DEF AnswerRead, Sent, Clear, CanSend
    <2>5. CASE AnswerSettings \/ AnswerFails \/ Restarted
      BY <2>5 DEF AnswerSettings, AnswerFails, Restarted, Open, Reset, Requests
    <2>6. CASE AckOthers
      BY <2>6 DEF AckOthers, Clear, CanSend
    <2> QED BY <1>4, <2>1, <2>2, <2>3, <2>4, <2>5, <2>6 DEF Interrupts
  <1>5. CASE Monitors
    BY <1>5 DEF Monitors, Healthy, Unhealthy, AddressKept, AddressLost, Others, Reconfigure,
                Reset
  <1>6. CASE UNCHANGED vars
    BY <1>6 DEF vars
  <1> QED BY <1>1, <1>2, <1>3, <1>4, <1>5, <1>6 DEF Next, TcpTask

LEMMA KickStep == TypeOK /\ Phases /\ ClientInv /\ KickInv /\ [Next]_vars => KickInv'
  <1> SUFFICES ASSUME TypeOK, Phases, ClientInv, KickInv, [Next]_vars PROVE KickInv'
    OBVIOUS
  <1>0. (/\ pc' = pc /\ sn_ir' = sn_ir
         /\ "CON" \in ir' => "CON" \in ir
         /\ echo' => echo \/ rx \in {"echo", "both"}
         /\ rx' \in {"echo", "both"} => echo \/ rx \in {"echo", "both"})
        => KickInv'
    BY DEF KickInv, KickPending
  <1>1. CASE Client
    <2>1. CASE Connect
      <3>1. ~echo' /\ rx' = "nothing"
        BY <2>1 DEF Connect, TypeOK, SocketTypes, Received, ClientInv, Phases, Connected
      <3> QED BY <3>1 DEF KickInv
    <2>2. CASE Leave \/ Vanish
      BY <1>0, <2>2 DEF Leave, Vanish, loop, Raise, chip
    <2>3. CASE Echo
      BY <1>0, <2>3 DEF Echo, loop, Raise
    <2>4. CASE \E kind \in Requests : Ask(kind)
      <3>1. PICK kind \in Requests : Ask(kind)
        BY <2>4
      <3>2. kind \notin {"echo", "both"}
        BY DEF Requests
      <3> QED BY <1>0, <3>1, <3>2 DEF Ask, loop, Raise
    <2> QED BY <1>1, <2>1, <2>2, <2>3, <2>4 DEF Client
  <1>2. CASE W5500
    BY <1>0, <1>2 DEF W5500, Delivered, ClosedByBoth, TimesOut, Glitch, loop, Raise, chip,
                      peer, NoPeer
  <1> USE DEF KickInv, Phases, ClientInv, Connected, chip, peer, NoPeer, Handling, KickPending,
              Requests
  <1>3. CASE Network
    BY <1>3 DEF Network, NetworkOther, NetworkClosed, NetworkInit, NetworkCloseWait,
                Disconnected, Open, Reset
  <1>4. CASE Interrupts
    <2>1. CASE NoInterrupt \/ TakeFlag \/ ReadIr \/ RecvNothing
      BY <2>1 DEF NoInterrupt, TakeFlag, ReadIr, RecvNothing
    <2>2. CASE Recv
      BY <2>2 DEF Recv, TypeOK, SocketTypes, Received, Requests
    <2>3. CASE AckSendRecv
      BY <2>3 DEF AckSendRecv, Clear
    <2>4. CASE AnswerRead
      BY <2>4 DEF AnswerRead, Sent, Clear, CanSend
    <2>5. CASE AnswerSettings \/ AnswerFails \/ Restarted
      BY <2>5 DEF AnswerSettings, AnswerFails, Restarted, Open, Reset
    <2>6. CASE AckOthers
      BY <2>6 DEF AckOthers, Clear, CanSend
    <2> QED BY <1>4, <2>1, <2>2, <2>3, <2>4, <2>5, <2>6 DEF Interrupts
  <1>5. CASE Monitors
    BY <1>5 DEF Monitors, Healthy, Unhealthy, AddressKept, AddressLost, Others, Reconfigure,
                Reset
  <1>6. CASE UNCHANGED vars
    BY <1>6 DEF vars
  <1> QED BY <1>1, <1>2, <1>3, <1>4, <1>5, <1>6 DEF Next, TcpTask

TcpInv ==
  TypeOK /\ Phases /\ SendInv /\ PinInv /\ ClientInv /\ ReceivedInv /\ KickInv

LEMMA TcpInvHolds == Spec => []TcpInv
  <1>1. Init => TcpInv
    <2>1. Init => SendInv /\ PinInv
      BY DEF Init, SendInv, SendingEnds, KeepAliveIsArmed, Connected, PinInv,
             InterruptsAreNotLost
    <2>2. Init => ClientInv /\ ReceivedInv /\ KickInv
      BY DEF Init, ClientInv, ReceivedInv, KickInv, Connected
    <2> QED BY <2>1, <2>2, InitTypes, InitPhases DEF TcpInv
  <1>2. TcpInv /\ [Next]_vars => TcpInv'
    BY SocketTypesStep, LoopTypesStep, PeerTypesStep, PhasesStep, SendStep, PinStep,
       ClientStep, ReceivedStep, KickStep
       DEF TcpInv, TypeOK, Phases
  <1> QED BY <1>1, <1>2, PTL DEF Spec

-----------------------------------------------------------------------------
(* Liveness.  WhenEnabled (TcpServer) is the hypothesis that stands for    *)
(* ENABLED.  First, where each step of the loop leads.                     *)

Onward(p) ==
  CASE p = "network"       -> {"disconnecting", "interrupts"}
    [] p = "disconnecting" -> {"interrupts"}
    [] p = "interrupts"    -> {"read", "health"}
    [] p = "read"          -> {"ack"}
    [] p = "ack"           -> {"recv", "con"}
    [] p = "recv"          -> Requests \cup {"con", "health"}
    [] p \in Requests      -> {"con", "restarting"}
    [] p = "restarting"    -> {"con"}
    [] p = "con"           -> {"health"}
    [] p = "health"        -> {"alive"}
    [] p = "alive"         -> {"others"}
    [] p = "others"        -> {"network"}

LEMMA LoopStep ==
  TypeOK /\ [Next]_vars =>
    /\ pc' = pc \/ pc' \in Onward(pc)
    /\ Network => pc' # pc
    /\ Interrupts => pc' # pc
    /\ Healthy \/ AddressKept \/ AddressLost \/ Others => pc' # pc
  <1> SUFFICES ASSUME TypeOK, [Next]_vars
               PROVE  /\ pc' = pc \/ pc' \in Onward(pc)
                      /\ Network => pc' # pc
                      /\ Interrupts => pc' # pc
                      /\ Healthy \/ AddressKept \/ AddressLost \/ Others => pc' # pc
    OBVIOUS
  <1>1. Network => pc' # pc /\ pc' \in Onward(pc)
    BY DEF Network, NetworkOther, NetworkClosed, NetworkInit, NetworkCloseWait, Disconnected,
           Onward, Requests
  <1>2. Interrupts => pc' # pc /\ pc' \in Onward(pc)
    <2> USE DEF Onward, Requests
    <2>1. NoInterrupt \/ TakeFlag \/ ReadIr \/ RecvNothing => pc' # pc /\ pc' \in Onward(pc)
      BY DEF NoInterrupt, TakeFlag, ReadIr, RecvNothing
    <2>2. Recv => pc' # pc /\ pc' \in Onward(pc)
      BY DEF Recv, TypeOK, SocketTypes, Received
    <2>3. AckSendRecv \/ AckOthers => pc' # pc /\ pc' \in Onward(pc)
      BY DEF AckSendRecv, AckOthers
    <2>4. AnswerRead \/ AnswerSettings \/ AnswerFails \/ Restarted
            => pc' # pc /\ pc' \in Onward(pc)
      BY DEF AnswerRead, AnswerSettings, AnswerFails, Restarted
    <2> QED BY <2>1, <2>2, <2>3, <2>4 DEF Interrupts
  <1>3. Monitors => pc' # pc /\ pc' \in Onward(pc)
    BY DEF Monitors, Healthy, Unhealthy, AddressKept, AddressLost, Others, Reconfigure, Onward
  <1>4. Client \/ W5500 \/ UNCHANGED vars => pc' = pc
    BY DEF Client, Connect, Echo, Leave, Vanish, Ask, W5500, Delivered, ClosedByBoth, TimesOut,
           Glitch, loop, vars
  <1> QED BY <1>1, <1>2, <1>3, <1>4 DEF Next, TcpTask, Monitors

LEMMA ClosingStep ==
  TcpInv /\ [Next]_vars =>
    /\ sr = "CLOSING" => /\ sr' \in {"CLOSING", "CLOSED"}
                         /\ client = "vanished" \/ client \in {"open", "left"}
                         /\ client = "vanished" /\ sr' = "CLOSING" => client' = "vanished"
    /\ ClosedByBoth \/ TimesOut => sr' = "CLOSED"
    /\ sr = "CLOSED" /\ pc \in Waits => sr' = "CLOSED" \/ pc' # pc
  <1> SUFFICES ASSUME TcpInv, [Next]_vars
               PROVE  /\ sr = "CLOSING" =>
                           /\ sr' \in {"CLOSING", "CLOSED"}
                           /\ client = "vanished" \/ client \in {"open", "left"}
                           /\ client = "vanished" /\ sr' = "CLOSING" => client' = "vanished"
                      /\ sr = "CLOSED" /\ pc \in Waits => sr' = "CLOSED" \/ pc' # pc
    BY DEF ClosedByBoth, TimesOut
  <1> USE DEF TcpInv, TypeOK, Phases, ClientInv, PeerTypes, Waits, chip, peer, NoPeer
  <1>1. CASE Client \/ W5500 \/ UNCHANGED vars
    BY <1>1 DEF Client, Connect, Echo, Leave, Vanish, Ask, W5500, Delivered, ClosedByBoth,
                TimesOut, Glitch, loop, vars
  <1>2. CASE Network
    BY <1>2 DEF Network, NetworkOther, NetworkClosed, NetworkInit, NetworkCloseWait,
                Disconnected, Open, Reset
  <1>3. CASE Interrupts
    BY <1>3 DEF Interrupts, NoInterrupt, TakeFlag, ReadIr, AckSendRecv, RecvNothing, Recv,
                AnswerRead, Sent, AnswerSettings, AnswerFails, Restarted, AckOthers, Open, Reset,
                Requests, Connected, CanSend
  <1>4. CASE Monitors
    BY <1>4 DEF Monitors, Healthy, Unhealthy, AddressKept, AddressLost, Others, Reconfigure,
                Reset
  <1> QED BY <1>1, <1>2, <1>3, <1>4 DEF Next, TcpTask

(* A socket that is closing comes to be closed: by the client, or by the   *)
(* time-out when the client has vanished.                                  *)
LEMMA SocketCloses == FairSpec /\ []WhenEnabled => (sr = "CLOSING" ~> sr = "CLOSED")
  <1> DEFINE Closing == sr = "CLOSING"
             Closed == sr = "CLOSED"
             Gone == client = "vanished"
             Here == client \in {"open", "left"}
  <1>1. FairSpec => []TcpInv
    BY TcpInvHolds, PTL DEF FairSpec
  <1>2. TcpInv /\ [Next]_vars =>
          /\ Closing => (Closing' \/ Closed') /\ (Gone \/ Here)
          /\ Closing /\ Gone /\ Closing' => Gone'
          /\ <<ClosedByBoth>>_vars \/ <<TimesOut>>_vars => Closed'
    BY ClosingStep
  <1>3. ~(Closing /\ Closed)
    OBVIOUS
  <1>4. WhenEnabled =>
          /\ Closing /\ Here => ENABLED <<ClosedByBoth>>_vars
          /\ Closing /\ Gone => ENABLED <<TimesOut>>_vars
    BY PTL DEF WhenEnabled
  <1> HIDE DEF Closing, Closed, Gone, Here
  <1>5. FairSpec /\ []WhenEnabled => (Closing ~> Closed)
    BY <1>1, <1>2, <1>3, <1>4, PTL DEF FairSpec, Spec
  <1> QED BY <1>5 DEF Closing, Closed

(* The chip loses its address by a glitch only.                            *)
LEMMA AddressStep == [Next]_vars /\ [~Glitch]_vars /\ ip = "set" => ip' = "set"
  BY DEF Next, TcpTask, Network, NetworkOther, NetworkClosed, NetworkInit, NetworkCloseWait,
         Disconnected, Interrupts, NoInterrupt, TakeFlag, ReadIr, AckSendRecv, RecvNothing,
         Recv, AnswerRead, AnswerSettings, AnswerFails, Restarted, AckOthers, Monitors,
         Healthy, Unhealthy, AddressKept, AddressLost, Others, Reconfigure, Client, Connect,
         Echo, Leave, Vanish, Ask, W5500, Delivered, ClosedByBoth, TimesOut, loop, vars

(* The wait for a socket ends, in disconnect and in w5500_safe_close.      *)
Waiting == pc \in Waits

LEMMA WaitsEnd == FairSpec /\ []WhenEnabled => (Waiting ~> ~Waiting)
  <1> DEFINE Closing == sr = "CLOSING"
             Closed == sr = "CLOSED"
             Dis == pc = "disconnecting"
             Res == pc = "restarting"
  <1>1. FairSpec => []TcpInv
    BY TcpInvHolds, PTL DEF FairSpec
  <1>2. TcpInv /\ [Next]_vars =>
          /\ Dis \/ Res => Closing \/ Closed
          /\ Dis => Dis' \/ (~Dis' /\ ~Res')
          /\ Res => Res' \/ (~Dis' /\ ~Res')
          /\ Closed /\ Dis => Closed' \/ ~Dis'
          /\ Closed /\ Res => Closed' \/ ~Res'
          /\ <<Network>>_vars /\ Dis => ~Dis'
          /\ <<Interrupts>>_vars /\ Res => ~Res'
    BY LoopStep, ClosingStep DEF TcpInv, Phases, Waits, Onward, Requests
  <1>3. WhenEnabled =>
          /\ Dis /\ Closed => ENABLED <<Network>>_vars
          /\ Res /\ Closed => ENABLED <<Interrupts>>_vars
    BY PTL DEF WhenEnabled
  <1>4. FairSpec /\ []WhenEnabled => (Closing ~> Closed)
    BY SocketCloses DEF Closing, Closed
  <1>5. Waiting <=> Dis \/ Res
    BY DEF Waiting, Waits
  <1> HIDE DEF Closing, Closed, Dis, Res
  <1>6. FairSpec /\ []WhenEnabled => (Dis \/ Res ~> ~(Dis \/ Res))
    BY <1>1, <1>2, <1>3, <1>4, PTL DEF FairSpec, Spec
  <1> QED BY <1>5, <1>6, PTL

(* The loop comes round again and again: to the network task, to the       *)
(* interrupts, to the monitors, and on from each.                          *)
LEMMA LoopTurns ==
  FairSpec /\ []WhenEnabled =>
    /\ []<>(pc = "network") /\ []<>~(pc = "network")
    /\ []<>(pc = "interrupts")
    /\ []<>(pc = "alive")
  <1> DEFINE Net == pc = "network"
             Dis == pc = "disconnecting"
             Int == pc = "interrupts"
             Read == pc = "read"
             Ack == pc = "ack"
             Rcv == pc = "recv"
             Req == pc \in Requests
             Res == pc = "restarting"
             Con == pc = "con"
             Hea == pc = "health"
             Ali == pc = "alive"
             Oth == pc = "others"
             Han == pc \in {"interrupts", "read", "ack", "recv", "con"} \cup Requests
             Set == ip = "set"
             Zero == ip = "zero"
             Fair == FairSpec /\ []WhenEnabled
  <1>1. FairSpec => []TcpInv
    BY TcpInvHolds, PTL DEF FairSpec
  <1>2. TcpInv =>
          /\ \/ Net \/ Dis \/ Int \/ Read \/ Ack \/ Rcv \/ Req \/ Res \/ Con \/ Hea \/ Ali \/ Oth
          /\ Set \/ Zero
          /\ Waiting <=> Dis \/ Res
          /\ Ali => ~Net
          /\ Int \/ Read \/ Ack \/ Rcv \/ Con \/ Req => Han
    BY DEF TcpInv, TypeOK, LoopTypes, SocketTypes, Steps, Waits, Waiting
  <1>3. TcpInv /\ [Next]_vars =>
          /\ Net => Net' \/ Dis' \/ Int'
          /\ Dis => Dis' \/ (Int' /\ ~Res')
          /\ Res => Res' \/ (Con' /\ ~Dis')
          /\ <<Network>>_vars => ~(Net /\ Net')
    BY LoopStep DEF TcpInv, Onward, Waiting, Waits, Requests
  <1>4. TcpInv /\ [Next]_vars =>
          /\ Int => Int' \/ Read' \/ Hea'
          /\ Read => Read' \/ Ack'
          /\ Ack => Ack' \/ Rcv' \/ Con'
          /\ Rcv => Rcv' \/ Req' \/ Con' \/ Hea'
          /\ Con => Con' \/ Hea'
          /\ <<Interrupts>>_vars => /\ ~(Int /\ Int') /\ ~(Read /\ Read') /\ ~(Ack /\ Ack')
                                    /\ ~(Rcv /\ Rcv') /\ ~(Con /\ Con')
    BY LoopStep DEF TcpInv, Onward, Requests
  <1>5. TcpInv /\ [Next]_vars =>
          /\ Req => Req' \/ Con' \/ Res'
          /\ <<Interrupts>>_vars => ~(Req /\ Req')
    BY LoopStep DEF TcpInv, Onward, Requests, Interrupts, NoInterrupt, TakeFlag, ReadIr,
                    AckSendRecv, RecvNothing, Recv, AnswerRead, AnswerSettings, AnswerFails,
                    Restarted, AckOthers
  <1>6. TcpInv /\ [Next]_vars =>
          /\ Hea => Hea' \/ Ali'
          /\ Ali => Ali' \/ Oth'
          /\ Oth => Oth' \/ Net'
          /\ <<Healthy>>_vars => ~(Hea /\ Hea')
          /\ <<AddressKept>>_vars => ~(Ali /\ Ali')
          /\ <<AddressLost>>_vars => ~(Ali /\ Ali')
          /\ <<Others>>_vars => ~(Oth /\ Oth')
    BY LoopStep DEF TcpInv, Onward, Requests
  <1>7. TcpInv /\ [Next]_vars /\ [~Glitch]_vars => (Set => Set')
    BY AddressStep
  <1>8. WhenEnabled =>
          /\ Net => ENABLED <<Network>>_vars
          /\ Han => ENABLED <<Interrupts>>_vars
          /\ Hea => ENABLED <<Healthy>>_vars
          /\ Ali /\ Set => ENABLED <<AddressKept>>_vars
          /\ Ali /\ Zero => ENABLED <<AddressLost>>_vars
          /\ Oth => ENABLED <<Others>>_vars
    BY PTL DEF WhenEnabled
  <1> HIDE DEF Net, Dis, Int, Read, Ack, Rcv, Req, Res, Con, Hea, Ali, Oth, Han, Set, Zero
  <1>9. Fair => (Dis ~> Int) /\ (Res ~> Con)
    BY <1>1, <1>2, <1>3, WaitsEnd, PTL DEF FairSpec, Spec
  <1>10. Fair => (Net ~> Dis \/ Int)
    BY <1>1, <1>3, <1>8, PTL DEF FairSpec, Spec
  <1>11. Fair => (Int ~> Read \/ Hea) /\ (Read ~> Ack) /\ (Con ~> Hea)
    BY <1>1, <1>2, <1>4, <1>8, PTL DEF FairSpec, Spec
  <1>11a. Fair => (Ack ~> Rcv \/ Con) /\ (Rcv ~> Req \/ Con \/ Hea)
    BY <1>1, <1>2, <1>4, <1>8, PTL DEF FairSpec, Spec
  <1>12. Fair => (Req ~> Con \/ Res)
    BY <1>1, <1>2, <1>5, <1>8, PTL DEF FairSpec, Spec
  <1>13. Fair => /\ Hea ~> Ali
                 /\ Ali ~> Oth
                 /\ Oth ~> Net
    BY <1>1, <1>2, <1>6, <1>7, <1>8, PTL DEF FairSpec, Spec
  <1>14. Fair => (Con ~> Hea) /\ (Req ~> Hea) /\ (Rcv ~> Hea) /\ (Int ~> Hea)
    BY <1>9, <1>11, <1>11a, <1>12, PTL
  <1>15. Fair => []<>Net /\ []<>Int /\ []<>Ali
    BY <1>1, <1>2, <1>9, <1>10, <1>11, <1>11a, <1>13, <1>14, PTL
  <1> QED BY <1>1, <1>2, <1>15, PTL DEF Net, Int, Ali

(* The waits of the loop for a socket end, so that the alarms, which run   *)
(* in the same loop, are not held up for ever (disconnect,                 *)
(* w5500_safe_close).                                                      *)
THEOREM LoopNeverHangs == FairSpec /\ []WhenEnabled => LoopGoesOn
  <1> QED BY LoopTurns, PTL DEF LoopGoesOn

-----------------------------------------------------------------------------
(* A request is answered.  As long as a client waits on a connection whose *)
(* interrupts reach INTn, what has arrived is read; what is read is a      *)
(* request, for the client echoes once at the most; and a request that is  *)
(* read is answered, or ends the connection.                               *)

Asking == awaiting /\ sr = "ESTABLISHED" /\ simr
AckRecv == pc = "ack" /\ "RECV" \in sn_ir
Nothing == rx = "nothing"
Echoed == rx \in {"echo", "both"}
Requested == rx \in Requests
Answering == pc \in Requests

(* Which action a step is, by where the loop is.                           *)
LEMMA WhichStep ==
  TypeOK /\ [Next]_vars =>
    /\ pc' = pc <=> Client \/ W5500 \/ UNCHANGED vars
    /\ pc' # pc =>
         /\ pc = "interrupts" => NoInterrupt \/ TakeFlag
         /\ pc = "read" => ReadIr
         /\ pc = "ack" => AckSendRecv
         /\ pc = "recv" => RecvNothing \/ Recv
         /\ pc \in Requests => AnswerRead \/ AnswerSettings \/ AnswerFails
         /\ pc = "con" => AckOthers
         /\ pc = "alive" => AddressKept \/ AddressLost
         /\ pc = "network" => Network
         /\ pc = "health" => Healthy \/ Unhealthy
  <1> SUFFICES ASSUME TypeOK, [Next]_vars
               PROVE  /\ pc' = pc <=> Client \/ W5500 \/ UNCHANGED vars
                      /\ pc' # pc =>
                           /\ pc = "interrupts" => NoInterrupt \/ TakeFlag
                           /\ pc = "read" => ReadIr
                           /\ pc = "ack" => AckSendRecv
                           /\ pc = "recv" => RecvNothing \/ Recv
                           /\ pc \in Requests => AnswerRead \/ AnswerSettings \/ AnswerFails
                           /\ pc = "con" => AckOthers
                           /\ pc = "alive" => AddressKept \/ AddressLost
                           /\ pc = "network" => Network
                           /\ pc = "health" => Healthy \/ Unhealthy
    OBVIOUS
  <1>1. Client \/ W5500 \/ UNCHANGED vars => pc' = pc
    BY DEF Client, Connect, Echo, Leave, Vanish, Ask, W5500, Delivered, ClosedByBoth, TimesOut,
           Glitch, loop, vars
  <1>2. Monitors => pc' # pc /\ pc \in {"health", "alive", "others"}
    BY DEF Monitors, Healthy, Unhealthy, AddressKept, AddressLost, Others, Reconfigure
  <1>3. Network => pc' # pc /\ pc \in {"network", "disconnecting"}
    BY DEF Network, NetworkOther, NetworkClosed, NetworkInit, NetworkCloseWait, Disconnected
  <1>4. Interrupts => pc' # pc
    BY LoopStep
  <1>5. CASE Interrupts
    BY <1>1, <1>4, <1>5
       DEF Interrupts, NoInterrupt, TakeFlag, ReadIr, AckSendRecv, RecvNothing, Recv,
           AnswerRead, AnswerSettings, AnswerFails, Restarted, AckOthers, Requests
  <1>6. CASE Monitors
    BY <1>1, <1>2, <1>6
       DEF Monitors, Healthy, Unhealthy, AddressKept, AddressLost, Others, Reconfigure,
           Requests
  <1>7. CASE Network
    BY <1>1, <1>3, <1>7 DEF Requests
  <1> QED BY <1>1, <1>5, <1>6, <1>7 DEF Next, TcpTask

(* What has arrived is read.                                               *)
LEMMA ReadingStep ==
  PinPulses /\ simr /\ TcpInv /\ [Next]_vars =>
    /\ ~Nothing /\ pc = "interrupts" => pc' \in {"interrupts", "read"}
    /\ ~Nothing /\ pc = "read" => pc' = "read" \/ AckRecv'
    /\ AckRecv => AckRecv' \/ pc' = "recv"
    /\ ~Nothing /\ pc = "recv" => pc' = "recv" \/ Nothing'
  <1> SUFFICES ASSUME PinPulses, simr, TcpInv, [Next]_vars
               PROVE  /\ ~Nothing /\ pc = "interrupts" => pc' \in {"interrupts", "read"}
                      /\ ~Nothing /\ pc = "read" => pc' = "read" \/ AckRecv'
                      /\ AckRecv => AckRecv' \/ pc' = "recv"
                      /\ ~Nothing /\ pc = "recv" => pc' = "recv" \/ Nothing'
    OBVIOUS
  <1>1. /\ ~Nothing /\ pc = "interrupts" => flag
        /\ ~Nothing /\ pc = "read" => "RECV" \in ir
    BY DEF TcpInv, ReceivedInv, PinInv, InterruptsAreNotLost, Nothing
  <1>2. CASE pc' = pc
    <2>1. sn_ir' = sn_ir
      BY <1>2, WhichStep
         DEF TcpInv, Client, Connect, Echo, Leave, Vanish, Ask, W5500, Delivered, ClosedByBoth,
             TimesOut, Glitch, loop, vars
    <2> QED BY <1>2, <2>1 DEF AckRecv
  <1>3. CASE pc' # pc
    <2>1. CASE pc = "interrupts"
      BY <1>1, <1>3, <2>1, WhichStep DEF TcpInv, NoInterrupt, TakeFlag, AckRecv
    <2>2. CASE pc = "read"
      BY <1>1, <1>3, <2>2, WhichStep DEF TcpInv, ReadIr, AckRecv
    <2>3. CASE pc = "ack"
      BY <1>3, <2>3, WhichStep DEF TcpInv, AckSendRecv, AckRecv
    <2>4. CASE pc = "recv"
      BY <1>3, <2>4, WhichStep DEF TcpInv, RecvNothing, Recv, Nothing, AckRecv
    <2> QED BY <2>1, <2>2, <2>3, <2>4 DEF AckRecv
  <1> QED BY <1>2, <1>3

(* What arrives, while the client waits on its connection: one request     *)
(* until it is read, and an echo only as long as there is one to come.     *)
Arrivals ==
  /\ Requested => Requested' \/ Answering'
  /\ Answering => Answering'
  /\ Echoed => Echoed' \/ Nothing'
  /\ Nothing => Nothing' \/ Requested' \/ (Echoed' /\ echo /\ ~echo')
  /\ ~KickPending => ~KickPending' /\ (~echo => ~echo')

LEMMA ArrivalStep == TcpInv /\ [Next]_vars /\ Asking /\ Asking' => Arrivals
  <1> SUFFICES ASSUME TcpInv, [Next]_vars, Asking, Asking' PROVE Arrivals
    OBVIOUS
  <1>1. rx \in Received /\ Received = Requests \cup {"nothing", "echo", "both"}
    BY DEF TcpInv, TypeOK, SocketTypes, Received
  <1>2. (/\ rx' = rx /\ (echo' => echo)
         /\ "CON" \in ir' => "CON" \in ir
         /\ pc' \in Handling /\ "CON" \in sn_ir' => KickPending
         /\ Answering => Answering')
        => Arrivals
    BY <1>1 DEF Arrivals, Requested, Echoed, Nothing, KickPending
  <1>3. CASE pc' = pc
    <2>0. CASE Client \/ W5500
      <3>1. CASE Connect \/ Leave \/ Vanish
        BY <3>1 DEF Asking, Connect, Leave, Vanish
      <3>2. CASE Echo
        <4>1. UNCHANGED <<pc, sn_ir>> /\ ("CON" \in ir' => "CON" \in ir) /\ ~echo' /\ echo
          BY <3>2 DEF Echo, loop, Raise
        <4>2. rx' = IF rx = "nothing" THEN "echo" ELSE rx
          BY <3>2 DEF Echo
        <4> QED BY <1>1, <4>1, <4>2
                DEF Arrivals, Requested, Echoed, Nothing, KickPending, Answering, Requests
      <3>3. CASE \E kind \in Requests : Ask(kind)
        <4>1. UNCHANGED <<pc, sn_ir, echo>> /\ ("CON" \in ir' => "CON" \in ir)
          BY <3>3 DEF Ask, loop, Raise
        <4>2. \/ rx = "nothing" /\ rx' \in Requests
              \/ rx = "echo" /\ rx' = "both"
          BY <3>3 DEF Ask
        <4> QED BY <1>1, <4>1, <4>2
                DEF Arrivals, Requested, Echoed, Nothing, KickPending, Answering, Requests
      <3>4. CASE Delivered
        BY <1>2, <3>4 DEF Delivered, loop, Raise, peer, KickPending, Answering
      <3>5. CASE Glitch
        BY <1>2, <3>5 DEF Asking, Glitch, chip, peer, KickPending, Answering
      <3> QED BY <2>0, <3>1, <3>2, <3>3, <3>4, <3>5
              DEF Client, W5500, ClosedByBoth, TimesOut, Asking
    <2>1. CASE UNCHANGED vars
      BY <1>2, <2>1 DEF vars, chip, peer, KickPending, Answering
    <2> QED BY <1>3, <2>0, <2>1, WhichStep DEF TcpInv
  <1>4. CASE pc' # pc
    <2>1. CASE Network
      BY <1>2, <2>1
         DEF Network, NetworkOther, NetworkClosed, NetworkInit, NetworkCloseWait, Disconnected,
             Asking, chip, peer, Handling, Requests, Answering
    <2>2. CASE Interrupts
      <3>1. CASE NoInterrupt \/ TakeFlag \/ ReadIr \/ RecvNothing
        BY <1>2, <3>1 DEF NoInterrupt, TakeFlag, ReadIr, RecvNothing, chip, peer, Handling,
                          Requests, Answering, KickPending
      <3>2. CASE Recv
        BY <1>1, <3>2 DEF Recv, peer, Handling, Requests, Answering, KickPending, Arrivals,
                          Requested, Echoed, Nothing
      <3>3. CASE AckSendRecv
        BY <1>2, <3>3 DEF AckSendRecv, Clear, peer, Handling, Requests, Answering, KickPending
      <3>4. CASE AnswerRead \/ AnswerSettings
        BY <3>4 DEF AnswerRead, AnswerSettings, Reset, NoPeer, Asking
      <3>5. CASE AnswerFails \/ Restarted
        BY <3>5 DEF AnswerFails, Restarted, Asking, Connected
      <3>6. CASE AckOthers
        <4>1. rx' = rx /\ UNCHANGED sn_ir /\ pc = "con" /\ pc' = "health"
              /\ (echo' => echo \/ "CON" \in sn_ir) /\ ("CON" \in ir' => "CON" \in ir)
          BY <3>6 DEF AckOthers, Clear
        <4> QED BY <1>1, <4>1 DEF Arrivals, Requested, Echoed, Nothing, KickPending, Answering,
                                  Handling, Requests
      <3> QED BY <2>2, <3>1, <3>2, <3>3, <3>4, <3>5, <3>6 DEF Interrupts
    <2>3. CASE Monitors
      BY <1>2, <2>3 DEF Monitors, Healthy, Unhealthy, AddressKept, AddressLost, Others,
                        Reconfigure, Reset, NoPeer, Asking, chip, peer, Handling, Requests,
                        Answering
    <2> QED BY <1>4, <2>1, <2>2, <2>3, WhichStep DEF TcpInv, Next, TcpTask
  <1> QED BY <1>3, <1>4

(* While a client waits on its connection, the loop goes on to read what   *)
(* has arrived.                                                            *)
LEMMA ArrivedIsRead ==
  ASSUME PinPulses
  PROVE  FairSpec /\ []WhenEnabled => ([]<>Nothing \/ []<>~simr)
  <1> DEFINE Int == pc = "interrupts"
             Read == pc = "read"
             Rcv == pc = "recv"
             Han == pc \in {"interrupts", "read", "ack", "recv", "con"} \cup Requests
  <1>1. FairSpec => []TcpInv
    BY TcpInvHolds, PTL DEF FairSpec
  <1>2. TcpInv /\ [Next]_vars /\ simr =>
          /\ ~Nothing /\ Int => Int' \/ Read'
          /\ ~Nothing /\ Read => Read' \/ AckRecv'
          /\ AckRecv => AckRecv' \/ Rcv'
          /\ ~Nothing /\ Rcv => Rcv' \/ Nothing'
    BY ReadingStep
  <1>3. TcpInv /\ [Next]_vars =>
          /\ <<Interrupts>>_vars => ~(Int /\ Int') /\ ~(Read /\ Read') /\ ~(Rcv /\ Rcv')
                                    /\ ~(AckRecv /\ AckRecv')
    BY LoopStep DEF TcpInv, AckRecv
  <1>4. WhenEnabled => (Han => ENABLED <<Interrupts>>_vars)
    BY PTL DEF WhenEnabled
  <1>5. Int \/ Read \/ AckRecv \/ Rcv => Han
    BY DEF AckRecv
  <1>6. FairSpec /\ []WhenEnabled => []<>Int
    BY LoopTurns
  <1> HIDE DEF Int, Read, Rcv, Han
  <1> QED BY <1>1, <1>2, <1>3, <1>4, <1>5, <1>6, PTL DEF FairSpec, Spec

(* Whoever asks is answered, or loses its connection, unless it is silent, *)
(* provided INTn pulses (W5500_Process_Interrupts).                        *)
THEOREM RequestsGetAnswers ==
  ASSUME PinPulses
  PROVE  FairSpec /\ []WhenEnabled => RequestsAnswered
  <1> DEFINE Closing == sr = "CLOSING"
             Closed == sr = "CLOSED"
             Quiet == ~echo
             Int == pc = "interrupts"
             Fair == FairSpec /\ []WhenEnabled
  <1>1. FairSpec => []TcpInv
    BY TcpInvHolds, PTL DEF FairSpec
  <1>2. TcpInv =>
          /\ Closed => ~awaiting
          /\ awaiting => Asking \/ Closing \/ Silent
          /\ Asking => simr
          /\ KickPending => Quiet /\ ~Echoed
          /\ Nothing \/ Requested \/ Echoed
          /\ ~(Nothing /\ Requested)
          /\ Answering => ~Int
    BY DEF TcpInv, TypeOK, SocketTypes, Received, ClientInv, KickInv, Connected, Asking,
           Silent, Nothing, Requested, Echoed, Answering, Requests
  <1>3. TcpInv /\ [Next]_vars /\ Asking /\ Asking' =>
          /\ Requested => Requested' \/ Answering'
          /\ Answering => Answering'
          /\ Echoed => Echoed' \/ Nothing'
          /\ Nothing => Nothing' \/ Requested' \/ (Echoed' /\ ~Quiet /\ Quiet')
          /\ ~KickPending => ~KickPending' /\ (Quiet => Quiet')
    BY ArrivalStep DEF Arrivals
  <1>4. <<AskAgain>>_vars => ~Nothing \/ Requested'
    BY DEF AskAgain, Ask, Nothing, Requested
  <1>5. WhenEnabled => (Asking /\ Nothing => ENABLED <<AskAgain>>_vars)
    <2>1. Asking /\ rx \in {"nothing", "echo"}
            => awaiting /\ sr = "ESTABLISHED" /\ rx \in {"nothing", "echo"}
      BY DEF Asking
    <2>2. Nothing => rx \in {"nothing", "echo"}
      BY DEF Nothing
    <2> QED BY <2>1, <2>2, PTL DEF WhenEnabled
  <1>6. Fair => ([]<>Nothing \/ []<>~simr) /\ (Closing ~> Closed) /\ []<>Int
    BY ArrivedIsRead, SocketCloses, LoopTurns, PTL DEF Closing, Closed, Int
  <1> HIDE DEF Closing, Closed, Quiet, Int
  <1>7. Fair => (<>[](awaiting /\ ~Silent) => <>[]Asking)
    BY <1>1, <1>2, <1>6, PTL DEF FairSpec, Spec
  <1>8. Fair => (<>[]Asking => <>[]~Answering)
    BY <1>1, <1>2, <1>3, <1>6, PTL DEF FairSpec, Spec
  <1>9. Fair => (<>[]Asking => <>[]~Requested)
    BY <1>1, <1>2, <1>3, <1>6, <1>8, PTL DEF FairSpec, Spec
  <1>10. Fair => (<>[]Asking => <>[]KickPending \/ <>[]~KickPending)
    BY <1>1, <1>3, PTL DEF FairSpec, Spec
  <1>11. Fair => (<>[]Asking /\ <>[]KickPending => <>[]Nothing)
    BY <1>1, <1>2, <1>9, PTL DEF FairSpec, Spec
  <1>12. Fair => (<>[]Asking /\ <>[]~KickPending => <>[]Nothing)
    <2>1. Fair => (<>[]Asking /\ <>[]~KickPending => <>[]Quiet \/ <>[]~Quiet)
      BY <1>1, <1>3, PTL DEF FairSpec, Spec
    <2>2. Fair => (<>[]Asking /\ (<>[]Quiet \/ <>[]~Quiet) => <>[]Nothing)
      BY <1>1, <1>2, <1>3, <1>6, <1>9, PTL DEF FairSpec, Spec
    <2> QED BY <2>1, <2>2, PTL
  <1>13. Fair => ~<>[](awaiting /\ ~Silent)
    BY <1>1, <1>2, <1>4, <1>5, <1>7, <1>9, <1>10, <1>11, <1>12, PTL DEF FairSpec, Spec
  <1> QED BY <1>13, PTL DEF RequestsAnswered

-----------------------------------------------------------------------------
(* The server listens again.  From the moment a client is gone its socket  *)
(* goes one way only, from connected to closing, closed, open and          *)
(* listening, and each stage ends: a connection whose client vanished by   *)
(* the chip's time-out, once the kickstart packet has made it probe, and   *)
(* one that the client closed by the network task, unless disconnect_sent  *)
(* is set already.                                                         *)

Linked == sr \in Connected
Left == client \in {"left", "vanished"}
Listening == sr = "LISTEN"
MarkStale == (disconnect_sent /\ Linked) \/ Silent
Going == sr \in {"CLOSING", "CLOSED", "INIT"} \/ (Linked /\ Left)
Departing == Going /\ ~Listening /\ ~MarkStale

LEMMA SocketStep ==
  TcpInv /\ [Next]_vars =>
    /\ Linked' => Listening \/ (Linked /\ (Left => Left') /\ (armed => armed'))
    /\ sr' = "CLOSING" => Linked \/ sr = "CLOSING"
    /\ sr = "ESTABLISHED" /\ sr' = "CLOSE_WAIT" => client = "open"
    /\ sr = "CLOSE_WAIT" => sr' # "ESTABLISHED"
    /\ [~Glitch]_vars /\ ip = "set" /\ sr = "INIT" => sr' \in {"INIT", "LISTEN"}
  <1> SUFFICES ASSUME TcpInv, [Next]_vars
      PROVE  /\ Linked' => Listening \/ (Linked /\ (Left => Left') /\ (armed => armed'))
             /\ sr' = "CLOSING" => Linked \/ sr = "CLOSING"
             /\ sr = "ESTABLISHED" /\ sr' = "CLOSE_WAIT" => client = "open"
             /\ sr = "CLOSE_WAIT" => sr' # "ESTABLISHED"
             /\ [~Glitch]_vars /\ ip = "set" /\ sr = "INIT" => sr' \in {"INIT", "LISTEN"}
    OBVIOUS
  <1> USE DEF Linked, Left, Listening, Connected, chip, peer
  <1>1. CASE Client
    BY <1>1 DEF Client, Connect, Ask, Echo, Leave, Vanish
  <1>2. CASE Delivered \/ ClosedByBoth \/ TimesOut
    BY <1>2 DEF Delivered, ClosedByBoth, TimesOut, TcpInv, ClientInv, Connected
  <1>3. CASE Glitch
    BY <1>3 DEF Glitch, vars
  <1>4. CASE Network
    BY <1>4 DEF Network, NetworkOther, NetworkClosed, NetworkInit, NetworkCloseWait,
                Disconnected, Open, Reset
  <1>5. CASE Interrupts
    <2>1. CASE NoInterrupt \/ TakeFlag \/ ReadIr \/ AckSendRecv \/ RecvNothing \/ Recv
      BY <2>1 DEF NoInterrupt, TakeFlag, ReadIr, AckSendRecv, RecvNothing, Recv
    <2>2. CASE AnswerRead \/ AnswerSettings \/ AnswerFails \/ AckOthers
      BY <2>2 DEF AnswerRead, AnswerSettings, AnswerFails, AckOthers, Sent, Reset, CanSend
    <2>3. CASE Restarted
      BY <2>3 DEF Restarted, Open, Reset
    <2> QED BY <1>5, <2>1, <2>2, <2>3 DEF Interrupts
  <1>6. CASE Monitors
    BY <1>6 DEF Monitors, Healthy, Unhealthy, AddressKept, AddressLost, Others, Reconfigure,
                Reset
  <1>7. CASE UNCHANGED vars
    BY <1>7 DEF vars
  <1> QED BY <1>1, <1>2, <1>3, <1>4, <1>5, <1>6, <1>7 DEF Next, TcpTask, W5500

(* What the loop does for a socket whose client is gone.                   *)
LEMMA DepartStep ==
  TcpInv /\ [Next]_vars /\ Departing =>
    /\ Departing' \/ Listening' \/ MarkStale'
    /\ pc = "network" /\ pc' # pc => /\ sr # "CLOSE_WAIT" \/ ~Linked'
                                     /\ sr = "CLOSED" /\ ip = "set" => sr' = "INIT"
                                     /\ sr = "INIT" => Listening'
    /\ ip = "zero" /\ pc = "alive" /\ pc' # pc => ip' = "set"
  <1> SUFFICES ASSUME TcpInv, [Next]_vars, Departing
      PROVE  /\ Departing' \/ Listening' \/ MarkStale'
             /\ pc = "network" /\ pc' # pc => /\ sr # "CLOSE_WAIT" \/ ~Linked'
                                              /\ sr = "CLOSED" /\ ip = "set" => sr' = "INIT"
                                              /\ sr = "INIT" => Listening'
             /\ ip = "zero" /\ pc = "alive" /\ pc' # pc => ip' = "set"
    OBVIOUS
  <1>1. Departing' \/ Listening' \/ MarkStale'
    <2>1. sr' \in {"CLOSED", "INIT", "LISTEN", "CLOSING"} \/ Linked'
      BY SocketTypesStep DEF TcpInv, TypeOK, SocketTypes, Linked
    <2>2. Linked' => Left'
      BY SocketStep DEF Departing, Going, Linked, Connected
    <2> QED BY <2>1, <2>2 DEF Departing, Going, Listening
  <1>2. pc = "network" /\ pc' # pc =>
          /\ sr # "CLOSE_WAIT" \/ ~Linked'
          /\ sr = "CLOSED" /\ ip = "set" => sr' = "INIT"
          /\ sr = "INIT" => Listening'
    BY WhichStep DEF TcpInv, Departing, MarkStale, Linked, Listening, Connected, Network,
                     NetworkOther, NetworkClosed, NetworkInit, NetworkCloseWait,
                     Disconnected, Open, Reset
  <1>3. ip = "zero" /\ pc = "alive" /\ pc' # pc => ip' = "set"
    BY WhichStep DEF TcpInv, AddressKept, AddressLost
  <1> QED BY <1>1, <1>2, <1>3

(* The kickstart packet of a connection that has not been sent on is on    *)
(* its way: the handler is about to see the bit, or has it in its copy.    *)
Kicking == pc \in Handling /\ "CON" \in sn_ir
Fresh == sr = "ESTABLISHED" /\ ~armed

LEMMA KickArrives ==
  PinPulses /\ simr /\ TcpInv /\ [Next]_vars /\ Fresh /\ Linked' =>
    /\ pc = "interrupts" => pc' \in {"interrupts", "read"}
    /\ pc = "read" => pc' = "read" \/ Kicking'
    /\ Kicking => Kicking' \/ armed'
  <1> SUFFICES ASSUME PinPulses, simr, TcpInv, [Next]_vars, Fresh, Linked'
               PROVE  /\ pc = "interrupts" => pc' \in {"interrupts", "read"}
                      /\ pc = "read" => pc' = "read" \/ Kicking'
                      /\ Kicking => Kicking' \/ armed'
    OBVIOUS
  <1>1. "CON" \in ir /\ ~sending
    BY DEF TcpInv, SendInv, KeepAliveIsArmed, Fresh, Connected
  <1>2. CASE pc' = pc
    <2>1. sn_ir' = sn_ir
      BY <1>2, WhichStep
         DEF TcpInv, Client, Connect, Echo, Leave, Vanish, Ask, W5500, Delivered, ClosedByBoth,
             TimesOut, Glitch, loop, vars
    <2> QED BY <1>2, <2>1 DEF Kicking
  <1>3. CASE pc' # pc
    <2>1. CASE pc = "interrupts"
      BY <1>1, <1>3, <2>1, WhichStep
         DEF TcpInv, PinInv, InterruptsAreNotLost, NoInterrupt, TakeFlag, Kicking, Handling,
             Requests
    <2>2. CASE pc = "read"
      BY <1>1, <1>3, <2>2, WhichStep DEF TcpInv, ReadIr, Kicking, Handling, Requests
    <2>3. CASE pc = "ack"
      BY <1>3, <2>3, WhichStep DEF TcpInv, AckSendRecv, Kicking, Handling
    <2>4. CASE pc = "recv" /\ Kicking
      <3>1. rx # "echo"
        BY <2>4 DEF TcpInv, KickInv, KickPending, Kicking
      <3> QED BY <1>3, <2>4, <3>1, WhichStep
              DEF TcpInv, TypeOK, SocketTypes, Received, RecvNothing, Recv, Kicking, Handling
    <2>5. CASE pc \in Requests
      BY <1>3, <2>5, WhichStep
         DEF TcpInv, AnswerRead, AnswerSettings, AnswerFails, Sent, Reset, Linked, Connected,
             Kicking
    <2>6. CASE pc = "con"
      BY <1>1, <1>3, <2>6, WhichStep
         DEF TcpInv, AckOthers, CanSend, Kicking, Fresh, Connected
    <2>7. pc # "restarting"
      BY DEF TcpInv, Phases, Fresh, Waits
    <2> QED BY <2>1, <2>2, <2>3, <2>4, <2>5, <2>6, <2>7 DEF Kicking, Handling
  <1> QED BY <1>2, <1>3

(* A connection whose client has vanished comes to be one the chip probes, *)
(* or ends.                                                                *)
LEMMA ConnectionIsProbed ==
  ASSUME PinPulses
  PROVE  FairSpec /\ []WhenEnabled => ~<>[](Fresh /\ Linked /\ simr)
  <1> DEFINE Int == pc = "interrupts"
             Read == pc = "read"
             Han == pc \in {"interrupts", "read", "ack", "recv", "con"} \cup Requests
             Both == Fresh /\ Linked /\ simr
  <1>1. FairSpec => []TcpInv
    BY TcpInvHolds, PTL DEF FairSpec
  <1>2. TcpInv /\ [Next]_vars /\ Both /\ Both' =>
          /\ Int => Int' \/ Read'
          /\ Read => Read' \/ Kicking'
          /\ Kicking => Kicking'
    BY KickArrives DEF Fresh
  <1>3. TcpInv /\ [Next]_vars => (<<Interrupts>>_vars => ~(Int /\ Int') /\ ~(Read /\ Read'))
    BY LoopStep DEF TcpInv
  <1>4. WhenEnabled => (Han => ENABLED <<Interrupts>>_vars)
    BY PTL DEF WhenEnabled
  <1>5. (Int \/ Read => Han) /\ (Kicking => ~Int)
    BY DEF Kicking, Handling, Requests
  <1>6. FairSpec /\ []WhenEnabled => []<>Int
    BY LoopTurns
  <1> HIDE DEF Int, Read, Han
  <1> QED BY <1>1, <1>2, <1>3, <1>4, <1>5, <1>6, PTL DEF FairSpec, Spec

(* Whatever disturbs the server, a client that leaves or vanishes gives    *)
(* its place to another, unless a disconnect_sent set before outlives its  *)
(* socket (W5500_Network_Task) or the connection is silent, provided INTn  *)
(* pulses.                                                                 *)
THEOREM PlaceIsGivenOn ==
  ASSUME PinPulses
  PROVE  FairSpec /\ []WhenEnabled => ListensUnlessMarkStale
  <1> DEFINE Closing == sr = "CLOSING"
             Closed == sr = "CLOSED"
             Up == sr = "INIT"
             Est == sr = "ESTABLISHED"
             Wait == sr = "CLOSE_WAIT"
             Gone == client = "vanished"
             Set == ip = "set"
             Zero == ip = "zero"
             Net == pc = "network"
             Ali == pc = "alive"
             Fair == FairSpec /\ []WhenEnabled
  <1>1. FairSpec => []TcpInv
    BY TcpInvHolds, PTL DEF FairSpec
  <1>2. TcpInv =>
          /\ Left => Departing \/ Listening \/ MarkStale
          /\ Departing => Closing \/ Closed \/ Up \/ (Linked /\ ((Est /\ Gone) \/ Wait))
          /\ Est \/ Wait => Linked
          /\ Linked => ~Closing /\ ~Closed /\ ~Up
          /\ ~(Closing /\ Closed) /\ ~(Closed /\ Up) /\ ~(Closing /\ Up) /\ ~(Est /\ Wait)
          /\ Est /\ ~armed => Fresh
          /\ Set \/ Zero
          /\ Departing => ~Listening /\ ~MarkStale
          /\ ~(Net /\ Ali)
    BY DEF TcpInv, TypeOK, SocketTypes, PeerTypes, ClientInv, Left, Departing, Going, Listening,
           MarkStale, Silent, Linked, Connected, Fresh
  <1>2a. Departing /\ Est => simr
    BY DEF Departing, MarkStale, Silent
  <1>3. TcpInv /\ [Next]_vars /\ Departing =>
          /\ Departing' \/ Listening' \/ MarkStale'
          /\ ~Linked => ~Linked'
          /\ Closing' => Linked \/ Closing
          /\ Est /\ Gone => ~Wait'
          /\ Wait => ~Est'
          /\ Linked' => (armed => armed')
          /\ Net /\ ~Net' => /\ ~Wait \/ ~Linked'
                             /\ Closed /\ Set => Up'
                             /\ Up => Listening'
          /\ Zero /\ Ali => Ali' \/ Set'
    BY SocketStep, DepartStep DEF Departing, Listening
  <1>4. TcpInv /\ [Next]_vars /\ [~Glitch]_vars =>
          /\ Set => Set'
          /\ Set /\ Up => Up' \/ Listening'
    BY AddressStep, SocketStep DEF Listening
  <1>5. <<TimesOut>>_vars => Closed'
    BY DEF TimesOut
  <1>6. WhenEnabled => (Gone /\ armed => ENABLED <<TimesOut>>_vars)
    <2>1. WhenEnabled => (Gone /\ (sr = "CLOSING" \/ armed) => ENABLED <<TimesOut>>_vars)
      BY PTL DEF WhenEnabled
    <2> QED BY <2>1, PTL
  <1>7. Fair => (Closing ~> Closed) /\ []<>Net /\ []<>~Net /\ []<>Ali
    BY SocketCloses, LoopTurns, PTL DEF Closing, Closed, Net, Ali
  <1>8. Fair => ~<>[](Fresh /\ Linked /\ simr)
    BY ConnectionIsProbed
  <1> HIDE DEF Closing, Closed, Up, Est, Wait, Gone, Set, Zero, Net, Ali
  <1>9. Fair => (<>[]Departing => <>[]Set)
    BY <1>1, <1>2, <1>3, <1>4, <1>7, PTL DEF FairSpec, Spec
  <1>10. Fair => (<>[]Departing => <>[]Linked \/ <>[]~Linked)
    BY <1>1, <1>3, PTL DEF FairSpec, Spec
  <1>11. Fair => (<>[]Departing /\ <>[]Linked => <>[](Est /\ Gone) \/ <>[]Wait)
    BY <1>1, <1>2, <1>3, PTL DEF FairSpec, Spec
  <1>12. Fair => (<>[]Departing /\ <>[]Linked => ~<>[]Wait)
    BY <1>1, <1>2, <1>3, <1>7, PTL DEF FairSpec, Spec
  <1>13. Fair => (<>[]Departing /\ <>[]Linked => ~<>[](Est /\ Gone))
    <2>1. Fair => (<>[]Departing /\ <>[]Linked => <>[]armed \/ <>[]~armed)
      BY <1>1, <1>3, PTL DEF FairSpec, Spec
    <2>2. Fair => (<>[]Departing /\ <>[]Linked /\ <>[](Est /\ Gone) => ~<>[]~armed)
      BY <1>1, <1>2, <1>2a, <1>8, PTL DEF FairSpec, Spec
    <2>3. Fair => (<>[]Linked /\ <>[](Est /\ Gone) => ~<>[]armed)
      BY <1>1, <1>2, <1>5, <1>6, PTL DEF FairSpec, Spec
    <2> QED BY <2>1, <2>2, <2>3, PTL
  <1>14. Fair => (<>[]Departing => <>[]Up \/ <>[]Closed)
    <2>1. Fair => (<>[]Departing => <>[]~Linked)
      BY <1>10, <1>11, <1>12, <1>13, PTL
    <2>2. Fair => (<>[]Departing => <>[](Closed \/ Up))
      BY <1>1, <1>2, <1>3, <1>7, <2>1, PTL DEF FairSpec, Spec
    <2>3. Fair => (<>[](Closed \/ Up) /\ <>[]Departing => <>[]Up \/ <>[]Closed)
      BY <1>1, <1>2, <1>4, <1>9, PTL DEF FairSpec, Spec
    <2> QED BY <2>2, <2>3, PTL
  <1>15. Fair => ~<>[]Departing
    BY <1>1, <1>2, <1>3, <1>7, <1>9, <1>14, PTL DEF FairSpec, Spec
  <1>16. Fair => (Left ~> Listening \/ MarkStale)
    BY <1>1, <1>2, <1>3, <1>15, PTL DEF FairSpec, Spec
  <1>17. /\ client \in {"left", "vanished"} <=> Left
         /\ Listening \/ MarkStale
              <=> sr = "LISTEN" \/ (disconnect_sent /\ sr \in Connected) \/ Silent
    BY DEF Left, Listening, MarkStale, Linked
  <1> QED BY <1>16, <1>17, PTL DEF ListensUnlessMarkStale
=============================================================================
