------------------------------ MODULE TcpServer ------------------------------
(***************************************************************************)
(* The Modbus TCP server (tcp_server.c) on socket 0 of the W5500: the      *)
(* superloop's tcp_task, the interrupt pin, one client, and what disturbs  *)
(* them.  tcp_task yields wherever the chip or the client can act between  *)
(* two of its accesses.                                                    *)
(*                                                                         *)
(* W5500 and client, modelled from how the code uses them: the socket's    *)
(* interrupt bits hold INTn low; the port pin sees falling edges only.     *)
(* PinPulses says whether INTn rises for a moment when a bit is cleared    *)
(* and others stay set (INTLEVEL, left at its reset value).                *)
(*                                                                         *)
(* A client has one request outstanding, asks again when no answer comes,  *)
(* and closes its side when the server does; it may leave or vanish.       *)
(***************************************************************************)
EXTENDS Naturals

CONSTANTS Faults,          \* {"settings", "spi", "glitch"} or some of them
          PinPulses,
          RetryMod         \* Spi_Retry is a uint8_t: 256 in the code

ASSUME FaultsAssumption == Faults \subseteq {"settings", "spi", "glitch"}
ASSUME PulsesAssumption == PinPulses \in BOOLEAN
ASSUME RetryAssumption == RetryMod \in Nat /\ RetryMod > 3

VARIABLES
  sr, ir,                  \* Sn_SR and Sn_IR
  rx,                      \* received and not yet read: a request, an echo, both
  tx,                      \* sent and not yet acknowledged by the client
  ip,                      \* SIPR: "set" or "zero"
  simr,                    \* SIMR lets the interrupts of the socket through to INTn
  flag,                    \* W5500_Process_Interrupts_flag
  sending,                 \* sock_is_sending
  disconnect_sent,
  Spi_Retry,
  pc, sn_ir,               \* where tcp_task is, and its copy of Sn_IR
  client,                  \* "away", "open", "left" or "vanished"
  awaiting,                \* the client waits for an answer
  echo,                    \* the client may echo the kickstart packet
  armed                    \* the server has sent on this connection

chip == <<sr, ir, rx, tx>>
common == <<ip, simr>>
peer == <<client, awaiting, echo, armed>>
vars == <<chip, common, flag, sending, disconnect_sent, Spi_Retry, pc, sn_ir, peer>>

Requests == {"read request", "new settings"}
Bits == {"CON", "DISCON", "RECV", "TIMEOUT", "SENDOK"}
Connected == {"ESTABLISHED", "CLOSE_WAIT"}

Init ==
  /\ sr = "INIT" /\ ir = {} /\ rx = "nothing" /\ tx = FALSE
  /\ ip = "set" /\ simr = TRUE
  /\ flag = FALSE /\ sending = FALSE /\ disconnect_sent = FALSE /\ Spi_Retry = 0
  /\ pc = "network" /\ sn_ir = {}
  /\ client = "away" /\ awaiting = FALSE /\ echo = FALSE /\ armed = FALSE

Raise(bits) == ir' = ir \cup bits /\ flag' = (flag \/ (simr /\ ir = {}))

Clear(bits) ==
  /\ ir' = ir \ bits
  /\ flag' = (flag \/ (simr /\ PinPulses /\ ir \cap bits # {} /\ ir' # {}))

NoPeer == client' = "away" /\ awaiting' = FALSE /\ echo' = FALSE /\ armed' = FALSE

(* The socket is closed and all its interrupts are cleared.                *)
Reset(status) ==
  /\ sr' = status /\ ir' = {} /\ rx' = "nothing" /\ tx' = FALSE /\ sending' = FALSE
  /\ NoPeer

(* socket() refuses while the chip has no address.                         *)
Open(status) ==
  IF ip = "set" THEN Reset(status) ELSE UNCHANGED <<chip, sending, peer>>

-----------------------------------------------------------------------------
(* The client and the chip.                                                *)

loop == <<common, sending, disconnect_sent, Spi_Retry, pc, sn_ir>>

Connect ==
  /\ sr = "LISTEN" /\ client = "away"
  /\ sr' = "ESTABLISHED" /\ client' = "open"
  /\ Raise({"CON"})
  /\ UNCHANGED <<rx, tx, loop, awaiting, echo, armed>>

Ask(kind) ==               \* a request, or the same one again
  /\ sr = "ESTABLISHED" /\ client = "open" /\ rx \in {"nothing", "echo"}
  /\ rx' = IF rx = "echo" THEN "both" ELSE kind
  /\ awaiting' = TRUE
  /\ Raise({"RECV"})
  /\ UNCHANGED <<sr, tx, loop, client, echo, armed>>

Echo ==
  /\ echo /\ sr = "ESTABLISHED" /\ client = "open"
  /\ rx' = IF rx = "nothing" THEN "echo" ELSE rx
  /\ echo' = FALSE
  /\ Raise({"RECV"})
  /\ UNCHANGED <<sr, tx, loop, client, awaiting, armed>>

Leave ==
  /\ sr = "ESTABLISHED" /\ client = "open"
  /\ sr' = "CLOSE_WAIT" /\ client' = "left" /\ awaiting' = FALSE
  /\ Raise({"DISCON"})
  /\ UNCHANGED <<rx, tx, loop, echo, armed>>

Vanish ==
  /\ client \in {"open", "left"}
  /\ client' = "vanished" /\ awaiting' = FALSE
  /\ UNCHANGED <<chip, flag, loop, echo, armed>>

Delivered ==
  /\ tx /\ client \in {"open", "left"}
  /\ tx' = FALSE
  /\ Raise({"SENDOK"})
  /\ UNCHANGED <<sr, rx, loop, peer>>

ClosedByBoth ==
  /\ sr = "CLOSING" /\ client \in {"open", "left"}
  /\ sr' = "CLOSED" /\ rx' = "nothing" /\ tx' = FALSE
  /\ Raise({"DISCON"}) /\ NoPeer
  /\ UNCHANGED loop

(* Retransmissions or keep-alive find the client gone.  The chip probes a  *)
(* connection only after the server has sent on it.                        *)
TimesOut ==
  /\ client = "vanished"
  /\ sr = "CLOSING" \/ armed
  /\ sr' = "CLOSED" /\ rx' = "nothing" /\ tx' = FALSE
  /\ Raise({"TIMEOUT"}) /\ NoPeer
  /\ UNCHANGED loop

(* A glitch of the supply: the address, or all registers, are lost.        *)
Glitch ==
  /\ "glitch" \in Faults
  /\ ip' = "zero"
  /\ \/ UNCHANGED <<chip, simr, peer>>
     \/ simr' = FALSE
        /\ sr' = "CLOSED" /\ ir' = {} /\ rx' = "nothing" /\ tx' = FALSE /\ NoPeer
  /\ UNCHANGED <<flag, sending, disconnect_sent, Spi_Retry, pc, sn_ir>>

-----------------------------------------------------------------------------
(* W5500_Network_Task                                                      *)

NetworkOther ==
  /\ pc = "network"
  /\ \/ sr \notin {"CLOSED", "INIT", "CLOSE_WAIT"}
     \/ sr = "CLOSE_WAIT" /\ disconnect_sent
  /\ pc' = "interrupts"
  /\ UNCHANGED <<chip, common, flag, sending, disconnect_sent, Spi_Retry, sn_ir, peer>>

NetworkClosed ==           \* modbus_tcp_server_init
  /\ pc = "network" /\ sr = "CLOSED"
  /\ disconnect_sent' = FALSE
  /\ Open("INIT")
  /\ simr' = TRUE /\ flag' = (flag \/ (~simr /\ ir' # {}))
  /\ pc' = "interrupts"
  /\ UNCHANGED <<ip, Spi_Retry, sn_ir>>

NetworkInit ==
  /\ pc = "network" /\ sr = "INIT"
  /\ sr' = "LISTEN"
  /\ pc' = "interrupts"
  /\ UNCHANGED <<ir, rx, tx, common, flag, sending, disconnect_sent, Spi_Retry, sn_ir, peer>>

NetworkCloseWaitSilent ==  \* mutant: waits without having disconnected
  /\ pc = "network" /\ sr = "CLOSE_WAIT" /\ ~disconnect_sent
  /\ disconnect_sent' = TRUE /\ pc' = "disconnecting"
  /\ UNCHANGED <<chip, common, flag, sending, Spi_Retry, sn_ir, peer>>
NetworkCloseWait ==        \* disconnect, which waits until the socket is closed
  /\ pc = "network" /\ sr = "CLOSE_WAIT" /\ ~disconnect_sent
  /\ sr' = "CLOSING" /\ sending' = FALSE /\ disconnect_sent' = TRUE
  /\ pc' = "disconnecting"
  /\ UNCHANGED <<ir, rx, tx, common, flag, Spi_Retry, sn_ir, peer>>

(* Between reading the status and the interrupts of the socket the loop    *)
(* may find the time-out first, and then it calls close.                   *)
Disconnected ==
  /\ pc = "disconnecting" /\ sr = "CLOSED"
  /\ UNCHANGED ir \/ ("TIMEOUT" \in ir /\ ir' = {})
  /\ pc' = "interrupts"
  /\ UNCHANGED <<sr, rx, tx, common, flag, sending, disconnect_sent, Spi_Retry, sn_ir, peer>>

-----------------------------------------------------------------------------
(* W5500_Process_Interrupts                                                *)

NoInterrupt ==
  /\ pc = "interrupts" /\ ~flag
  /\ pc' = "health"
  /\ UNCHANGED <<chip, common, flag, sending, disconnect_sent, Spi_Retry, sn_ir, peer>>

TakeFlag ==
  /\ pc = "interrupts" /\ flag
  /\ flag' = FALSE
  /\ pc' = "read"
  /\ UNCHANGED <<chip, common, sending, disconnect_sent, Spi_Retry, sn_ir, peer>>

ReadIr ==
  /\ pc = "read"
  /\ sn_ir' = ir
  /\ pc' = "ack"
  /\ UNCHANGED <<chip, common, flag, sending, disconnect_sent, Spi_Retry, peer>>

AckSendRecvKeeps ==        \* mutant: the socket stays marked as sending
  /\ pc = "ack"
  /\ Clear(sn_ir \cap {"SENDOK", "RECV"})
  /\ pc' = IF "RECV" \in sn_ir THEN "recv" ELSE "con"
  /\ UNCHANGED <<sr, rx, tx, common, sending, disconnect_sent, Spi_Retry, sn_ir, peer>>
AckSendRecv ==
  /\ pc = "ack"
  /\ Clear(sn_ir \cap {"SENDOK", "RECV"})
  /\ sending' = (sending /\ "SENDOK" \notin sn_ir)
  /\ pc' = IF "RECV" \in sn_ir THEN "recv" ELSE "con"
  /\ UNCHANGED <<sr, rx, tx, common, disconnect_sent, Spi_Retry, sn_ir, peer>>

RecvNothing ==
  /\ pc = "recv" /\ rx = "nothing"
  /\ pc' = "con"
  /\ UNCHANGED <<chip, common, flag, sending, disconnect_sent, Spi_Retry, sn_ir, peer>>

(* All that has arrived is read at once and taken for one message: the     *)
(* echo alone is dropped together with the rest of the handler, an echo    *)
(* and a request make a frame of length 0, and an echo after a request is  *)
(* not looked at.                                                          *)
Recv ==
  /\ pc = "recv" /\ rx # "nothing"
  /\ rx' = "nothing"
  /\ pc' = CASE rx \in Requests -> rx
             [] rx = "echo"     -> "health"
             [] rx = "both"     -> "con"
  /\ UNCHANGED <<sr, ir, tx, common, flag, sending, disconnect_sent, Spi_Retry, sn_ir, peer>>

(* send(): refused unless connected, and while the last message is not     *)
(* known to be delivered.                                                  *)
CanSend == sr \in Connected /\ (sending => "SENDOK" \in ir)
Sent ==
  /\ IF sending THEN Clear({"SENDOK"}) ELSE UNCHANGED <<ir, flag>>
  /\ tx' = TRUE /\ sending' = TRUE /\ armed' = TRUE

AnswerRead ==              \* handle_fc03, or a write that only changes registers
  /\ pc = "read request" /\ CanSend
  /\ Sent
  /\ awaiting' = FALSE
  /\ pc' = "con"
  /\ UNCHANGED <<sr, rx, common, disconnect_sent, Spi_Retry, sn_ir, client, echo>>

(* handle_fc06 and handle_fc10 answer, then the new network settings are   *)
(* applied: Reconfigure_TCP.                                               *)
AnswerSettings ==
  /\ pc = "new settings" /\ CanSend
  /\ Reset("LISTEN") /\ ip' = "set"
  /\ pc' = "con"
  /\ UNCHANGED <<simr, flag, disconnect_sent, Spi_Retry, sn_ir>>

AnswerFails ==             \* modbus_tcp_server_restart, w5500_safe_close
  /\ pc \in Requests /\ ~CanSend
  /\ IF sr \in Connected THEN sr' = "CLOSING" /\ sending' = FALSE
                         ELSE UNCHANGED <<sr, sending>>
  /\ pc' = "restarting"
  /\ UNCHANGED <<ir, rx, tx, common, flag, disconnect_sent, Spi_Retry, sn_ir, peer>>

Restarted ==
  /\ pc = "restarting" /\ sr = "CLOSED"
  /\ Open("LISTEN")
  /\ pc' = "con"
  /\ UNCHANGED <<common, flag, disconnect_sent, Spi_Retry, sn_ir>>

AckOthersQuietly ==        \* mutant: no kickstart packet
  /\ pc = "con"
  /\ Clear(sn_ir \cap {"CON", "DISCON", "TIMEOUT"})
  /\ pc' = "health"
  /\ UNCHANGED <<sr, rx, tx, common, sending, disconnect_sent, Spi_Retry, sn_ir, peer>>
AckOthersLate ==           \* mutant: the flag is cleared when all is done
  /\ pc = "con"
  /\ LET kick == "CON" \in sn_ir /\ CanSend
     IN  /\ ir' = ir \ (sn_ir \cap {"CON", "DISCON", "TIMEOUT"})
         /\ tx' = (tx \/ kick) /\ sending' = (sending \/ kick)
         /\ armed' = (armed \/ kick) /\ echo' = (echo \/ kick)
  /\ flag' = FALSE
  /\ pc' = "health"
  /\ UNCHANGED <<sr, rx, common, disconnect_sent, Spi_Retry, sn_ir, client, awaiting>>
AckOthers ==               \* the kickstart packet, whose result is not looked at
  /\ pc = "con"
  /\ LET kick == "CON" \in sn_ir /\ CanSend
     IN  /\ Clear((sn_ir \cap {"CON", "DISCON", "TIMEOUT"})
                  \cup (IF kick /\ sending THEN {"SENDOK"} ELSE {}))
         /\ tx' = (tx \/ kick) /\ sending' = (sending \/ kick)
         /\ armed' = (armed \/ kick) /\ echo' = (echo \/ kick)
  /\ pc' = "health"
  /\ UNCHANGED <<sr, rx, common, disconnect_sent, Spi_Retry, sn_ir, client, awaiting>>

-----------------------------------------------------------------------------
(* W5500_Health_Monitor, W5500_Network_Alive and the rest of the superloop *)

Healthy ==
  /\ pc = "health"
  /\ pc' = "alive"
  /\ UNCHANGED <<chip, common, flag, sending, disconnect_sent, Spi_Retry, sn_ir, peer>>

(* The version register reads wrong.  The chip is reset and opened again,  *)
(* unless the SPI cannot be initialised or this is a third failure.        *)
Unhealthy ==
  /\ pc = "health" /\ "spi" \in Faults
  /\ Spi_Retry' = (Spi_Retry + 1) % RetryMod
  /\ \/ Spi_Retry' < 3 /\ ip' = "set" /\ simr' = TRUE /\ Reset("INIT")
     \/ UNCHANGED <<chip, common, sending, peer>>
  /\ pc' = "alive"
  /\ UNCHANGED <<flag, disconnect_sent, sn_ir>>

AddressKept ==
  /\ pc = "alive" /\ ip = "set"
  /\ pc' = "others"
  /\ UNCHANGED <<chip, common, flag, sending, disconnect_sent, Spi_Retry, sn_ir, peer>>

AddressLost ==             \* W5500_init resets the chip; sock_is_sending stays.
                           \* SIMR is written when the socket is seen closed
  /\ pc = "alive" /\ ip = "zero"
  /\ ip' = "set" /\ simr' = FALSE
  /\ sr' = "CLOSED" /\ ir' = {} /\ rx' = "nothing" /\ tx' = FALSE /\ NoPeer
  /\ pc' = "others"
  /\ UNCHANGED <<flag, sending, disconnect_sent, Spi_Retry, sn_ir>>

Others ==
  /\ pc = "others"
  /\ pc' = "network"
  /\ UNCHANGED <<chip, common, flag, sending, disconnect_sent, Spi_Retry, sn_ir, peer>>

Reconfigure ==             \* the menu or the RS-485 link changed the settings.
                           \* The socket is opened, SIMR stays as it is
  /\ pc = "others" /\ "settings" \in Faults
  /\ Reset("LISTEN") /\ ip' = "set"
  /\ pc' = "network"
  /\ UNCHANGED <<simr, flag, disconnect_sent, Spi_Retry, sn_ir>>

-----------------------------------------------------------------------------
Network == NetworkOther \/ NetworkClosed \/ NetworkInit \/ NetworkCloseWait \/ Disconnected

Interrupts == \/ NoInterrupt \/ TakeFlag \/ ReadIr \/ AckSendRecv \/ RecvNothing \/ Recv
              \/ AnswerRead \/ AnswerSettings \/ AnswerFails \/ Restarted \/ AckOthers

Monitors == Healthy \/ Unhealthy \/ AddressKept \/ AddressLost \/ Others \/ Reconfigure

TcpTask == Network \/ Interrupts \/ Monitors

Client == Connect \/ Echo \/ Leave \/ Vanish \/ \E kind \in Requests : Ask(kind)

W5500 == Delivered \/ ClosedByBoth \/ TimesOut \/ Glitch

Next == TcpTask \/ Client \/ W5500

Spec == Init /\ [][Next]_vars

(* The superloop runs; the chip finishes what it has begun; a client       *)
(* closes its side when the server does, and asks again for an answer;     *)
(* glitches come to an end.                                                *)
AskAgain == awaiting /\ \E kind \in Requests : Ask(kind)
FairSpec ==
  /\ Spec
  /\ WF_vars(Network) /\ WF_vars(Interrupts)
  /\ WF_vars(Healthy) /\ WF_vars(AddressKept) /\ WF_vars(AddressLost) /\ WF_vars(Others)
  /\ WF_vars(Delivered) /\ WF_vars(ClosedByBoth) /\ WF_vars(TimesOut)
  /\ WF_vars(AskAgain)
  /\ <>[][~Glitch]_vars

-----------------------------------------------------------------------------
Waits == {"disconnecting", "restarting"}
Steps == {"network", "interrupts", "read", "ack", "recv", "con", "health", "alive", "others"}
         \cup Waits \cup Requests
Received == Requests \cup {"nothing", "echo", "both"}

SocketTypes ==
  /\ sr \in {"CLOSED", "INIT", "LISTEN", "CLOSING"} \cup Connected
  /\ ir \subseteq Bits /\ rx \in Received /\ tx \in BOOLEAN
  /\ ip \in {"set", "zero"} /\ simr \in BOOLEAN
LoopTypes ==
  /\ flag \in BOOLEAN /\ sending \in BOOLEAN /\ disconnect_sent \in BOOLEAN
  /\ Spi_Retry \in 0..(RetryMod - 1) /\ pc \in Steps /\ sn_ir \subseteq Bits
PeerTypes ==
  /\ client \in {"away", "open", "left", "vanished"}
  /\ awaiting \in BOOLEAN /\ echo \in BOOLEAN /\ armed \in BOOLEAN

(* Every variable keeps its type, and the loop waits for a socket to close *)
(* only while it is closing.                                               *)
TypeOK ==
  /\ SocketTypes /\ LoopTypes /\ PeerTypes
  /\ pc \in Waits => sr \in {"CLOSING", "CLOSED"}

(* The pin tells the loop of every interrupt although the loop clears the  *)
(* bits one by one and leaves the handler early for an echo: a bit that is *)
(* set has its flag, or is about to be read or cleared, if INTn pulses and *)
(* SIMR lets the bits through.                                             *)
InterruptsAreNotLost ==
  PinPulses /\ simr /\ ir # {} =>
    \/ flag
    \/ pc \in {"read", "ack"}
    \/ pc = "con" /\ ir \cap sn_ir \cap {"CON", "DISCON", "TIMEOUT"} # {}

(* The kickstart packet reaches its purpose: a connection the loop has     *)
(* taken notice of has been sent on, so keep-alive can find the client     *)
(* gone, whatever else was pending when it was accepted.                   *)
KeepAliveIsArmed == sr = "ESTABLISHED" => armed \/ "CON" \in ir

(* A socket marked as sending has a message on its way or a delivery to    *)
(* take notice of: it never refuses to send for ever.                      *)
SendingEnds == sr \in Connected /\ sending => tx \/ "SENDOK" \in ir

(* A client that leaves, or vanishes without a word, gives its place to    *)
(* another (W5500_Network_Task and its comment at SOCK_CLOSED).            *)
ServerListensAgain == client \in {"left", "vanished"} ~> sr = "LISTEN"

(* A connection of which INTn says nothing: new settings opened the socket *)
(* before modbus_tcp_server_init wrote SIMR again after a reset of the     *)
(* chip.                                                                   *)
Silent == sr = "ESTABLISHED" /\ ~simr

(* Whatever disturbs the server, that is so for every client that leaves,  *)
(* unless a disconnect_sent that was set for a client before it outlives   *)
(* that client's socket, or the connection is silent.                      *)
ListensUnlessMarkStale ==
  client \in {"left", "vanished"} ~>
    sr = "LISTEN" \/ (disconnect_sent /\ sr \in Connected) \/ Silent

(* A client that goes on asking gets its answer or loses its connection,   *)
(* unless the connection is silent.                                        *)
RequestsAnswered == awaiting ~> ~awaiting \/ Silent

(* disconnect() waits for the socket inside the superloop, which runs the  *)
(* alarms too; the wait ends.                                              *)
LoopGoesOn == []<>(pc = "network")

(* What the proofs of these need to know of ENABLED, which is beyond the   *)
(* proof system: in these states the fair action can be taken and changes  *)
(* a variable.  An invariant of Spec.                                      *)
WhenEnabled ==
  /\ pc = "network" => ENABLED <<Network>>_vars
  /\ pc = "disconnecting" /\ sr = "CLOSED" => ENABLED <<Network>>_vars
  /\ pc \in {"interrupts", "read", "ack", "recv", "con"} \cup Requests
       => ENABLED <<Interrupts>>_vars
  /\ pc = "restarting" /\ sr = "CLOSED" => ENABLED <<Interrupts>>_vars
  /\ pc = "health" => ENABLED <<Healthy>>_vars
  /\ pc = "alive" /\ ip = "set" => ENABLED <<AddressKept>>_vars
  /\ pc = "alive" /\ ip = "zero" => ENABLED <<AddressLost>>_vars
  /\ pc = "others" => ENABLED <<Others>>_vars
  /\ sr = "CLOSING" /\ client \in {"open", "left"} => ENABLED <<ClosedByBoth>>_vars
  /\ client = "vanished" /\ (sr = "CLOSING" \/ armed) => ENABLED <<TimesOut>>_vars
  /\ awaiting /\ sr = "ESTABLISHED" /\ rx \in {"nothing", "echo"}
       => ENABLED <<AskAgain>>_vars
=============================================================================
