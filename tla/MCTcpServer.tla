----------------------------- MODULE MCTcpServer -----------------------------
(***************************************************************************)
(* TLC instances of TcpServer: what may disturb the server in each run.    *)
(***************************************************************************)
EXTENDS TcpServer

AllFaults == {"settings", "spi", "glitch"}
SettingsFaults == {"settings"}
=============================================================================
