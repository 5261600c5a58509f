------------------------------ MODULE MCPcLink ------------------------------
(* PcLink with a log of two slots.                                          *)
EXTENDS PcLink
=============================================================================
