--------------------------- MODULE MCFaultHandler ---------------------------
(***************************************************************************)
(* TLC instances of FaultHandler: limits in the usual order, and limits    *)
(* an operator entered the wrong way round.                                *)
(***************************************************************************)
EXTENDS FaultHandler

InOrder  == [alarm |-> 1, overrun |-> 2, overload |-> 3]
Reversed == [alarm |-> 2, overrun |-> 2, overload |-> 1]
AnyOrder == {InOrder, Reversed}
OneOrder == {InOrder}

Readings == 0..2
FewReadings == {0, 1, 3}

\* ranges of the registers 6..10, 17, 18 (Overload ... Reset)
Blocks    == {{"Alarm", "Hv_Fault"}, {"ACK", "Reset"}}
FewBlocks == {{"Alarm"}, {"ACK", "Reset"}}
NoBlocks  == {}
=============================================================================
