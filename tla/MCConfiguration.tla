--------------------------- MODULE MCConfiguration ---------------------------
(* A small instance of Configuration: two values in range and one outside,  *)
(* writes of one register, of two registers that different handlers treat,  *)
(* and of all of them.                                                       *)
EXTENDS Configuration

CONSTANTS d, v, bad

GoodValues == {d, v}
SingleBlocks == {{f} : f \in Fields}
MixedBlocks == SingleBlocks \cup {{"LIMIT", "NET"}, {"RS485", "PCPORT"}}
LimitBlocks == {{"LIMIT"}, {"MODE"}}
=============================================================================
