----------------------------- MODULE MCSdJournal -----------------------------
(***************************************************************************)
(* TLC instances of SdJournal: a card that reads as zeros where nothing    *)
(* was written, and one that shows what was there before.                  *)
(***************************************************************************)
EXTENDS SdJournal

Zeros == {0}
Leftovers == {0, 5}
PowerFaults == {"crash", "torn"}
AllFaults == {"crash", "torn", "disk"}

(* Nothing is promised of a log once it is spoilt: what follows is checked *)
(* for its types, up to the third record.                                  *)
Promised == cause = "nothing" \/ stamp <= 3
=============================================================================
