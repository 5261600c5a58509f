--------------------------- MODULE MCDetectorLink ---------------------------
(***************************************************************************)
(* TLC instances of DetectorLink.  AllFaults lets the line lose a request, *)
(* lose, damage or delay an answer, the receiver stop on a UART error and  *)
(* the detector lose power.                                                *)
(***************************************************************************)
EXTENDS DetectorLink

AllFaults == {"lost", "damaged", "unheard", "uart", "power"}
=============================================================================
