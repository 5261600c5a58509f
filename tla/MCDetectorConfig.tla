-------------------------- MODULE MCDetectorConfig --------------------------
(* An instance of DetectorConfig for TLC: every block of registers a PC    *)
(* can write at once, and both links.                                      *)
EXTENDS DetectorConfig
\* contiguous ranges of the registers 23, 54-55 and 60-63, or none of them
Blocks == {{}, {"FREQ"}, {"HV"}, {"C1"}, {"C2"}, Calib, {"HV", "C1"}, Staged,
           {"FREQ", "HV"}, Regs}
=============================================================================
