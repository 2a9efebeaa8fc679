---------------------------- MODULE MCRunCycles ----------------------------
(* The runners of RunCycles, for TLC.                                      *)
EXTENDS RunCycles

BothModes == {"fixed", "replay"}
ReplayOnly == {"replay"}
=============================================================================
