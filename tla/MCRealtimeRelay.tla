--------------------------- MODULE MCRealtimeRelay ---------------------------
(* Instances of RealtimeRelay for TLC.                                      *)
EXTENDS RealtimeRelay, TLC
==============================================================================
