------------------------------ MODULE MCSX126x ------------------------------
(* The SX126x driver under an arbitrary client of Radio_t, for TLC: one       *)
(* payload to send and one frame of another station.                          *)
EXTENDS SX126x

CONSTANTS payload, frame

MCTxFrames == {payload}
MCRxFrames == {frame}
=============================================================================
