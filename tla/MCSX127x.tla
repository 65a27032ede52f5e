------------------------------ MODULE MCSX127x ------------------------------
(* The SX127x drivers under an arbitrary client of Radio_t, for TLC.          *)
EXTENDS SX127x

CONSTANTS payload, frame

MCTxFrames == {payload}
MCRxFrames == {frame}
=============================================================================
