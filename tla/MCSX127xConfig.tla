--------------------------- MODULE MCSX127xConfig ---------------------------
(* SX127xConfig for TLC: every bandwidth with the spreading factors at which *)
(* a rule changes, both coding rates' ends, long and short headers.          *)
EXTENDS SX127xConfig

MCConfigs ==
  [bandwidth : 0..2, datarate : {6, 7, 10, 11, 12}, coderate : {1, 4},
   preambleLen : {8}, fixLen : BOOLEAN, crcOn : BOOLEAN]
=============================================================================
