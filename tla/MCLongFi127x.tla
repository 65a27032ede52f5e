---------------------------- MODULE MCLongFi127x ----------------------------
(* LongFi127x for TLC: one packet and the test byte to send, and one frame of *)
(* another station, two bytes long.                                           *)
EXTENDS LongFi127x, TLC

CONSTANTS uplink, testByte, downlink, garbled, none

MCTxFrames == {uplink, testByte}
MCRxFrames == {downlink}
MCFrameLen == (uplink :> 2) @@ (testByte :> 1) @@ (downlink :> 2)
              @@ (garbled :> 2) @@ (none :> 0)
=============================================================================
