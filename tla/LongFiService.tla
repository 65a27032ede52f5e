--------------------------- MODULE LongFiService ---------------------------
(***************************************************************************)
(* What longfi-device promises the client of an uplink-only device         *)
(* (README.md "Usage", longfi.h): once initialised it takes one packet at  *)
(* a time, puts exactly that packet on the air, once, and then says so     *)
(* with one ClientEvent_TxDone, which makes it ready for the next packet.  *)
(***************************************************************************)
CONSTANTS Packets, None

VARIABLES status,  \* off, ready, sending, aired
          packet,  \* the packet being sent
          heard    \* the last packet a gateway has heard

serviceVars == <<status, packet, heard>>

Init == status = "off" /\ packet = None /\ heard = None

Boot == status = "off" /\ status' = "ready" /\ UNCHANGED <<packet, heard>>

Send(p) ==
  /\ status = "ready"
  /\ status' = "sending"
  /\ packet' = p
  /\ UNCHANGED heard

Air ==
  /\ status = "sending"
  /\ status' = "aired"
  /\ heard' = packet
  /\ UNCHANGED packet

TxDone ==
  /\ status = "aired"
  /\ status' = "ready"
  /\ packet' = None
  /\ UNCHANGED heard

\* The device restarts and forgets what it was sending.
Restart == status' = "off" /\ packet' = None /\ UNCHANGED heard

Next == Boot \/ (\E p \in Packets : Send(p)) \/ Air \/ TxDone \/ Restart

Spec == Init /\ [][Next]_serviceVars

LiveSpec == Spec /\ WF_serviceVars(Air) /\ WF_serviceVars(TxDone)
=============================================================================
