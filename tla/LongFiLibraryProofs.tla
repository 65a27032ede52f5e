------------------------- MODULE LongFiLibraryProofs -------------------------
(***************************************************************************)
(* What longfi.c keeps true whichever radio is below it, for every set of  *)
(* packets and buffers: the types of its variables, and a received packet  *)
(* that fits the client's buffer.  LongFiProofs and LongFi127xProofs show  *)
(* that each of their steps is a LibraryStep.                              *)
(***************************************************************************)
EXTENDS LongFiLibrary, TLAPS

\* What a step may do to the library, whatever the radio does in it.
LibraryStep ==
  \/ \E what \in {"none", "doze"} : Asks(what)
  \/ \E len \in BufferLens : LendBuffer(len)
  \/ FetchBuffer
  \/ \E f \in TxFrames : SetsOut(f) /\ (CountsBytes(f) \/ UNCHANGED txVars)
  \/ Dispatches
  \/ /\ OnTxDone \/ OnTxTimeout \/ OnRxTimeout \/ OnRxError
        \/ \E f \in Frames : OnRxDone(f)
     /\ UNCHANGED <<txVars, at, clientVars>>
  \/ FinishesTx \/ ReturnsTxDone \/ ReturnsRx \/ ReturnsNone
  \/ \E f \in Frames : Airs(f)
  \/ Forgets
  \/ UNCHANGED longfiVars

\* The strengthening of LibraryTypeOK: an event is dispatched only while there
\* is room for the packet it may announce.
RoomForRx == at = "dispatch" => rxEvents < MaxRxEvents

\* A packet that the client has been told of, or is about to be.
Announced == rxEvents > 0 \/ (at = "dispatch" /\ cur_event = "RxDone")

\* The strengthening of PacketFits, for a client that fetches a packet before
\* it dispatches again: a second packet would overwrite the first one's length.
Fits ==
  /\ ~hasBuffer => buffer_len = 0
  /\ rxEvents <= 1
  /\ at # "main" => rxEvents = 0
  /\ Announced => rx_len <= buffer_len

LibraryInv ==
  /\ LibraryTypeOK
  /\ RoomForRx
  /\ PromptClient => Fits

\* Unwritten buffers and the device's own payloads are frames.
LEMMA FrameTypes == NoFrame \in Frames /\ TxFrames \subseteq Frames
BY DEF Frames

\* Every function keeps the types of the library's variables.
LEMMA LibraryStepTypes ==
  ASSUME LibraryTypeOK, RoomForRx, LibraryStep
  PROVE  LibraryTypeOK' /\ RoomForRx'
<1> USE LongFiAssumption, FrameTypes
    DEF LibraryTypeOK, RoomForRx, bufferVars, txVars, clientVars, InternalEvents, MaxAirings
<1>1. CASE \E what \in {"none", "doze"} : Asks(what)
  BY <1>1 DEF Asks
<1>2. ASSUME NEW len \in BufferLens, LendBuffer(len)
      PROVE  LibraryTypeOK' /\ RoomForRx'
  BY <1>2 DEF LendBuffer
<1>3. CASE FetchBuffer
  <2>1. hasBuffer' \in BOOLEAN /\ buffer_len' \in Nat
    BY <1>3 DEF FetchBuffer
  <2> QED
    BY <1>3, <2>1 DEF FetchBuffer
<1>4. ASSUME NEW f \in TxFrames, SetsOut(f), CountsBytes(f) \/ UNCHANGED txVars
      PROVE  LibraryTypeOK' /\ RoomForRx'
  <2>1. FrameLen[f] \in Nat
    BY DEF Frames
  <2> QED
    BY <1>4, <2>1 DEF SetsOut, CountsBytes
<1>5. CASE Dispatches
  BY <1>5 DEF Dispatches
<1>6. CASE /\ OnTxDone \/ OnTxTimeout \/ OnRxTimeout \/ OnRxError
           /\ UNCHANGED <<txVars, at, clientVars>>
  BY <1>6 DEF OnTxDone, OnTxTimeout, OnRxTimeout, OnRxError
<1>7. ASSUME NEW f \in Frames, OnRxDone(f), UNCHANGED <<txVars, at, clientVars>>
      PROVE  LibraryTypeOK' /\ RoomForRx'
  <2>1. LenOfRx(f) \in Nat
    BY DEF LenOfRx
  <2> QED
    BY <1>7, <2>1 DEF OnRxDone
<1>8. CASE FinishesTx \/ ReturnsTxDone \/ ReturnsNone
  BY <1>8 DEF FinishesTx, ReturnsTxDone, ReturnsNone
<1>9. CASE ReturnsRx
  BY <1>9 DEF ReturnsRx
<1>10. ASSUME NEW f \in Frames, Airs(f)
       PROVE  LibraryTypeOK' /\ RoomForRx'
  BY <1>10 DEF Airs
<1>11. CASE Forgets
  <2>1. hasBuffer' \in BOOLEAN /\ buffer_len' \in Nat
    BY <1>11 DEF Forgets
  <2> QED
    BY <1>11, <2>1 DEF Forgets
<1>12. CASE UNCHANGED longfiVars
  BY <1>12 DEF longfiVars
<1> QED
  BY <1>1, <1>2, <1>3, <1>4, <1>5, <1>6, <1>7, <1>8, <1>9, <1>10, <1>11, <1>12
     DEF LibraryStep

\* A received packet is cut to the buffer.  While it is announced another buffer
\* is lent only if there was none, and then the packet has no bytes; fetching it
\* takes the announcement back.
LEMMA LibraryStepFits ==
  ASSUME PromptClient, LibraryTypeOK, Fits, LibraryStep
  PROVE  Fits'
<1> USE LongFiAssumption
    DEF LibraryTypeOK, Fits, Announced, bufferVars, txVars, clientVars
<1>1. CASE \E what \in {"none", "doze"} : Asks(what)
  BY <1>1 DEF Asks
<1>2. ASSUME NEW len \in BufferLens, LendBuffer(len)
      PROVE  Fits'
  <2>1. Announced => rx_len <= len
    BY <1>2 DEF LendBuffer
  <2> QED
    BY <1>2, <2>1 DEF LendBuffer
<1>3. CASE FetchBuffer
  BY <1>3 DEF FetchBuffer
<1>4. ASSUME NEW f \in TxFrames, SetsOut(f), CountsBytes(f) \/ UNCHANGED txVars
      PROVE  Fits'
  BY <1>4 DEF SetsOut
<1>5. CASE Dispatches
  BY <1>5 DEF Dispatches
<1>6. CASE /\ OnTxDone \/ OnTxTimeout \/ OnRxTimeout \/ OnRxError
           /\ UNCHANGED <<txVars, at, clientVars>>
  BY <1>6 DEF OnTxDone, OnTxTimeout, OnRxTimeout, OnRxError
<1>7. ASSUME NEW f \in Frames, OnRxDone(f), UNCHANGED <<txVars, at, clientVars>>
      PROVE  Fits'
  <2>1. LenOfRx(f) <= buffer_len
    BY DEF LenOfRx
  <2> QED
    BY <1>7, <2>1 DEF OnRxDone
<1>8. CASE FinishesTx \/ ReturnsTxDone \/ ReturnsNone
  BY <1>8 DEF FinishesTx, ReturnsTxDone, ReturnsNone
<1>9. CASE ReturnsRx
  BY <1>9 DEF ReturnsRx
<1>10. ASSUME NEW f \in Frames, Airs(f)
       PROVE  Fits'
  BY <1>10 DEF Airs
<1>11. CASE Forgets
  BY <1>11 DEF Forgets
<1>12. CASE UNCHANGED longfiVars
  BY <1>12 DEF longfiVars
<1> QED
  BY <1>1, <1>2, <1>3, <1>4, <1>5, <1>6, <1>7, <1>8, <1>9, <1>10, <1>11, <1>12
     DEF LibraryStep

\* At power on the library has no buffer and no packet.
LEMMA LibraryInitInv == LibraryInit => LibraryInv
<1> SUFFICES ASSUME LibraryInit PROVE LibraryInv
  OBVIOUS
<1>1. hasBuffer \in BOOLEAN /\ buffer_len \in Nat
  BY DEF LibraryInit
<1> QED
  BY <1>1, LongFiAssumption, FrameTypes
     DEF LibraryInit, LibraryInv, LibraryTypeOK, RoomForRx, Fits, Announced,
         InternalEvents, MaxAirings

\* No function of the library leaves its invariant.
LEMMA LibraryStepInv ==
  ASSUME LibraryInv, LibraryStep
  PROVE  LibraryInv'
BY LibraryStepTypes, LibraryStepFits DEF LibraryInv

\* The invariant is strong enough: a packet without a buffer has no bytes.
LEMMA LibraryInvFits == LibraryInv => (PromptClient => PacketFits)
BY DEF LibraryInv, LibraryTypeOK, Fits, Announced, PacketFits
=============================================================================
