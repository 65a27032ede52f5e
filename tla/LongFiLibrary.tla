---------------------------- MODULE LongFiLibrary ----------------------------
(***************************************************************************)
(* The state of longfi.c and of the client that calls it, and what each    *)
(* function does to it, whichever radio is below.  LongFi and LongFi127x   *)
(* join every operation to the calls of the radio it makes.                *)
(*                                                                         *)
(* The client's variables are history that no code reads.                  *)
(***************************************************************************)
EXTENDS Naturals, RadioFrames

CONSTANTS TestFrame,     \* the byte 0xAB longfi_rf_test sends
          FrameLen,      \* length of each frame
          BufferLens,    \* sizes of the buffers the client lends
          PromptClient,  \* it calls longfi_get_rx before it dispatches again
          MaxRxEvents    \* packets it leaves unfetched at most

ASSUME LongFiAssumption ==
  /\ TestFrame \in TxFrames
  /\ FrameLen \in [Frames -> Nat]
  /\ BufferLens \subseteq Nat
  /\ PromptClient \in BOOLEAN
  /\ MaxRxEvents \in Nat \ {0}

VARIABLES cur_event,   \* internal.cur_event
          hasBuffer,   \* internal.buffer is not NULL
          buffer_len,  \* internal.buffer_len
          bufFrame,    \* whose bytes the lent buffer holds
          rx_len,      \* internal.rx_len
          tx_len,      \* internal.tx_len
          tx_cnt,      \* internal.tx_cnt
          at,          \* where longfi_handle_event is
          clientEvent, \* what it returned last
          sending,     \* the packet the client has sent and waits for
          airings,     \* how often its transmission has been completed
          heard,       \* the last packet transmitted for the client
          asked,       \* what the client's last call left the radio to do
          rxEvents     \* ClientEvent_Rx not yet followed by longfi_get_rx

bufferVars == <<hasBuffer, buffer_len, bufFrame, rx_len>>
txVars     == <<tx_len, tx_cnt>>
clientVars == <<clientEvent, sending, airings, heard, asked, rxEvents>>
longfiVars == <<cur_event, bufferVars, txVars, at, clientVars>>

\* InternalEvent_RxError exists too, but OnRxError stores RxTimeout instead.
InternalEvents == {"None", "TxDone", "RxDone", "TxTimeout", "RxTimeout"}
MaxAirings == 2

LibraryTypeOK ==
  /\ cur_event \in InternalEvents
  /\ hasBuffer \in BOOLEAN
  /\ buffer_len \in Nat
  /\ bufFrame \in Frames
  /\ rx_len \in Nat
  /\ tx_len \in Nat
  /\ tx_cnt \in Nat
  /\ at \in {"main", "dispatch", "txdone"}
  /\ clientEvent \in {"None", "TxDone", "Rx"}
  /\ sending \in TxFrames \cup {NoFrame}
  /\ airings \in 0..MaxAirings
  /\ heard \in Frames
  /\ asked \in {"none", "doze"}
  /\ rxEvents \in 0..MaxRxEvents

LibraryInit ==
  /\ cur_event = "None"
  /\ hasBuffer = FALSE
  /\ buffer_len = 0
  /\ bufFrame = NoFrame
  /\ rx_len = 0
  /\ tx_len = 0
  /\ tx_cnt = 0
  /\ at = "main"
  /\ clientEvent = "None"
  /\ sending = NoFrame
  /\ airings = 0
  /\ heard = NoFrame
  /\ asked = "none"
  /\ rxEvents = 0

-----------------------------------------------------------------------------
(* Calls of the client.                                                    *)

\* The library is not running, and no packet is out.
Free == at = "main" /\ sending = NoFrame

\* A call that only commands the radio; it leaves it to doze or not.
Asks(what) ==
  /\ asked' = what
  /\ UNCHANGED <<cur_event, bufferVars, txVars, at, clientEvent, sending,
                 airings, heard, rxEvents>>

\* Called while no buffer is lent ("give a buffer back to LongFi", longfi.h:122).
LendBuffer(len) ==
  /\ at = "main"
  /\ ~hasBuffer
  /\ hasBuffer' = TRUE
  /\ buffer_len' = len
  /\ bufFrame' = NoFrame
  /\ UNCHANGED <<cur_event, rx_len, txVars, at, clientVars>>

\* The client gets its buffer back; rx_len keeps its value.
FetchBuffer ==
  /\ at = "main"
  /\ rxEvents > 0
  /\ rxEvents' = rxEvents - 1
  /\ hasBuffer' = FALSE
  /\ buffer_len' = 0
  /\ bufFrame' = NoFrame
  /\ UNCHANGED <<cur_event, rx_len, txVars, at, clientEvent, sending, airings,
                 heard, asked>>

\* The packet f is on its way; longfi_rf_test leaves the lengths alone.
SetsOut(f) ==
  /\ sending' = f
  /\ airings' = 0
  /\ asked' = "none"
  /\ UNCHANGED <<cur_event, bufferVars, at, clientEvent, heard, rxEvents>>

CountsBytes(f) == tx_len' = FrameLen[f] /\ tx_cnt' = FrameLen[f]

\* longfi_handle_event forgets the last internal event and calls the radio.
Dispatches ==
  /\ at = "main"
  /\ rxEvents < IF PromptClient THEN 1 ELSE MaxRxEvents
  /\ cur_event' = "None"
  /\ at' = "dispatch"
  /\ clientEvent' = "None"
  /\ UNCHANGED <<bufferVars, txVars, sending, airings, heard, asked, rxEvents>>

-----------------------------------------------------------------------------
(* The callbacks: each only stores an event, and OnRxDone the payload f.   *)

\* Mutant: a packet longer than the client's buffer is not cut.
LenOnAir(f) == FrameLen[f]
\* Mutant: a packet that fills the buffer loses its last byte.
LenLessOne(f) == IF FrameLen[f] < buffer_len THEN FrameLen[f] ELSE buffer_len - 1
LenOfRx(f) == IF FrameLen[f] < buffer_len THEN FrameLen[f] ELSE buffer_len

OnTxDone == cur_event' = "TxDone" /\ UNCHANGED bufferVars
OnRxDone(f) ==
  /\ cur_event' = "RxDone"
  /\ rx_len' = LenOfRx(f)
  /\ bufFrame' = IF LenOfRx(f) = 0 THEN bufFrame ELSE f
  /\ UNCHANGED <<hasBuffer, buffer_len>>
OnTxTimeout == cur_event' = "TxTimeout" /\ UNCHANGED bufferVars
OnRxTimeout == cur_event' = "RxTimeout" /\ UNCHANGED bufferVars
OnRxError == cur_event' = "RxTimeout" /\ UNCHANGED bufferVars

-----------------------------------------------------------------------------
(* _handle_internal_event, after the radio's handler has returned.  tx_len *)
(* and tx_cnt are always equal, so there is never another fragment to send.*)

\* The transmission is over; the radio is put to sleep before the client is told.
FinishesTx ==
  /\ at = "dispatch"
  /\ cur_event = "TxDone"
  /\ tx_len = tx_cnt
  /\ at' = "txdone"
  /\ UNCHANGED <<cur_event, bufferVars, txVars, clientVars>>

ReturnsTxDone ==
  /\ at = "txdone"
  /\ at' = "main"
  /\ clientEvent' = "TxDone"
  /\ sending' = NoFrame
  /\ airings' = 0
  /\ asked' = "doze"
  /\ UNCHANGED <<cur_event, bufferVars, txVars, heard, rxEvents>>

ReturnsRx ==
  /\ at = "dispatch"
  /\ cur_event = "RxDone"
  /\ at' = "main"
  /\ clientEvent' = "Rx"
  /\ rxEvents' = rxEvents + 1
  /\ UNCHANGED <<cur_event, bufferVars, txVars, sending, airings, heard, asked>>

ReturnsNone ==
  /\ at = "dispatch"
  /\ cur_event \notin {"TxDone", "RxDone"}
  /\ at' = "main"
  /\ clientEvent' = "None"
  /\ UNCHANGED <<cur_event, bufferVars, txVars, sending, airings, heard, asked, rxEvents>>

-----------------------------------------------------------------------------
(* The world around.                                                       *)

\* The radio has completed the transmission of f.
Airs(f) ==
  /\ IF sending = NoFrame
       THEN UNCHANGED <<airings, heard>>
       ELSE /\ airings' = IF airings < MaxAirings THEN airings + 1 ELSE airings
            /\ heard' = f
  /\ UNCHANGED <<cur_event, bufferVars, txVars, at, clientEvent, sending, asked, rxEvents>>

\* The microcontroller restarts; what was heard stays heard.
Forgets ==
  /\ cur_event' = "None"
  /\ hasBuffer' = FALSE
  /\ buffer_len' = 0
  /\ bufFrame' = NoFrame
  /\ rx_len' = 0
  /\ tx_len' = 0
  /\ tx_cnt' = 0
  /\ at' = "main"
  /\ clientEvent' = "None"
  /\ sending' = NoFrame
  /\ airings' = 0
  /\ asked' = "none"
  /\ rxEvents' = 0
  /\ UNCHANGED heard

-----------------------------------------------------------------------------
(* Properties of the library.                                              *)

\* A packet announced by ClientEvent_Rx lies in the client's buffer and fits,
\* until the client fetches it: longfi_get_rx returns no length without bytes.
PacketFits == rxEvents > 0 => rx_len <= buffer_len /\ (rx_len > 0 => hasBuffer)

\* "a full packet was received" (longfi.h:84), as far as the buffer has room: the
\* bytes of a packet announced by ClientEvent_Rx are another station's, neither the
\* device's own nor those of a frame whose checksum was wrong, and they are all
\* there if they fit.  A longer packet is cut, and announced like a full one.
PacketWasReceived ==
  rxEvents > 0 /\ rx_len > 0 /\ hasBuffer =>
    /\ bufFrame \in RxFrames
    /\ FrameLen[bufFrame] <= buffer_len => rx_len = FrameLen[bufFrame]

\* How many steps of the device a packet sent is from its ClientEvent_TxDone: the
\* rest of Send, the transmission, the dispatch, the handler, SetSleep and the
\* return.  What remains of the call has `call` steps, the handler `handler`.
StepsLeft(call, handler) ==
  CASE airings = 0 -> handler + 4 + call
    [] airings > 0 /\ at = "main" -> handler + 3
    [] airings > 0 /\ at = "dispatch" -> 2 + call
    [] airings > 0 /\ at = "txdone" -> call

\* What the service's client sees of the library.
StatusOf(booted) ==
  CASE ~booted -> "off"
    [] booted /\ sending = NoFrame -> "ready"
    [] booted /\ sending # NoFrame /\ airings = 0 -> "sending"
    [] booted /\ sending # NoFrame /\ airings = 1 -> "aired"
    [] OTHER -> "aired twice"
=============================================================================
