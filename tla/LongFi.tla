------------------------------- MODULE LongFi -------------------------------
(***************************************************************************)
(* longfi.c on the SX126x driver, with the client that calls it and the    *)
(* FIFO of radio events the client dispatches.                             *)
(*                                                                         *)
(* The client follows the documentation: it initialises the library first, *)
(* sends one packet at a time, calls nothing but longfi_handle_event while *)
(* a packet is out, and fetches a received packet after ClientEvent_Rx.    *)
(* Everything else is its choice: what it calls, in which order, and how   *)
(* long an event waits in its FIFO while it makes other calls.             *)
(***************************************************************************)
EXTENDS SX126x, LongFiLibrary

vars == <<radioVars, longfiVars>>

TypeOK == DriverTypeOK /\ LibraryTypeOK

Init == DriverInit /\ LibraryInit

-----------------------------------------------------------------------------
(* Calls of the client.                                                    *)

longfi_init ==
  /\ Free
  /\ booted => CallOk("Reinit")
  /\ Begin(InitScript \o SleepScript)
  /\ booted' = TRUE
  /\ Asks("doze")
  /\ UNCHANGED <<chipVars, OperatingMode, PacketType, paramsPkt, rxConfig,
                 netCurrent, netPrevious, irqRegs, antSw, txBuf>>

longfi_set_buf(len) ==
  /\ script = <<>>
  /\ booted
  /\ LendBuffer(len)
  /\ UNCHANGED radioVars

longfi_rx == Free /\ Simple("rx", RxScript) /\ Asks("none")

\* longfi_rx configures nothing; a client that wants more than one untimed
\* reception calls the radio's SetRxConfig itself (longfi.h exports Radio).
configure_rx(continuous) ==
  /\ Free
  /\ SetRxConfig("LORA", continuous, TRUE)
  /\ Asks("none")

longfi_get_random == Free /\ Simple("random", RandomScript) /\ Asks("none")

\* SetTxConfig, SetChannel and Send of the radio with the encoded packet f.
Transmit(op, f) ==
  /\ Free
  /\ CallOk(op)
  /\ Begin(SetTxConfigScript("LORA") \o SetChannelScript \o SendScript)
  /\ paramsPkt' = "LORA"
  /\ txBuf' = f
  /\ SetsOut(f)
  /\ UNCHANGED <<chipVars, OperatingMode, PacketType, rxConfig, netCurrent,
                 netPrevious, irqRegs, booted, antSw>>

longfi_send(f) == Transmit("send", f) /\ CountsBytes(f)

longfi_rf_test == Transmit("rf_test", TestFrame) /\ UNCHANGED txVars

longfi_get_rx == script = <<>> /\ FetchBuffer /\ UNCHANGED radioVars

\* RFE_DIO1 goes to the handler of the SX126x driver.
longfi_handle_event == OnDioIrq /\ Dispatches

-----------------------------------------------------------------------------
(* The library running.                                                    *)

RunCallback ==
  /\ \/ IrqTxDone /\ OnTxDone
     \/ IrqRxDone /\ OnRxDone(fifo)
     \/ IrqCrcError /\ OnRxError
     \/ IrqTxTimeout /\ OnTxTimeout
     \/ IrqRxTimeout /\ OnRxTimeout
     \/ IrqHeaderError /\ OnRxTimeout
  /\ UNCHANGED <<txVars, at, clientVars>>

RunCommand == Issue /\ UNCHANGED longfiVars

\* Mutant: the radio is not put to sleep after a transmission.
HandleTxDoneAwake == script = <<>> /\ FinishesTx /\ UNCHANGED radioVars

\* Mutant: the event is handled again and again, and never returned.
HandleTxDoneLoops ==
  /\ at = "dispatch"
  /\ cur_event = "TxDone"
  /\ Begin(SleepScript)
  /\ UNCHANGED <<chipVars, OperatingMode, PacketType, paramsPkt, rxConfig,
                 netCurrent, netPrevious, callVars, antSw>>
  /\ UNCHANGED longfiVars

HandleTxDone ==
  /\ FinishesTx
  /\ Begin(SleepScript)
  /\ UNCHANGED <<chipVars, OperatingMode, PacketType, paramsPkt, rxConfig,
                 netCurrent, netPrevious, callVars, antSw>>

HandleReturn ==
  /\ script = <<>>
  /\ ReturnsTxDone \/ ReturnsRx \/ ReturnsNone
  /\ UNCHANGED radioVars

-----------------------------------------------------------------------------
(* The world around.                                                       *)

Transmitted == TxComplete /\ Airs(fifo)

Received == Receive /\ UNCHANGED longfiVars

Restart == Restart126x /\ Forgets

ClientCall ==
  \/ longfi_init
  \/ \E len \in BufferLens : longfi_set_buf(len)
  \/ longfi_rx
  \/ \E continuous \in BOOLEAN : configure_rx(continuous)
  \/ longfi_get_random
  \/ \E f \in TxFrames \ {TestFrame} : longfi_send(f)
  \/ longfi_rf_test
  \/ longfi_get_rx

Library == RunCommand \/ RunCallback \/ HandleTxDone \/ HandleReturn

Next ==
  \/ ClientCall \/ longfi_handle_event \/ Library
  \/ Transmitted \/ Received \/ Restart

Spec == Init /\ [][Next]_vars

\* A call of the library runs on; the client goes on dispatching what waits in
\* its FIFO; the chip ends what it transmits.  Nothing forces the client to
\* call, or other stations to transmit.
Fairness ==
  /\ WF_vars(Library)
  /\ WF_vars(longfi_handle_event)
  /\ WF_vars(Transmitted)

LiveSpec == Spec /\ Fairness

-----------------------------------------------------------------------------
(* Properties.                                                             *)

\* The library is idle and the client has dispatched every event.
Quiet == booted /\ at = "main" /\ script = <<>>
Drained == Quiet /\ pending = 0

\* "ClientEvent_TxDone signals that the library is ready to send again"
\* (README.md:72): while a packet is out and nothing is left to dispatch, it
\* is still being transmitted; its completion has not been swallowed.
TxDoneNotLost == Drained /\ sending # NoFrame => chipMode = "TX"

\* The device transmits LoRa and nothing else, with the packet of the client
\* in the buffer, whatever modem, mode or reception came before.
TransmitsThePacket ==
  ResetDone /\ chipMode = "TX" => chipPkt = "LORA" /\ fifo = sending

\* "sleep the radio and wait for a send or receive call" (longfi.c:73), "sleep
\* when done transmitting" (longfi.c:258): until that call it stays asleep.
DozesUntilCalled == Quiet /\ asked = "doze" => chipMode = "SLEEP"

\* The handler runs through all its branches.
PacketSteps == StepsLeft(Len(script), Len(IrqScript))

\* Every step the device takes brings its client nearer to ClientEvent_TxDone,
\* and nothing else that happens takes it farther away.
PacketProgresses ==
  [][sending # NoFrame /\ sending' = sending =>
       /\ PacketSteps' \leq PacketSteps
       /\ Library \/ longfi_handle_event \/ Transmitted => PacketSteps' < PacketSteps]_vars

Service == INSTANCE LongFiService WITH
             Packets <- TxFrames, None <- NoFrame,
             status <- StatusOf(booted), packet <- sending, heard <- heard

\* Exactly one transmission of exactly the packet sent, then one TxDone.
ServiceSafe == Service!Spec
ServiceLive == Service!LiveSpec
=============================================================================
