----------------------------- MODULE LongFi127x -----------------------------
(***************************************************************************)
(* longfi.c on the SX1276 or SX1272 driver, with the client of LongFi.     *)
(*                                                                         *)
(* The client may be Polite: it makes a call that uses the radio only when *)
(* it has dispatched every event and Radio.GetStatus, which longfi.h       *)
(* exports, says RF_IDLE.  The documentation does not ask for it.          *)
(***************************************************************************)
EXTENDS SX127x, LongFiLibrary

CONSTANT Polite

ASSUME PoliteAssumption == Polite \in BOOLEAN

vars == <<radioVars, longfiVars>>

TypeOK == DriverTypeOK /\ LibraryTypeOK

Init == DriverInit /\ LibraryInit

-----------------------------------------------------------------------------
(* Calls of the client.                                                    *)

MayCall == Free /\ (Polite => State = "IDLE" /\ events = <<>>)

longfi_init ==
  /\ MayCall
  /\ booted => CallOk("Reinit")
  /\ Begin(InitScript \o SleepScript)
  /\ booted' = TRUE
  /\ Asks("doze")
  /\ UNCHANGED <<chipVars, chip, settings, txBuf>>

longfi_set_buf(len) ==
  /\ script = <<>>
  /\ booted
  /\ LendBuffer(len)
  /\ UNCHANGED radioVars

longfi_rx == MayCall /\ Simple("rx", RxScript(ModemSet)) /\ Asks("none")

\* The client's own call of the radio's SetRxConfig.  It asks for one reception
\* at a time: while the chip listens on, a frame that arrives between the
\* handler's reads of the flags and of the payload is announced with their flags.
configure_rx == MayCall /\ SetRxConfig("LORA", FALSE) /\ Asks("none")

longfi_get_random == MayCall /\ Simple("random", RandomScript) /\ Asks("none")

\* SetTxConfig and Send of the radio with the encoded packet f; SetChannel
\* changes nothing that is modelled here.
Transmits(op, f) ==
  /\ MayCall
  /\ CallOk(op)
  /\ Begin(TxConfigScript("LORA") \o SendScript("LORA"))
  /\ txBuf' = f
  /\ SetsOut(f)
  /\ UNCHANGED <<chipVars, chip, booted, settings>>

longfi_send(f) == Transmits("send", f) /\ CountsBytes(f)

longfi_rf_test == Transmits("rf_test", TestFrame) /\ UNCHANGED txVars

longfi_get_rx == script = <<>> /\ FetchBuffer /\ UNCHANGED radioVars

\* RFE_DIO1 goes to the handler of DIO0, the only one an SX126x has.
HandlerOf(line) == IF line = "DIO1" THEN "DIO0" ELSE line

longfi_handle_event ==
  /\ events # <<>>
  /\ Dispatch(HandlerOf(Head(events)))
  /\ Dispatches

-----------------------------------------------------------------------------
(* The library running.  It uses LoRa only, and never the handler of DIO1: *)
(* of the driver's callbacks three remain.                                 *)

RunCallback ==
  /\ \/ IrqTxDone /\ OnTxDone
     \/ IrqRxDone /\ OnRxDone(fifo)
     \/ IrqCrcError /\ OnRxError
  /\ UNCHANGED <<txVars, at, clientVars>>

RunStep == Issue /\ UNCHANGED longfiVars

\* Mutant: the event is handled again and again, and never returned.
HandleTxDoneLoops ==
  /\ at = "dispatch"
  /\ cur_event = "TxDone"
  /\ Begin(SleepScript)
  /\ UNCHANGED <<chipVars, hostVars, settings, longfiVars>>

HandleTxDone ==
  /\ FinishesTx
  /\ Begin(SleepScript)
  /\ UNCHANGED <<chipVars, hostVars, settings>>

HandleReturn ==
  /\ script = <<>>
  /\ ReturnsTxDone \/ ReturnsRx \/ ReturnsNone
  /\ UNCHANGED radioVars

-----------------------------------------------------------------------------
(* The world around.                                                       *)

Transmitted == TxComplete /\ Airs(fifo)

Received == RxComplete /\ UNCHANGED longfiVars

Restart == Restart127x /\ Forgets

ClientCall ==
  \/ longfi_init
  \/ \E len \in BufferLens : longfi_set_buf(len)
  \/ longfi_rx
  \/ configure_rx
  \/ longfi_get_random
  \/ \E f \in TxFrames \ {TestFrame} : longfi_send(f)
  \/ longfi_rf_test
  \/ longfi_get_rx

Library == RunStep \/ RunCallback \/ HandleTxDone \/ HandleReturn

Next ==
  \/ ClientCall \/ longfi_handle_event \/ Library
  \/ Transmitted \/ Received \/ Restart

Spec == Init /\ [][Next]_vars

\* As for LongFi: the library runs on, the client dispatches and fetches what it
\* was told of, the chip ends what it transmits.
Fairness ==
  /\ WF_vars(Library)
  /\ WF_vars(longfi_handle_event)
  /\ WF_vars(longfi_get_rx)
  /\ WF_vars(Transmitted)

LiveSpec == Spec /\ Fairness

-----------------------------------------------------------------------------
(* Properties.                                                             *)

Drained == booted /\ at = "main" /\ script = <<>> /\ events = <<>>

\* While a packet is out and nothing is left to dispatch, it is still being
\* transmitted: its completion is never swallowed (README.md:72).
TxDoneNotLost == Drained /\ sending # NoFrame => opMode = "TX"

\* The device transmits LoRa and nothing else, with the client's packet in the
\* buffer that receptions use too.
TransmitsThePacket ==
  InitDone /\ opMode = "TX" => chipModem = "LORA" /\ fifo = sending

\* TxDone is the answer to a completed transmission of the packet, not to an
\* interrupt of something else.
TxDoneEarned == at = "txdone" => airings = 1

\* The handler of a completed transmission clears TX_DONE and calls back.
PacketSteps == StepsLeft(Len(script), 2)

\* Every step the device takes brings its client nearer to ClientEvent_TxDone,
\* and nothing else that happens takes it farther away.
PacketProgresses ==
  [][sending # NoFrame /\ sending' = sending =>
       /\ PacketSteps' \leq PacketSteps
       /\ Library \/ longfi_handle_event \/ Transmitted => PacketSteps' < PacketSteps]_vars

Service == INSTANCE LongFiService WITH
             Packets <- TxFrames, None <- NoFrame,
             status <- StatusOf(booted), packet <- sending, heard <- heard

\* Exactly one transmission of exactly the packet sent, then one TxDone.
ServiceLive == Service!LiveSpec
=============================================================================
