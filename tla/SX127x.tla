------------------------------- MODULE SX127x -------------------------------
(***************************************************************************)
(* The SX1276 and SX1272 drivers talking to the chip of SX127xChip.        *)
(*                                                                         *)
(* As in SX126x a call is a script of steps, and the chip acts between two *)
(* of them; SX1276 and SX1272 hold the scripts.  A step is one action, the *)
(* same for both drivers, and stands for the register accesses up to the   *)
(* next one that the properties can tell apart.  Registers that only shape *)
(* the signal are in SX127xConfig.  The timers of board.c are empty, so no *)
(* timeout handler ever runs.                                              *)
(***************************************************************************)
EXTENDS SX127xChip

CONSTANTS Chips,      \* which of the two radios
          Ops,        \* the operations the client uses
          MaxPending  \* it starts no new one while so many events wait

ASSUME DriverAssumption ==
  /\ Chips \subseteq {"SX1276", "SX1272"}
  /\ MaxPending \in Nat \ {0}

VARIABLES chip,        \* the radio of this device
          State,       \* Settings.State
          ModemSet,    \* Settings.Modem
          continuous,  \* the modems set to continuous reception
          script,      \* steps the running call has yet to take
          txBuf,       \* payload of the running Send
          booted       \* Init has been called since the restart

settings   == <<State, ModemSet, continuous>>
driverVars == <<chip, settings, script, txBuf, booted>>
radioVars  == <<chipVars, driverVars>>

States == {"IDLE", "RX", "TX", "CAD"}
Commands == {"Reset", "OpSleep", "OpReceiver", "Sleep", "Standby", "StbyIfAsleep",
  "ModemFsk", "ModemLora", "Idle", "CarrierSense", "MaskAll", "PacketMode",
  "WaveMode", "WriteFifo", "IrqsTx", "DiosTx", "Transmit", "IrqsRx", "DiosRx",
  "Receive", "IrqsCad", "Cad", "ClearRxDone", "CrcError", "RxDone", "FskCrcError",
  "FskRxDone", "ClearTxDone", "TxDone", "RxTimeout", "CadDone"}

DriverTypeOK ==
  /\ ChipTypeOK
  /\ chip \in Chips
  /\ State \in States
  /\ ModemSet \in Modems
  /\ continuous \subseteq Modems
  /\ script \in Seq(Commands)
  /\ txBuf \in Frames
  /\ booted \in BOOLEAN

Statics == [State |-> "IDLE", Modem |-> "FSK", continuous |-> {}]

DriverInit ==
  /\ ChipInit
  /\ chip \in Chips
  /\ State = Statics.State
  /\ ModemSet = Statics.Modem
  /\ continuous = Statics.continuous
  /\ script = <<>>
  /\ txBuf = NoFrame
  /\ booted = FALSE

-----------------------------------------------------------------------------
(* The driver in use.                                                      *)

D76 == INSTANCE SX1276
D72 == INSTANCE SX1272
Pick(of1276, of1272) == IF chip = "SX1276" THEN of1276 ELSE of1272

InitScript == Pick(D76!InitScript, D72!InitScript)
RandomScript == Pick(D76!RandomScript, D72!RandomScript)
SleepScript == Pick(D76!SetSleepScript, D72!SetSleepScript)
StbyScript == Pick(D76!SetStbyScript, D72!SetStbyScript)
WaveScript == Pick(D76!ContinuousWaveScript, D72!ContinuousWaveScript)
NetworkScript == Pick(D76!SetPublicNetworkScript, D72!SetPublicNetworkScript)
ChannelFreeScript(m, sense) ==
  Pick(D76!IsChannelFreeScript(m, sense), D72!IsChannelFreeScript(m, sense))
RxConfigScript(m) == Pick(D76!SetRxConfigScript(m), D72!SetRxConfigScript(m))
TxConfigScript(m) == Pick(D76!SetTxConfigScript(m), D72!SetTxConfigScript(m))
SendScript(m) == Pick(D76!SendScript(m), D72!SendScript(m))
RxScript(m) == Pick(D76!SetRxScript(m), D72!SetRxScript(m))
CadScript(m) == Pick(D76!StartCadScript(m), D72!StartCadScript(m))
ModemScript(m) == Pick(D76!SetModemScript(m), D72!SetModemScript(m))
MaxPayloadScript(m) == Pick(D76!SetMaxPayloadScript(m), D72!SetMaxPayloadScript(m))

\* The script of the handler of a DIO line.
HandlerScript(line) ==
  CASE line = "DIO0" -> Pick(D76!Dio0Script(State, ModemSet), D72!Dio0Script(State, ModemSet))
    [] line = "DIO1" -> Pick(D76!Dio1Script(State, ModemSet), D72!Dio1Script(State, ModemSet))
    [] line = "DIO3" -> Pick(D76!Dio3Script(ModemSet), D72!Dio3Script(ModemSet))

-----------------------------------------------------------------------------
(* Steps that command the chip.                                            *)

Do(c) == /\ script # <<>>
         /\ Head(script) = c
         /\ script' = Tail(script)

hostVars == <<chip, txBuf, booted>>

\* SX1276Reset, with or without a TCXO, ends with a pulse on the reset line.
Reset ==
  /\ Do("Reset")
  /\ opMode' = PowerOn.opMode
  /\ irqMask' = PowerOn.irqMask
  /\ packetMode' = PowerOn.packetMode
  /\ fifo' = NoFrame
  /\ SetLines(PowerOn.chipModem, PowerOn.irqFlags, PowerOn.dio0)
  /\ UNCHANGED <<hostVars, settings>>

\* SetOpMode, Settings.State becoming state.
SetOpMode(c, mode, state) ==
  /\ Do(c)
  /\ EnterMode(mode)
  /\ State' = state
  /\ UNCHANGED <<irqMask, packetMode, hostVars, ModemSet, continuous>>

OpSleep == SetOpMode("OpSleep", "SLEEP", State)
OpReceiver == SetOpMode("OpReceiver", "RX", State)
Sleep == SetOpMode("Sleep", "SLEEP", "IDLE")
Standby == SetOpMode("Standby", "STDBY", "IDLE")
Transmit == SetOpMode("Transmit", "TX", "TX")
Cad == SetOpMode("Cad", "CAD", "CAD")

\* FSK always listens on; LoRa as SetRxConfig said, once by default.
Receive ==
  SetOpMode("Receive",
            IF ModemSet = "FSK" \/ "LORA" \in continuous THEN "RX" ELSE "RX_SINGLE", "RX")

\* "FIFO operations can not take place in Sleep mode" (sx1276.c:847).
StbyIfAsleep ==
  IF opMode = "SLEEP" THEN SetOpMode("StbyIfAsleep", "STDBY", "IDLE")
                      ELSE Do("StbyIfAsleep") /\ UNCHANGED <<chipVars, hostVars, settings>>

\* SetModem asks the chip which modem it uses.  To change it, it puts the chip
\* to sleep, flips LongRangeMode and resets the DIO mapping; State stays.
SetModem(c, m) ==
  /\ Do(c)
  /\ ModemSet' = m
  /\ IF chipModem = m
       THEN UNCHANGED chipVars
       ELSE /\ opMode' = "SLEEP"
            /\ fifo' = NoFrame
            /\ \E kept \in {{}, LoraIrqs} : SetLines(m, irqFlags \cap kept, "00")
            /\ UNCHANGED <<irqMask, packetMode>>
  /\ UNCHANGED <<hostVars, State, continuous>>

ModemFsk == SetModem("ModemFsk", "FSK")
ModemLora == SetModem("ModemLora", "LORA")

Idle ==
  /\ Do("Idle")
  /\ State' = "IDLE"
  /\ UNCHANGED <<chipVars, hostVars, ModemSet, continuous>>

\* The interrupt mask, then what DIO0 shows.
SetIrqs(c, irqs, map) ==
  /\ Do(c)
  /\ irqMask' = irqs
  /\ SetLines(chipModem, irqFlags, map)
  /\ UNCHANGED <<opMode, packetMode, fifo, hostVars, settings>>

\* Mutant: DIO0 mapped to a signal no LoRa transmission raises.
IrqsTxWrongMap == SetIrqs("IrqsTx", {"TX_DONE"}, "10")
IrqsTx == SetIrqs("IrqsTx", {"TX_DONE"}, "01")
IrqsRx == SetIrqs("IrqsRx", {"RX_TIMEOUT", "RX_DONE", "CRC_ERROR"}, "00")
IrqsCad == SetIrqs("IrqsCad", {"CAD_DONE", "CAD_DETECTED"}, dio0)
DiosTx == SetIrqs("DiosTx", irqMask, "00")
DiosRx == SetIrqs("DiosRx", irqMask, "00")
MaskAll == SetIrqs("MaskAll", {}, dio0)

\* The data mode of FSK; a continuous wave also takes the DIO lines away.
SetDataMode(c, packets, map) ==
  /\ Do(c)
  /\ packetMode' = packets
  /\ SetLines(chipModem, irqFlags, map)
  /\ UNCHANGED <<opMode, irqMask, fifo, hostVars, settings>>

PacketMode == SetDataMode("PacketMode", TRUE, dio0)
WaveMode == SetDataMode("WaveMode", FALSE, "11")

\* A sleeping LoRa chip takes nothing in.
WriteFifo ==
  /\ Do("WriteFifo")
  /\ fifo' = IF opMode = "SLEEP" /\ chipModem = "LORA" THEN fifo ELSE txBuf
  /\ UNCHANGED <<opMode, chipModem, irqFlags, irqMask, dio0, packetMode, events,
                 hostVars, settings>>

\* The loop of IsChannelFree: TimerGetElapsedTime of board.c is always 0, so
\* only a busy channel ends it.
CarrierSense == Do("CarrierSense") /\ UNCHANGED <<chipVars, hostVars, settings>>

-----------------------------------------------------------------------------
(* Steps of the interrupt handlers.                                        *)

StateUnlessContinuous(m) == IF m \in continuous THEN State ELSE "IDLE"

\* One branch: it clears flags of the chip and leaves Settings.State as state.
Branch(c, cleared, state) ==
  /\ Do(c)
  /\ SetFlags(irqFlags \ cleared)
  /\ State' = state
  /\ UNCHANGED <<opMode, irqMask, packetMode, fifo, hostVars, ModemSet, continuous>>

ClearRxDone == Branch("ClearRxDone", {"RX_DONE"}, State)
ClearTxDone == Branch("ClearTxDone", {"TX_DONE"}, State)

\* The payload is what the buffer holds now.
IrqRxDone == Branch("RxDone", {}, StateUnlessContinuous("LORA"))
\* Reading the FIFO empty ends PayloadReady.
IrqFskRxDone == Branch("FskRxDone", {"PAYLOAD_READY"}, StateUnlessContinuous("FSK"))
IrqTxDone == Branch("TxDone", {}, "IDLE")
IrqRxTimeout == Branch("RxTimeout", {"RX_TIMEOUT"}, "IDLE")
IrqCadDone ==
  Branch("CadDone", IF "CAD_DETECTED" \in irqFlags THEN {"CAD_DETECTED", "CAD_DONE"}
                                                   ELSE {"CAD_DONE"}, State)

\* A checksum error ends the handler.
Abort(c, cleared, m) ==
  /\ script # <<>>
  /\ Head(script) = c
  /\ script' = <<>>
  /\ SetFlags(irqFlags \ cleared)
  /\ State' = StateUnlessContinuous(m)
  /\ UNCHANGED <<opMode, irqMask, packetMode, fifo, hostVars, ModemSet, continuous>>

IrqCrcError == "CRC_ERROR" \in irqFlags /\ Abort("CrcError", {"CRC_ERROR"}, "LORA")
\* Whether the FSK checksum is on and wrong is left open.  Clearing FifoOverrun
\* empties the FIFO.
IrqFskCrcError == Abort("FskCrcError", {"PAYLOAD_READY"}, "FSK")
IrqCrcOk ==
  /\ \/ Do("CrcError") /\ "CRC_ERROR" \notin irqFlags
     \/ Do("FskCrcError")
  /\ UNCHANGED <<chipVars, hostVars, settings>>

-----------------------------------------------------------------------------
(* Steps by who takes them.                                                *)

\* Steps that no callback follows, the endless loop of IsChannelFree apart.
Issue ==
  \/ Reset \/ OpSleep \/ OpReceiver \/ Sleep \/ Standby \/ StbyIfAsleep
  \/ ModemFsk \/ ModemLora \/ Idle \/ MaskAll \/ PacketMode \/ WaveMode
  \/ WriteFifo \/ IrqsTx \/ DiosTx \/ Transmit \/ IrqsRx \/ DiosRx \/ Receive
  \/ IrqsCad \/ Cad \/ ClearRxDone \/ ClearTxDone \/ IrqCrcOk

\* Branches that call back into the client.
Callback ==
  \/ IrqRxDone \/ IrqFskRxDone \/ IrqTxDone \/ IrqRxTimeout \/ IrqCadDone
  \/ IrqCrcError \/ IrqFskCrcError

TxComplete == ChipSends /\ UNCHANGED driverVars
RxComplete == ChipReceives /\ UNCHANGED driverVars

\* Starting a call: the script it runs.
Begin(s) == script = <<>> /\ script' = s
CallOk(op) == op \in Ops /\ booted /\ Len(events) < MaxPending

Init127x ==
  /\ booted => CallOk("Reinit")
  /\ Begin(InitScript)
  /\ booted' = TRUE
  /\ UNCHANGED <<chipVars, chip, settings, txBuf>>

Simple(op, s) ==
  /\ CallOk(op)
  /\ Begin(s)
  /\ UNCHANGED <<chipVars, hostVars, settings>>

\* The client dispatches the oldest event to the handler of line.
Dispatch(line) ==
  /\ booted
  /\ Begin(HandlerScript(line))
  /\ events' = Tail(events)
  /\ UNCHANGED <<opMode, chipModem, irqFlags, irqMask, dio0, packetMode, fifo,
                 hostVars, settings>>

\* What is set here SetRxConfig sets after SetModem; nothing reads it between.
SetRxConfig(m, on) ==
  /\ CallOk("SetRxConfig")
  /\ Begin(RxConfigScript(m))
  /\ continuous' = IF on THEN continuous \cup {m} ELSE continuous \ {m}
  /\ UNCHANGED <<chipVars, hostVars, State, ModemSet>>

Send(f) ==
  /\ CallOk("Send")
  /\ Begin(SendScript(ModemSet))
  /\ txBuf' = f
  /\ UNCHANGED <<chipVars, chip, booted, settings>>

\* sense: maxCarrierSenseTime is not 0.
IsChannelFree(m, sense) ==
  State = "IDLE" /\ Simple("IsChannelFree", ChannelFreeScript(m, sense))

\* The microcontroller restarts: its memory is lost, the chip goes on.
Restart127x ==
  /\ "Restart" \in Ops
  /\ State' = Statics.State
  /\ ModemSet' = Statics.Modem
  /\ continuous' = Statics.continuous
  /\ script' = <<>>
  /\ txBuf' = NoFrame
  /\ booted' = FALSE
  /\ events' = <<>>
  /\ UNCHANGED <<chip, opMode, chipModem, irqFlags, irqMask, dio0, packetMode, fifo>>

RadioCall ==
  \/ Init127x
  \/ events # <<>> /\ Dispatch(Head(events))
  \/ Simple("Sleep", SleepScript)
  \/ Simple("Standby", StbyScript)
  \/ Simple("Rx", RxScript(ModemSet))
  \/ Simple("StartCad", CadScript(ModemSet))
  \/ Simple("SetTxContinuousWave", WaveScript)
  \/ Simple("Random", RandomScript)
  \/ Simple("SetPublicNetwork", NetworkScript)
  \/ \E m \in Modems :
       \/ Simple("SetModem", ModemScript(m))
       \/ Simple("SetMaxPayloadLength", MaxPayloadScript(m))
       \/ Simple("SetTxConfig", TxConfigScript(m))
       \/ \E sense \in BOOLEAN : IsChannelFree(m, sense)
       \/ \E on \in BOOLEAN : SetRxConfig(m, on)
  \/ \E f \in TxFrames : Send(f)

DriverNext ==
  \/ RadioCall \/ Issue \/ Callback \/ CarrierSense
  \/ TxComplete \/ RxComplete \/ Restart127x

DriverSpec == DriverInit /\ [][DriverNext]_radioVars

-----------------------------------------------------------------------------
(* Properties of the driver.                                               *)

Remaining == {script[i] : i \in DOMAIN script}
InitDone == booted /\ "Idle" \notin Remaining

\* Settings.Modem is the chip's modem, which the handlers, SetRx, SetTx and Send
\* rely on, also after a restart that did not reset the chip.
ModemTracksChip == InitDone => ModemSet = chipModem

\* Between two calls, whatever LoRa operation the chip is in can announce its
\* end: its interrupt is let through and DIO0 shows it.
SignalsItsEnd ==
  InitDone /\ script = <<>> /\ chipModem = "LORA" =>
    /\ opMode = "TX" => "TX_DONE" \in irqMask /\ dio0 = "01"
    /\ opMode \in {"RX", "RX_SINGLE"} => {"RX_DONE", "CRC_ERROR"} \subseteq irqMask /\ dio0 = "00"
    /\ opMode = "CAD" => "CAD_DONE" \in irqMask

\* "FIFO operations can not take place in Sleep mode" (sx1276.c:847): a LoRa
\* payload is written to a chip that is awake.
FifoWrittenAwake ==
  script # <<>> /\ Head(script) = "WriteFifo" /\ chipModem = "LORA" => opMode # "SLEEP"
=============================================================================
