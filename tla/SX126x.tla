------------------------------- MODULE SX126x -------------------------------
(***************************************************************************)
(* The SX126x driver (src/radio/sx126x/radio.c, sx126x.c, sx126x-board.c)  *)
(* talking to the chip of SX126xChip over SPI.                             *)
(*                                                                         *)
(* A call of the Radio_t interface is a fixed sequence of driver commands, *)
(* its script.  The client starts a call by setting script; every command  *)
(* is one action, and between two commands the chip may do anything it can *)
(* do: raise an interrupt, finish a transmission, receive a frame.  The    *)
(* interrupt handler SX126xRadioIrqProcess is a script too, since the      *)
(* client runs it from its main loop and not from the interrupt.           *)
(*                                                                         *)
(* Commands whose data no property tells apart (modulation, power, TCXO,   *)
(* frequency, register reads) are all "Configure": they pass               *)
(* SX126xCheckDeviceReady and change nothing else.  The timers of board.c  *)
(* are empty functions, so starting or stopping one is no step.            *)
(***************************************************************************)
EXTENDS SX126xChip

CONSTANTS Ops,         \* the operations the client uses
          MaxPending   \* it starts no new one while so many events wait

ASSUME MaxPendingAssumption == MaxPending \in Nat \ {0}

VARIABLES OperatingMode,  \* the mode the driver believes the chip is in
          PacketType,     \* the modem it believes the chip uses
          paramsPkt,      \* SX126x.PacketParams.PacketType
          RxContinuous,   \* reception is continuous
          rxTimed,        \* RxTimeout is not 0
          netCurrent,     \* SX126xRadioPublicNetwork.Current
          netPrevious,    \* SX126xRadioPublicNetwork.Previous
          irqRegs,        \* interrupts read by the running SX126xRadioIrqProcess
          antSw,          \* the antenna switch is on
          script,         \* commands the running call still has to issue
          txBuf,          \* payload of the running SX126xRadioSend
          booted          \* SX126xRadioInit has been called since the restart

irqVars   == <<chipIrq, irqMask, pending>>
modemVars == <<chipPkt, chipSync, PacketType, paramsPkt, netCurrent, netPrevious>>
rxConfig  == <<RxContinuous, rxTimed>>
callVars  == <<irqRegs, txBuf, booted>>

driverVars == <<OperatingMode, PacketType, paramsPkt, RxContinuous, rxTimed,
                netCurrent, netPrevious, irqRegs, antSw, script, txBuf, booted>>

radioVars == <<chipVars, driverVars>>

OperatingModes == {"SLEEP", "STDBY_RC", "TX", "RX", "RX_DC", "CAD"}

\* Commands that reach the chip over SPI, and those that only run on the host.
SpiCommands ==
  {"SetStandby", "SetSleep", "SetTx", "SetRx", "SetRx0", "SetRxDutyCycle",
   "SetCad", "SetTxContinuousWave", "ModemLora", "ModemGfsk", "WriteSync",
   "PacketParams", "DioIrqAll", "DioIrqTx", "WriteBuffer", "Configure",
   "GetIrqStatus", "ClearIrqStatus", "RxDone", "CarrierSense"}
Commands == SpiCommands \cup
  {"Reset", "Wakeup", "TxDone", "CrcError", "CadDone", "Timeout", "HeaderError"}

DriverTypeOK ==
  /\ ChipTypeOK
  /\ OperatingMode \in OperatingModes
  /\ PacketType \in PktTypes
  /\ paramsPkt \in PktTypes
  /\ RxContinuous \in BOOLEAN
  /\ rxTimed \in BOOLEAN
  /\ netCurrent \in BOOLEAN
  /\ netPrevious \in BOOLEAN
  /\ irqRegs \subseteq Irqs
  /\ antSw \in BOOLEAN
  /\ script \in Seq(Commands)
  /\ txBuf \in Frames
  /\ booted \in BOOLEAN

\* The driver's static variables as the C startup code leaves them.
Statics ==
  [OperatingMode |-> "SLEEP", PacketType |-> "GFSK", RxContinuous |-> FALSE,
   rxTimed |-> FALSE, network |-> FALSE]

DriverInit ==
  /\ ChipInit
  /\ OperatingMode = Statics.OperatingMode
  /\ PacketType = Statics.PacketType
  /\ paramsPkt = Statics.PacketType
  /\ RxContinuous = Statics.RxContinuous
  /\ rxTimed = Statics.rxTimed
  /\ netCurrent = Statics.network
  /\ netPrevious = Statics.network
  /\ irqRegs = {}
  /\ antSw \in BOOLEAN
  /\ script = <<>>
  /\ txBuf = NoFrame
  /\ booted = FALSE

-----------------------------------------------------------------------------
(* The calls of Radio_t as command sequences.                              *)

Modem(pkt) == IF pkt = "LORA" THEN "ModemLora" ELSE "ModemGfsk"

InitScript == <<"Reset", "Wakeup", "SetStandby", "Configure",
                "SetStandby", "Configure", "DioIrqAll">>
\* Mutant: the radio is configured while it goes on receiving.
SetTxConfigInRx(pkt) == <<Modem(pkt), "PacketParams", "Configure">>
SetTxConfigScript(pkt) == <<"SetStandby", Modem(pkt), "PacketParams", "Configure">>
SetRxConfigScript(pkt) ==
  IF pkt = "LORA" THEN <<"Configure", "ModemLora", "PacketParams", "Configure">>
                  ELSE <<"Configure", "SetStandby", "ModemGfsk", "PacketParams", "Configure">>
SetChannelScript == <<"Configure">>
\* Mutant: the transmission starts before its payload is written.
SendBeforeWrite == <<"Configure", "DioIrqTx", "PacketParams", "SetTx", "WriteBuffer">>
SendScript == <<"Configure", "DioIrqTx", "PacketParams", "WriteBuffer", "SetTx">>
SleepScript == <<"SetSleep">>
StandbyScript == <<"SetStandby">>
SetModemScript(pkt) == <<Modem(pkt)>>
\* Mutant: the interrupts are set up after reception has started.
RxBeforeIrqs == <<"SetRx", "DioIrqAll">>
RxScript == <<"DioIrqAll", "SetRx">>
SetRxDutyCycleScript == <<"SetRxDutyCycle">>
StartCadScript == <<"SetCad">>
ContinuousWaveScript == <<"Configure", "SetTxContinuousWave">>
RandomScript == <<"ModemLora", "SetRx0", "Configure", "SetSleep">>
IsChannelFreeScript(pkt, sense) ==
  IF sense THEN <<Modem(pkt), "Configure", "DioIrqAll", "SetRx", "CarrierSense", "SetSleep">>
           ELSE <<Modem(pkt), "Configure", "DioIrqAll", "SetRx", "SetSleep">>
SetPublicNetworkScript == <<"ModemLora", "WriteSync">>
SetMaxPayloadScript == <<"PacketParams">>
\* Mutant: the interrupts are cleared before they are read.
ClearBeforeRead == <<"ClearIrqStatus", "GetIrqStatus", "TxDone", "RxDone",
                     "CrcError", "CadDone", "Timeout", "HeaderError">>
IrqScript == <<"GetIrqStatus", "ClearIrqStatus", "TxDone", "RxDone",
               "CrcError", "CadDone", "Timeout", "HeaderError">>

-----------------------------------------------------------------------------
(* Commands.                                                               *)

Do(c) == /\ script # <<>>
         /\ Head(script) = c
         /\ script' = Tail(script)

\* The modes an awakening may leave the chip in.
Woken ==
  IF chipMode = "SLEEP" THEN {"STDBY"}
  ELSE IF chipMode = "RX_DC" THEN {"RX_DC", "STDBY"} ELSE {chipMode}

\* SX126xCheckDeviceReady, when OperatingMode is mode and the antenna switch is
\* ant: a chip believed asleep is woken, then the driver spins until BUSY is
\* low.  A sleeping chip holds BUSY high for ever; m is the chip's mode after.
CheckDeviceReady(mode, ant, m) ==
  \/ /\ mode \in {"SLEEP", "RX_DC"}
     /\ m \in Woken
     /\ antSw' = TRUE
  \/ /\ mode \notin {"SLEEP", "RX_DC"}
     /\ chipMode # "SLEEP"
     /\ m = chipMode
     /\ antSw' = ant

\* A command that leaves the chip in its mode, and one that changes it.
Touch == \E m \in ChipModes : CheckDeviceReady(OperatingMode, antSw, m) /\ chipMode' = m
Enter(mode, target) ==
  \E m \in ChipModes : CheckDeviceReady(mode, antSw, m) /\ chipMode' = target

\* The reset line: the chip loses its configuration; no command is sent.
Reset ==
  /\ Do("Reset")
  /\ chipMode' = "STDBY"
  /\ chipIrq' = {}
  /\ irqMask' = {}
  /\ chipPkt' = "GFSK"
  /\ chipSync' = FALSE
  /\ fifo' = NoFrame
  /\ UNCHANGED <<pending, OperatingMode, PacketType, paramsPkt, netCurrent,
                 netPrevious, rxConfig, antSw, callVars>>

Wakeup ==
  /\ Do("Wakeup")
  /\ chipMode' = IF chipMode = "SLEEP" THEN "STDBY" ELSE chipMode
  /\ UNCHANGED <<fifo, irqVars, modemVars, rxConfig, callVars, OperatingMode, antSw>>

SetStandby ==
  /\ Do("SetStandby")
  /\ Enter(OperatingMode, "STDBY")
  /\ OperatingMode' = "STDBY_RC"
  /\ UNCHANGED <<fifo, irqVars, modemVars, rxConfig, callVars>>

\* Mutant: SX126xAntSwOff is forgotten.
SleepAntennaOn ==
  /\ Do("SetSleep")
  /\ \E m \in ChipModes : CheckDeviceReady(OperatingMode, antSw, m)
  /\ chipMode' = "SLEEP"
  /\ OperatingMode' = "SLEEP"
  /\ chipIrq' \in {chipIrq, {}}
  /\ fifo' = NoFrame
  /\ UNCHANGED <<irqMask, pending, modemVars, rxConfig, callVars>>

\* The switch goes off before the command, whose CheckDeviceReady may turn it
\* on again.  A sleeping chip keeps its configuration (warm start) but not its
\* data buffer; whether it keeps latched interrupts is left open.
SetSleep ==
  /\ Do("SetSleep")
  /\ \E m \in ChipModes : CheckDeviceReady(OperatingMode, FALSE, m)
  /\ chipMode' = "SLEEP"
  /\ OperatingMode' = "SLEEP"
  /\ chipIrq' \in {chipIrq, {}}
  /\ fifo' = NoFrame
  /\ UNCHANGED <<irqMask, pending, modemVars, rxConfig, callVars>>

\* OperatingMode is set first, so that a chip still asleep is not woken.
SetTx ==
  /\ Do("SetTx")
  /\ Enter("TX", "TX")
  /\ OperatingMode' = "TX"
  /\ UNCHANGED <<fifo, irqVars, modemVars, rxConfig, callVars>>

SetRx ==
  /\ Do("SetRx")
  /\ Enter("RX", IF RxContinuous THEN "RX_CONT" ELSE IF rxTimed THEN "RX_TIMED" ELSE "RX")
  /\ OperatingMode' = "RX"
  /\ UNCHANGED <<fifo, irqVars, modemVars, rxConfig, callVars>>

\* SX126xSetRx( 0 ) of SX126xRadioRandom.
SetRx0 ==
  /\ Do("SetRx0")
  /\ Enter("RX", "RX")
  /\ OperatingMode' = "RX"
  /\ UNCHANGED <<fifo, irqVars, modemVars, rxConfig, callVars>>

SetRxDutyCycle ==
  /\ Do("SetRxDutyCycle")
  /\ Enter(OperatingMode, "RX_DC")
  /\ OperatingMode' = "RX_DC"
  /\ UNCHANGED <<fifo, irqVars, modemVars, rxConfig, callVars>>

SetCad ==
  /\ Do("SetCad")
  /\ Enter(OperatingMode, "CAD")
  /\ OperatingMode' = "CAD"
  /\ UNCHANGED <<fifo, irqVars, modemVars, rxConfig, callVars>>

\* OperatingMode is not updated: the driver goes on believing the old mode.
SetTxContinuousWave ==
  /\ Do("SetTxContinuousWave")
  /\ Enter(OperatingMode, "CW")
  /\ UNCHANGED <<fifo, irqVars, modemVars, rxConfig, callVars, OperatingMode>>

Configure ==
  /\ Do("Configure")
  /\ Touch
  /\ UNCHANGED <<fifo, irqVars, modemVars, rxConfig, callVars, OperatingMode>>

\* SX126xRadioSetModem: the chip forgets a public sync word when it changes to
\* GFSK, and the driver restores it when LoRa comes back, if it noticed.
ModemLora ==
  /\ Do("ModemLora")
  /\ Touch
  /\ chipPkt' = "LORA"
  /\ PacketType' = "LORA"
  /\ netCurrent' = netPrevious
  /\ chipSync' = IF netCurrent # netPrevious THEN netPrevious ELSE chipSync
  /\ UNCHANGED <<fifo, irqVars, paramsPkt, netPrevious, rxConfig, callVars, OperatingMode>>

ModemGfsk ==
  /\ Do("ModemGfsk")
  /\ Touch
  /\ chipPkt' = "GFSK"
  /\ PacketType' = "GFSK"
  /\ netCurrent' = FALSE
  /\ chipSync' = FALSE
  /\ UNCHANGED <<fifo, irqVars, paramsPkt, netPrevious, rxConfig, callVars, OperatingMode>>

WriteSync ==
  /\ Do("WriteSync")
  /\ Touch
  /\ chipSync' = netCurrent
  /\ UNCHANGED <<fifo, irqVars, chipPkt, PacketType, paramsPkt, netCurrent,
                 netPrevious, rxConfig, callVars, OperatingMode>>

\* Mutant: the modem is changed and the cached type is not.
PacketParamsUncached ==
  /\ Do("PacketParams")
  /\ Touch
  /\ IF PacketType = paramsPkt
       THEN UNCHANGED <<chipPkt, chipSync>>
       ELSE /\ chipPkt' = paramsPkt
            /\ chipSync' = IF paramsPkt = "GFSK" THEN FALSE ELSE chipSync
  /\ UNCHANGED <<fifo, irqVars, PacketType, paramsPkt, netCurrent, netPrevious,
                 rxConfig, callVars, OperatingMode>>

\* SX126xSetPacketParams silently changes the chip's modem when the cached one
\* is not that of the parameters.
PacketParams ==
  /\ Do("PacketParams")
  /\ Touch
  /\ IF PacketType = paramsPkt
       THEN UNCHANGED <<chipPkt, chipSync>>
       ELSE /\ chipPkt' = paramsPkt
            /\ chipSync' = IF paramsPkt = "GFSK" THEN FALSE ELSE chipSync
  /\ PacketType' = paramsPkt
  /\ UNCHANGED <<fifo, irqVars, paramsPkt, netCurrent, netPrevious, rxConfig,
                 callVars, OperatingMode>>

SetDioIrqParams(c, irqs) ==
  /\ Do(c)
  /\ Touch
  /\ SetIrqs(chipIrq, irqs)
  /\ UNCHANGED <<fifo, modemVars, rxConfig, callVars, OperatingMode>>

DioIrqAll == SetDioIrqParams("DioIrqAll", Irqs)
\* Mutant: the completion of a transmission is masked.
DioIrqTxTimeout == SetDioIrqParams("DioIrqTx", {"TIMEOUT"})
DioIrqTx == SetDioIrqParams("DioIrqTx", {"TX_DONE", "TIMEOUT"})

WriteBuffer ==
  /\ Do("WriteBuffer")
  /\ Touch
  /\ fifo' = txBuf
  /\ UNCHANGED <<irqVars, modemVars, rxConfig, callVars, OperatingMode>>

\* The loop of SX126xRadioIsChannelFree: TimerGetElapsedTime of board.c is
\* always 0, so only a busy channel ends it.
CarrierSense ==
  /\ Do("CarrierSense")
  /\ Touch
  /\ UNCHANGED <<fifo, irqVars, modemVars, rxConfig, callVars, OperatingMode>>

-----------------------------------------------------------------------------
(* SX126xRadioIrqProcess.                                                  *)

GetIrqStatus ==
  /\ Do("GetIrqStatus")
  /\ Touch
  /\ irqRegs' = chipIrq
  /\ UNCHANGED <<fifo, irqVars, modemVars, rxConfig, txBuf, booted, OperatingMode>>

\* Mutant: only the interrupts read are cleared, so DIO1 may stay high.
ClearIrqsRead ==
  /\ Do("ClearIrqStatus")
  /\ Touch
  /\ SetIrqs(chipIrq \ irqRegs, irqMask)
  /\ UNCHANGED <<fifo, modemVars, rxConfig, callVars, OperatingMode>>

\* Every latched interrupt is cleared, also one raised since GetIrqStatus.
ClearIrqStatus ==
  /\ Do("ClearIrqStatus")
  /\ Touch
  /\ SetIrqs({}, irqMask)
  /\ UNCHANGED <<fifo, modemVars, rxConfig, callVars, OperatingMode>>

\* One branch of the handler; hostVars is what a branch without SPI leaves alone.
hostVars == <<chipVars, PacketType, paramsPkt, netCurrent, netPrevious, rxConfig,
              antSw, txBuf, booted>>
ModeUnlessContinuous == IF RxContinuous THEN OperatingMode ELSE "STDBY_RC"

IrqTxDone ==
  /\ Do("TxDone")
  /\ "TX_DONE" \in irqRegs
  /\ OperatingMode' = "STDBY_RC"
  /\ UNCHANGED <<hostVars, irqRegs>>

\* The payload handed to the RxDone callback is what the buffer holds now.
IrqRxDone ==
  /\ Do("RxDone")
  /\ "RX_DONE" \in irqRegs
  /\ OperatingMode' = ModeUnlessContinuous
  /\ \E m \in ChipModes : CheckDeviceReady(OperatingMode', antSw, m) /\ chipMode' = m
  /\ UNCHANGED <<fifo, irqVars, modemVars, rxConfig, callVars>>

IrqCrcError ==
  /\ Do("CrcError")
  /\ "CRC_ERROR" \in irqRegs
  /\ OperatingMode' = ModeUnlessContinuous
  /\ UNCHANGED <<hostVars, irqRegs>>

IrqCadDone ==
  /\ Do("CadDone")
  /\ "CAD_DONE" \in irqRegs
  /\ OperatingMode' = "STDBY_RC"
  /\ UNCHANGED <<hostVars, irqRegs>>

IrqTimeoutIn(mode) ==
  /\ Do("Timeout")
  /\ "TIMEOUT" \in irqRegs
  /\ OperatingMode = mode
  /\ OperatingMode' = "STDBY_RC"
  /\ UNCHANGED <<hostVars, irqRegs>>
IrqTxTimeout == IrqTimeoutIn("TX")
IrqRxTimeout == IrqTimeoutIn("RX")

\* The last branch: irqRegs goes out of scope.
IrqHeaderError ==
  /\ Do("HeaderError")
  /\ "HEADER_ERROR" \in irqRegs
  /\ OperatingMode' = ModeUnlessContinuous
  /\ irqRegs' = {}
  /\ UNCHANGED hostVars

\* A branch whose interrupt is not among those read.
IrqSkip ==
  /\ \/ Do("TxDone") /\ "TX_DONE" \notin irqRegs
     \/ Do("RxDone") /\ "RX_DONE" \notin irqRegs
     \/ Do("CrcError") /\ "CRC_ERROR" \notin irqRegs
     \/ Do("CadDone") /\ "CAD_DONE" \notin irqRegs
     \/ Do("Timeout") /\ ("TIMEOUT" \notin irqRegs \/ OperatingMode \notin {"TX", "RX"})
     \/ Do("HeaderError") /\ "HEADER_ERROR" \notin irqRegs
  /\ irqRegs' = IF Tail(script) = <<>> THEN {} ELSE irqRegs
  /\ UNCHANGED <<hostVars, OperatingMode>>

-----------------------------------------------------------------------------
(* Steps by who takes them.                                                *)

\* Commands that no callback follows, the endless loop of IsChannelFree apart.
Issue ==
  \/ Reset \/ Wakeup \/ SetStandby \/ SetSleep \/ SetTx \/ SetRx \/ SetRx0
  \/ SetRxDutyCycle \/ SetCad \/ SetTxContinuousWave \/ Configure
  \/ ModemLora \/ ModemGfsk \/ WriteSync \/ PacketParams
  \/ DioIrqAll \/ DioIrqTx \/ WriteBuffer
  \/ GetIrqStatus \/ ClearIrqStatus \/ IrqCadDone \/ IrqSkip

\* Branches of the handler that call back into the client.
Callback ==
  \/ IrqTxDone \/ IrqRxDone \/ IrqCrcError
  \/ IrqTxTimeout \/ IrqRxTimeout \/ IrqHeaderError

TxComplete == ChipTxDone /\ UNCHANGED driverVars
Receive == ChipReceives /\ UNCHANGED driverVars

\* Starting a call: the script it runs, and what else it sets before it.
Begin(s) == script = <<>> /\ script' = s
CallOk(op) == op \in Ops /\ booted /\ pending < MaxPending

\* SX126xRadioInit, the first call after a restart, or a later one.
Init126x ==
  /\ booted => CallOk("Reinit")
  /\ Begin(InitScript)
  /\ booted' = TRUE
  /\ UNCHANGED <<chipVars, OperatingMode, PacketType, paramsPkt, rxConfig,
                 netCurrent, netPrevious, irqRegs, antSw, txBuf>>

\* Calls that set nothing but their script.
Simple(op, s) ==
  /\ CallOk(op)
  /\ Begin(s)
  /\ UNCHANGED <<chipVars, OperatingMode, PacketType, paramsPkt, rxConfig,
                 netCurrent, netPrevious, callVars, antSw>>

\* Mutant: the handler runs without an event.
OnDioIrqUnasked ==
  /\ booted
  /\ Begin(IrqScript)
  /\ pending' = pending - 1
  /\ UNCHANGED <<chipMode, chipIrq, irqMask, chipPkt, chipSync, fifo, OperatingMode,
                 PacketType, paramsPkt, rxConfig, netCurrent, netPrevious,
                 callVars, antSw>>

\* SX126xRadioOnDioIrq, called when the client dispatches an event.
OnDioIrq ==
  /\ booted
  /\ pending > 0
  /\ Begin(IrqScript)
  /\ pending' = pending - 1
  /\ UNCHANGED <<chipMode, chipIrq, irqMask, chipPkt, chipSync, fifo, OperatingMode,
                 PacketType, paramsPkt, rxConfig, netCurrent, netPrevious,
                 callVars, antSw>>

SetTxConfig(pkt) ==
  /\ CallOk("SetTxConfig")
  /\ Begin(SetTxConfigScript(pkt))
  /\ paramsPkt' = pkt
  /\ UNCHANGED <<chipVars, OperatingMode, PacketType, rxConfig,
                 netCurrent, netPrevious, callVars, antSw>>

\* A LoRa configuration always sets a timeout; a GFSK one when symbTimeout,
\* which continuous reception zeroes, is long enough.
SetRxConfig(pkt, continuous, timed) ==
  /\ CallOk("SetRxConfig")
  /\ Begin(SetRxConfigScript(pkt))
  /\ paramsPkt' = pkt
  /\ RxContinuous' = continuous
  /\ rxTimed' = (pkt = "LORA" \/ (timed /\ ~continuous))
  /\ UNCHANGED <<chipVars, OperatingMode, PacketType, netCurrent, netPrevious,
                 callVars, antSw>>

Send(f) ==
  /\ CallOk("Send")
  /\ Begin(SendScript)
  /\ txBuf' = f
  /\ UNCHANGED <<chipVars, OperatingMode, PacketType, paramsPkt, rxConfig,
                 netCurrent, netPrevious, irqRegs, booted, antSw>>

SetPublicNetwork(enable) ==
  /\ CallOk("SetPublicNetwork")
  /\ Begin(SetPublicNetworkScript)
  /\ netCurrent' = enable
  /\ netPrevious' = enable
  /\ UNCHANGED <<chipVars, OperatingMode, PacketType, paramsPkt, rxConfig,
                 callVars, antSw>>

\* sense: maxCarrierSenseTime is not 0.
IsChannelFree(pkt, sense) ==
  /\ OperatingMode \notin {"TX", "RX", "CAD"}
  /\ Simple("IsChannelFree", IsChannelFreeScript(pkt, sense))

\* The microcontroller restarts: its memory is lost, the chip goes on.
Restart126x ==
  /\ "Restart" \in Ops
  /\ OperatingMode' = Statics.OperatingMode
  /\ PacketType' = Statics.PacketType
  /\ paramsPkt' = Statics.PacketType
  /\ RxContinuous' = Statics.RxContinuous
  /\ rxTimed' = Statics.rxTimed
  /\ netCurrent' = Statics.network
  /\ netPrevious' = Statics.network
  /\ irqRegs' = {}
  /\ script' = <<>>
  /\ txBuf' = NoFrame
  /\ booted' = FALSE
  /\ pending' = 0
  /\ UNCHANGED <<chipMode, chipIrq, irqMask, chipPkt, chipSync, fifo, antSw>>

RadioCall ==
  \/ Init126x
  \/ OnDioIrq
  \/ Simple("SetChannel", SetChannelScript)
  \/ Simple("Sleep", SleepScript)
  \/ Simple("Standby", StandbyScript)
  \/ Simple("Rx", RxScript)
  \/ Simple("SetRxDutyCycle", SetRxDutyCycleScript)
  \/ Simple("StartCad", StartCadScript)
  \/ Simple("SetTxContinuousWave", ContinuousWaveScript)
  \/ Simple("Random", RandomScript)
  \/ Simple("SetMaxPayloadLength", SetMaxPayloadScript)
  \/ \E pkt \in PktTypes : Simple("SetModem", SetModemScript(pkt))
  \/ \E pkt \in PktTypes : SetTxConfig(pkt)
  \/ \E pkt \in PktTypes, sense \in BOOLEAN : IsChannelFree(pkt, sense)
  \/ \E pkt \in PktTypes, continuous, timed \in BOOLEAN :
        SetRxConfig(pkt, continuous, timed)
  \/ \E f \in TxFrames : Send(f)
  \/ \E enable \in BOOLEAN : SetPublicNetwork(enable)

DriverNext ==
  \/ RadioCall \/ Issue \/ Callback \/ CarrierSense
  \/ TxComplete \/ Receive \/ Restart126x

DriverSpec == DriverInit /\ [][DriverNext]_radioVars

-----------------------------------------------------------------------------
(* Properties of the driver.                                               *)

\* Commands that are issued without waking the chip: OperatingMode is already
\* that of a chip in use when SX126xCheckDeviceReady looks at it.
Blind == {"SetTx", "SetRx", "SetRx0", "RxDone"}

Remaining == {script[i] : i \in DOMAIN script}
ResetDone == booted /\ "Reset" \notin Remaining

\* No call ever spins on BUSY for ever (SX126xWaitOnBusy has no limit): when a
\* command is due, either the chip is awake or the driver knows that it sleeps
\* and wakes it first.
NeverStuck ==
  script # <<>> /\ Head(script) \in SpiCommands =>
    \/ chipMode # "SLEEP"
    \/ Head(script) \notin Blind /\ OperatingMode \in {"SLEEP", "RX_DC"}

\* DIO1 is edge triggered, and its line stays high until the interrupts are
\* cleared.  While it is high somebody is going to clear it: an event waits in
\* the FIFO, or the handler has yet to reach SX126xClearIrqStatus.  Otherwise
\* the radio could never interrupt again.
EdgeNotLost ==
  ResetDone /\ DioHigh(chipIrq, irqMask) =>
    pending > 0 \/ "ClearIrqStatus" \in Remaining

\* The cached PacketType is the chip's modem, so that skipping
\* SX126xSetPacketType when they agree is right (sx126x.c:475-480, 540-545, 585-590).
PacketTypeTracksChip == ResetDone => PacketType = chipPkt

\* With the LoRa modem in use the chip has the sync word of the network the
\* driver believes in (radio.c:539-550).
SyncWordTracksNetwork ==
  ResetDone /\ script = <<>> /\ chipPkt = "LORA" => chipSync = netCurrent

\* "Switch is turned off when device is in sleep mode and turned on is all
\* other modes" (sx126x.c:136), between two calls.
AntennaFollowsSleep ==
  ResetDone /\ script = <<>> => (antSw <=> chipMode # "SLEEP")

\* The chip never begins to transmit unless its completion can interrupt: the
\* mask that reception and transmission leave lets TX_DONE through.
TxDoneUnmasked == ResetDone /\ chipMode = "TX" => "TX_DONE" \in irqMask
=============================================================================
