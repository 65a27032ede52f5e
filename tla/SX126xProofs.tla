---------------------------- MODULE SX126xProofs ----------------------------
(***************************************************************************)
(* The driver of SX126x, for every set of frames, operations and bound on  *)
(* the events: its variables keep their types, no command ever waits for a *)
(* sleeping chip, and DIO1 is never left high with nobody to clear it.     *)
(*                                                                         *)
(* Whoever calls the driver, a call only ever puts a well-formed script in *)
(* its place.  The lemmas are therefore stated per kind of step (commands, *)
(* the chip, the start of a call) and used again by LongFiProofs, whose    *)
(* calls start other scripts.                                              *)
(***************************************************************************)
EXTENDS SX126x, TLAPS

\* Commands that must find the chip awake: those that do not wake it, and the
\* branches of the interrupt handler, which set OperatingMode to standby.
NeedsAwake == Blind \cup {"TxDone", "CrcError", "CadDone", "Timeout", "HeaderError"}

\* A script in which no such command follows directly on SetSleep.
WellFormed(s) ==
  /\ s \in Seq(Commands)
  /\ \A i \in 1..(Len(s) - 1) : s[i + 1] \in NeedsAwake => s[i] # "SetSleep"

\* A script a call may start: its first command wakes the chip.
Startable(s) ==
  /\ WellFormed(s)
  /\ s # <<>> => Head(s) \notin NeedsAwake

\* The strengthening of NeverStuck: the driver never takes a sleeping chip for
\* a waking one, and whatever has to find it awake will.
Awake ==
  /\ WellFormed(script)
  /\ chipMode = "SLEEP" => OperatingMode = "SLEEP"
  /\ script # <<>> /\ Head(script) \in NeedsAwake => chipMode # "SLEEP"

DriverInv == DriverTypeOK /\ Awake /\ EdgeNotLost

-----------------------------------------------------------------------------
(* Scripts.                                                                *)

\* Taking the first command from a script leaves a well-formed one, and a
\* command that must find the chip awake does not come right after SetSleep.
LEMMA TailWellFormed ==
  ASSUME NEW s, WellFormed(s), s # <<>>
  PROVE  /\ Head(s) \in Commands
         /\ WellFormed(Tail(s))
         /\ Tail(s) # <<>> /\ Head(Tail(s)) \in NeedsAwake => Head(s) # "SetSleep"
<1>1. s \in Seq(Commands) /\ Len(s) \in Nat \ {0}
  BY DEF WellFormed
<1>2. Tail(s) \in Seq(Commands) /\ Len(Tail(s)) = Len(s) - 1
  BY <1>1
<1>3. \A i \in 1..Len(Tail(s)) : Tail(s)[i] = s[i + 1]
  BY <1>1
<1>4. WellFormed(Tail(s))
  BY <1>1, <1>2, <1>3 DEF WellFormed
<1>5. ASSUME Tail(s) # <<>>, Head(Tail(s)) \in NeedsAwake
      PROVE  Head(s) # "SetSleep"
  <2>1. Len(s) - 1 >= 1
    BY <1>2, <1>5
  <2>2. Head(Tail(s)) = s[2] /\ Head(s) = s[1]
    BY <1>1, <1>2, <1>3, <2>1
  <2> QED
    BY <1>5, <2>1, <2>2 DEF WellFormed
<1> QED
  BY <1>1, <1>4, <1>5

\* Taking the first command removes nothing else from what remains.
LEMMA TailRemaining ==
  ASSUME script \in Seq(Commands), script # <<>>, script' = Tail(script)
  PROVE  /\ Remaining' \subseteq Remaining
         /\ Remaining \subseteq Remaining' \cup {Head(script)}
<1>1. Len(script) \in Nat \ {0} /\ Len(Tail(script)) = Len(script) - 1
  OBVIOUS
<1>2. DOMAIN script = 1..Len(script) /\ DOMAIN Tail(script) = 1..(Len(script) - 1)
  BY <1>1
<1>3. \A i \in 1..(Len(script) - 1) : Tail(script)[i] = script[i + 1]
  BY <1>1
<1>4. ASSUME NEW i \in DOMAIN script, i # 1
      PROVE  i - 1 \in DOMAIN Tail(script) /\ script[i] = Tail(script)[i - 1]
  BY <1>2, <1>3, <1>4, <1>1
<1>5. Head(script) = script[1]
  BY <1>1
<1>6. Remaining \subseteq Remaining' \cup {Head(script)}
  BY <1>4, <1>5 DEF Remaining
<1>7. \A i \in DOMAIN Tail(script) : i + 1 \in DOMAIN script /\ Tail(script)[i] = script[i + 1]
  BY <1>1, <1>2, <1>3
<1>8. Remaining' \subseteq Remaining
  BY <1>7 DEF Remaining
<1> QED
  BY <1>6, <1>8

-----------------------------------------------------------------------------
(* Commands.                                                               *)

Command == Issue \/ Callback \/ CarrierSense

\* Every command takes itself from the script.
LEMMA CommandPops ==
  Command => script # <<>> /\ script' = Tail(script)
BY DEF Command, Issue, Callback, Do, Reset, Wakeup, SetStandby, SetSleep,
   SetTx, SetRx, SetRx0, SetRxDutyCycle, SetCad, SetTxContinuousWave,
   Configure, ModemLora, ModemGfsk, WriteSync, PacketParams, DioIrqAll,
   DioIrqTx, WriteBuffer, GetIrqStatus, ClearIrqStatus, IrqCadDone, IrqSkip,
   IrqTxDone, IrqRxDone, IrqCrcError, IrqTxTimeout, IrqRxTimeout,
   IrqHeaderError, CarrierSense, SetDioIrqParams, IrqTimeoutIn

\* What waiting for BUSY and waking the chip does to it and to the switch.
LEMMA ReadyTypes ==
  ASSUME NEW mode, NEW ant \in BOOLEAN, NEW m, chipMode \in ChipModes,
         CheckDeviceReady(mode, ant, m)
  PROVE  m \in ChipModes /\ antSw' \in BOOLEAN
BY DEF CheckDeviceReady, Woken, ChipModes

\* A command that leaves the chip's mode keeps it a mode.
LEMMA TouchTypes ==
  ASSUME DriverTypeOK, Touch
  PROVE  chipMode' \in ChipModes /\ antSw' \in BOOLEAN
BY ReadyTypes DEF Touch, DriverTypeOK, ChipTypeOK

\* A command that changes the chip's mode leaves the switch a switch.
LEMMA EnterTypes ==
  ASSUME DriverTypeOK, NEW mode, NEW target \in ChipModes, Enter(mode, target)
  PROVE  chipMode' \in ChipModes /\ antSw' \in BOOLEAN
BY ReadyTypes DEF Enter, DriverTypeOK, ChipTypeOK

\* The interrupt registers and the count of events keep their types.
LEMMA SetIrqsTypes ==
  ASSUME NEW irq \in SUBSET Irqs, NEW mask \in SUBSET Irqs, pending \in Nat,
         SetIrqs(irq, mask)
  PROVE  chipIrq' \subseteq Irqs /\ irqMask' \subseteq Irqs /\ pending' \in Nat
BY DEF SetIrqs, DioHigh

\* No command takes a variable out of its type.
LEMMA CommandTypes ==
  ASSUME DriverTypeOK, Command
  PROVE  DriverTypeOK'
<1> USE DEF DriverTypeOK, ChipTypeOK, irqVars, modemVars, rxConfig, callVars, hostVars, chipVars
<1>0. script' \in Seq(Commands)
  BY CommandPops
<1>1. CASE Reset
  BY <1>0, <1>1 DEF Reset, ChipModes, PktTypes, Frames
<1>2. CASE Wakeup
  BY <1>0, <1>2 DEF Wakeup, ChipModes, PktTypes, Frames
<1>3. CASE SetStandby
  BY <1>0, <1>3, EnterTypes DEF SetStandby, OperatingModes, ChipModes
<1>4. CASE SetSleep
  BY <1>0, <1>4, ReadyTypes DEF SetSleep, OperatingModes, ChipModes, Frames
<1>5. CASE SetTx
  BY <1>0, <1>5, EnterTypes DEF SetTx, OperatingModes, ChipModes
<1>6. CASE SetRx
  BY <1>0, <1>6, EnterTypes DEF SetRx, OperatingModes, ChipModes
<1>7. CASE SetRx0
  BY <1>0, <1>7, EnterTypes DEF SetRx0, OperatingModes, ChipModes
<1>8. CASE SetRxDutyCycle
  BY <1>0, <1>8, EnterTypes DEF SetRxDutyCycle, OperatingModes, ChipModes
<1>9. CASE SetCad
  BY <1>0, <1>9, EnterTypes DEF SetCad, OperatingModes, ChipModes
<1>10. CASE SetTxContinuousWave
  BY <1>0, <1>10, EnterTypes DEF SetTxContinuousWave, OperatingModes, ChipModes
<1>11. CASE Configure
  BY <1>0, <1>11, TouchTypes DEF Configure, PktTypes
<1>12. CASE ModemLora
  BY <1>0, <1>12, TouchTypes DEF ModemLora, PktTypes
<1>13. CASE ModemGfsk
  BY <1>0, <1>13, TouchTypes DEF ModemGfsk, PktTypes
<1>14. CASE WriteSync
  BY <1>0, <1>14, TouchTypes DEF WriteSync, PktTypes
<1>15. CASE PacketParams
  BY <1>0, <1>15, TouchTypes DEF PacketParams, PktTypes
<1>16. CASE DioIrqAll
  BY <1>0, <1>16, TouchTypes, SetIrqsTypes DEF DioIrqAll, SetDioIrqParams, Irqs
<1>17. CASE DioIrqTx
  BY <1>0, <1>17, TouchTypes, SetIrqsTypes DEF DioIrqTx, SetDioIrqParams, Irqs
<1>18. CASE WriteBuffer
  BY <1>0, <1>18, TouchTypes DEF WriteBuffer, PktTypes
<1>19. CASE GetIrqStatus
  BY <1>0, <1>19, TouchTypes DEF GetIrqStatus, PktTypes
<1>20. CASE ClearIrqStatus
  BY <1>0, <1>20, TouchTypes, SetIrqsTypes DEF ClearIrqStatus
<1>21. CASE IrqCadDone
  BY <1>0, <1>21 DEF IrqCadDone, OperatingModes
<1>22. CASE IrqSkip
  BY <1>0, <1>22 DEF IrqSkip
<1>23. CASE IrqTxDone
  BY <1>0, <1>23 DEF IrqTxDone, OperatingModes
<1>24. CASE IrqRxDone
  BY <1>0, <1>24, ReadyTypes DEF IrqRxDone, ModeUnlessContinuous, OperatingModes
<1>25. CASE IrqCrcError
  BY <1>0, <1>25 DEF IrqCrcError, ModeUnlessContinuous, OperatingModes
<1>26. CASE IrqTxTimeout
  BY <1>0, <1>26 DEF IrqTxTimeout, IrqTimeoutIn, OperatingModes
<1>27. CASE IrqRxTimeout
  BY <1>0, <1>27 DEF IrqRxTimeout, IrqTimeoutIn, OperatingModes
<1>28. CASE IrqHeaderError
  BY <1>0, <1>28 DEF IrqHeaderError, ModeUnlessContinuous, OperatingModes
<1>29. CASE CarrierSense
  BY <1>0, <1>29, TouchTypes DEF CarrierSense, PktTypes
<1> QED
  BY <1>1, <1>2, <1>3, <1>4, <1>5, <1>6, <1>7, <1>8, <1>9, <1>10, <1>11,
     <1>12, <1>13, <1>14, <1>15, <1>16, <1>17, <1>18, <1>19, <1>20, <1>21,
     <1>22, <1>23, <1>24, <1>25, <1>26, <1>27, <1>28, <1>29 DEF Command,
     Issue, Callback

\* After any command but SetSleep the chip is awake: the command went over SPI
\* and waited for BUSY, or it found the chip awake and left it alone.
LEMMA CommandWakes ==
  ASSUME Awake, Command, chipMode' = "SLEEP"
  PROVE  Head(script) = "SetSleep" /\ OperatingMode' = "SLEEP"
<1>1. \A mode, ant, m : CheckDeviceReady(mode, ant, m) => m # "SLEEP"
  BY DEF CheckDeviceReady, Woken
<1>2. ~Touch /\ \A mode, target : target # "SLEEP" => ~Enter(mode, target)
  BY <1>1 DEF Touch, Enter
<1>3. CASE SetSleep
  BY <1>3 DEF SetSleep, Do
<1>4. ~Reset /\ ~Wakeup
  BY DEF Reset, Wakeup
<1>5. /\ ~SetStandby /\ ~SetTx /\ ~SetRx /\ ~SetRx0 /\ ~SetRxDutyCycle
      /\ ~SetCad /\ ~SetTxContinuousWave
  BY <1>2 DEF SetStandby, SetTx, SetRx, SetRx0, SetRxDutyCycle, SetCad, SetTxContinuousWave
<1>6. /\ ~Configure /\ ~ModemLora /\ ~ModemGfsk /\ ~WriteSync /\ ~PacketParams
      /\ ~DioIrqAll /\ ~DioIrqTx /\ ~WriteBuffer /\ ~CarrierSense
      /\ ~GetIrqStatus /\ ~ClearIrqStatus
  BY <1>2 DEF Configure, ModemLora, ModemGfsk, WriteSync, PacketParams, DioIrqAll,
              DioIrqTx, SetDioIrqParams, WriteBuffer, CarrierSense, GetIrqStatus,
              ClearIrqStatus
<1>7. /\ ~IrqTxDone /\ ~IrqCrcError /\ ~IrqCadDone /\ ~IrqTxTimeout
      /\ ~IrqRxTimeout /\ ~IrqHeaderError
  BY DEF IrqTxDone, IrqCrcError, IrqCadDone, IrqTxTimeout, IrqRxTimeout, IrqTimeoutIn,
         IrqHeaderError, hostVars, chipVars, Awake, NeedsAwake, Do
<1>8. ~IrqRxDone
  BY <1>1 DEF IrqRxDone
<1>9. ~IrqSkip
  BY DEF IrqSkip, hostVars, chipVars, Awake, NeedsAwake, Blind, Do
<1> QED
  BY <1>3, <1>4, <1>5, <1>6, <1>7, <1>8, <1>9 DEF Command, Issue, Callback

\* A command leaves a script whose next command finds the chip awake or wakes it.
LEMMA CommandAwake ==
  ASSUME Awake, Command
  PROVE  Awake'
<1>1. script # <<>> /\ script' = Tail(script)
  BY CommandPops
<1>2. /\ WellFormed(script')
      /\ script' # <<>> /\ Head(script') \in NeedsAwake => Head(script) # "SetSleep"
  BY <1>1, TailWellFormed DEF Awake
<1>3. chipMode' = "SLEEP" => Head(script) = "SetSleep" /\ OperatingMode' = "SLEEP"
  BY CommandWakes
<1> QED
  BY <1>2, <1>3 DEF Awake

\* What a command does to DIO1: it leaves the interrupts alone, changes them as
\* the chip and the board do, or clears them.
LEMMA CommandIrqs ==
  ASSUME Command
  PROVE  /\ booted' = booted
         /\ \/ UNCHANGED irqVars /\ Head(script) \notin {"Reset", "ClearIrqStatus"}
            \/ SetIrqs(chipIrq, irqMask') /\ Head(script) \notin {"Reset", "ClearIrqStatus"}
            \/ chipIrq' = {}
<1> USE DEF irqVars, callVars, hostVars, chipVars, Do
<1>1. CASE Reset
  BY <1>1 DEF Reset
<1>2. CASE Wakeup
  BY <1>2 DEF Wakeup
<1>3. CASE SetStandby
  BY <1>3 DEF SetStandby
<1>4. CASE SetSleep
  BY <1>4 DEF SetSleep
<1>5. CASE SetTx
  BY <1>5 DEF SetTx
<1>6. CASE SetRx
  BY <1>6 DEF SetRx
<1>7. CASE SetRx0
  BY <1>7 DEF SetRx0
<1>8. CASE SetRxDutyCycle
  BY <1>8 DEF SetRxDutyCycle
<1>9. CASE SetCad
  BY <1>9 DEF SetCad
<1>10. CASE SetTxContinuousWave
  BY <1>10 DEF SetTxContinuousWave
<1>11. CASE Configure
  BY <1>11 DEF Configure
<1>12. CASE ModemLora
  BY <1>12 DEF ModemLora
<1>13. CASE ModemGfsk
  BY <1>13 DEF ModemGfsk
<1>14. CASE WriteSync
  BY <1>14 DEF WriteSync
<1>15. CASE PacketParams
  BY <1>15 DEF PacketParams
<1>16. CASE DioIrqAll
  BY <1>16 DEF DioIrqAll, SetDioIrqParams, SetIrqs
<1>17. CASE DioIrqTx
  BY <1>17 DEF DioIrqTx, SetDioIrqParams, SetIrqs
<1>18. CASE WriteBuffer
  BY <1>18 DEF WriteBuffer
<1>19. CASE GetIrqStatus
  BY <1>19 DEF GetIrqStatus
<1>20. CASE ClearIrqStatus
  BY <1>20 DEF ClearIrqStatus, SetIrqs
<1>21. CASE IrqCadDone
  BY <1>21 DEF IrqCadDone
<1>22. CASE IrqSkip
  BY <1>22 DEF IrqSkip
<1>23. CASE IrqTxDone
  BY <1>23 DEF IrqTxDone
<1>24. CASE IrqRxDone
  BY <1>24 DEF IrqRxDone
<1>25. CASE IrqCrcError
  BY <1>25 DEF IrqCrcError
<1>26. CASE IrqTxTimeout
  BY <1>26 DEF IrqTxTimeout, IrqTimeoutIn
<1>27. CASE IrqRxTimeout
  BY <1>27 DEF IrqRxTimeout, IrqTimeoutIn
<1>28. CASE IrqHeaderError
  BY <1>28 DEF IrqHeaderError
<1>29. CASE CarrierSense
  BY <1>29 DEF CarrierSense
<1> QED
  BY <1>1, <1>2, <1>3, <1>4, <1>5, <1>6, <1>7, <1>8, <1>9, <1>10, <1>11,
     <1>12, <1>13, <1>14, <1>15, <1>16, <1>17, <1>18, <1>19, <1>20, <1>21,
     <1>22, <1>23, <1>24, <1>25, <1>26, <1>27, <1>28, <1>29 DEF Command,
     Issue, Callback

\* DIO1 is high after a change of the interrupts only if an edge was captured
\* or it was high before.
LEMMA EdgeCaptured ==
  ASSUME NEW irq, NEW mask, pending \in Nat, SetIrqs(irq, mask), DioHigh(chipIrq', irqMask')
  PROVE  \/ pending' > 0
         \/ DioHigh(chipIrq, irqMask) /\ pending' = pending
BY DEF SetIrqs, DioHigh

\* No command leaves DIO1 high unattended: SX126xClearIrqStatus clears everything.
LEMMA CommandEdge ==
  ASSUME DriverTypeOK, EdgeNotLost, Command
  PROVE  EdgeNotLost'
<1> SUFFICES ASSUME ResetDone', DioHigh(chipIrq', irqMask')
             PROVE  pending' > 0 \/ "ClearIrqStatus" \in Remaining'
  BY DEF EdgeNotLost, DioHigh
<1>1. /\ Remaining' \subseteq Remaining
      /\ Remaining \subseteq Remaining' \cup {Head(script)}
  BY CommandPops, TailRemaining DEF DriverTypeOK
<1>2. pending \in Nat
  BY DEF DriverTypeOK, ChipTypeOK
<1>3. chipIrq' # {}
  BY DEF DioHigh
<1>4. /\ booted' = booted
      /\ Head(script) \notin {"Reset", "ClearIrqStatus"}
      /\ UNCHANGED irqVars \/ SetIrqs(chipIrq, irqMask')
  BY <1>3, CommandIrqs
<1>5. ResetDone
  BY <1>1, <1>4 DEF ResetDone
<1>6. "ClearIrqStatus" \in Remaining => "ClearIrqStatus" \in Remaining'
  BY <1>1, <1>4
<1>7. pending' > 0 \/ (DioHigh(chipIrq, irqMask) /\ pending' = pending)
  <2>1. CASE UNCHANGED irqVars
    BY <2>1 DEF irqVars
  <2>2. CASE SetIrqs(chipIrq, irqMask')
    BY <2>2, <1>2, EdgeCaptured
  <2> QED
    BY <1>4, <2>1, <2>2
<1> QED
  BY <1>5, <1>6, <1>7 DEF EdgeNotLost

-----------------------------------------------------------------------------
(* The chip.                                                               *)

\* The chip keeps its registers, and all else, in their types.
LEMMA ChipTypes ==
  ASSUME DriverTypeOK, TxComplete \/ Receive
  PROVE  DriverTypeOK'
<1> USE DEF DriverTypeOK, ChipTypeOK, driverVars, Latch
<1>1. CASE TxComplete
  BY <1>1, SetIrqsTypes DEF TxComplete, ChipTxDone, ChipModes
<1>2. ASSUME Receive
      PROVE  /\ chipMode' \in ChipModes
             /\ fifo' \in Frames
             /\ \E irqs \in SUBSET Irqs : Latch(irqs)
             /\ UNCHANGED <<chipPkt, chipSync, driverVars>>
  BY <1>2 DEF Receive, ChipReceives, ChipPreamble, ChipRxDone, ChipHeaderError,
              ChipRxTimeout, ChipCadDone, ChipModes, SingleRx, Receiving, Frames, Irqs
<1>3. CASE Receive
  BY <1>2, <1>3, SetIrqsTypes
<1> QED
  BY <1>1, <1>3

\* The chip never falls asleep by itself.
LEMMA ChipAwake ==
  ASSUME Awake, TxComplete \/ Receive
  PROVE  Awake'
<1>1. chipMode' # "SLEEP" /\ UNCHANGED driverVars
  BY DEF TxComplete, ChipTxDone, Receive, ChipReceives, ChipPreamble, ChipRxDone,
         ChipHeaderError, ChipRxTimeout, ChipCadDone, SingleRx, Receiving
<1> QED
  BY <1>1 DEF Awake, driverVars

\* What the chip latches by itself raises an edge, which the board captures.
LEMMA ChipEdge ==
  ASSUME DriverTypeOK, EdgeNotLost, TxComplete \/ Receive
  PROVE  EdgeNotLost'
<1>1. (\E irqs : Latch(irqs)) /\ UNCHANGED driverVars
  BY DEF TxComplete, ChipTxDone, Receive, ChipReceives, ChipPreamble, ChipRxDone,
         ChipHeaderError, ChipRxTimeout, ChipCadDone
<1>2. ASSUME DioHigh(chipIrq', irqMask')
      PROVE  pending' > 0 \/ (DioHigh(chipIrq, irqMask) /\ pending' = pending)
  BY <1>1, <1>2, EdgeCaptured DEF Latch, DriverTypeOK, ChipTypeOK
<1>3. Remaining' = Remaining /\ (ResetDone' <=> ResetDone)
  BY <1>1 DEF driverVars, ResetDone, Remaining
<1> QED
  BY <1>2, <1>3 DEF EdgeNotLost, DioHigh

-----------------------------------------------------------------------------
(* The start of a call.                                                    *)

\* Between two calls nothing remains, so a new script may bring its own reset
\* or its own handler; without either DIO1 is left as it was.
LEMMA CallStarts ==
  ASSUME Awake, EdgeNotLost, script = <<>>, Startable(script'),
         UNCHANGED <<chipMode, chipIrq, irqMask, OperatingMode>>,
         \/ UNCHANGED <<pending, booted>>
         \/ "ClearIrqStatus" \in Remaining'
         \/ "Reset" \in Remaining'
  PROVE  Awake' /\ EdgeNotLost'
<1>1. Awake'
  BY DEF Awake, Startable
<1>2. Remaining = {}
  BY DEF Remaining
<1>3. EdgeNotLost'
  BY <1>2 DEF EdgeNotLost, ResetDone, DioHigh
<1> QED
  BY <1>1, <1>3

\* A restart leaves a driver that assumes the chip to be asleep.
LEMMA RestartStarts ==
  ASSUME Restart126x
  PROVE  Awake' /\ EdgeNotLost'
<1>1. script' = <<>> /\ ~booted' /\ OperatingMode' = "SLEEP"
  BY DEF Restart126x, Statics
<1>2. WellFormed(<<>>)
  BY DEF WellFormed
<1> QED
  BY <1>1, <1>2 DEF Awake, EdgeNotLost, ResetDone

\* Every script of the driver may be started, and so may two in a row.
LEMMA ScriptsStartable ==
  /\ Startable(InitScript)
  /\ Startable(SetChannelScript)
  /\ Startable(SendScript)
  /\ Startable(SleepScript)
  /\ Startable(StandbyScript)
  /\ Startable(RxScript)
  /\ Startable(SetRxDutyCycleScript)
  /\ Startable(StartCadScript)
  /\ Startable(ContinuousWaveScript)
  /\ Startable(RandomScript)
  /\ Startable(SetPublicNetworkScript)
  /\ Startable(SetMaxPayloadScript)
  /\ Startable(IrqScript)
  /\ \A pkt : Startable(SetModemScript(pkt))
  /\ \A pkt : Startable(SetTxConfigScript(pkt)) /\ Startable(SetRxConfigScript(pkt))
  /\ \A pkt, sense : Startable(IsChannelFreeScript(pkt, sense))
<1> USE DEF Startable, WellFormed, NeedsAwake, Blind, Commands, SpiCommands, Modem
<1>1. Startable(InitScript)
  BY DEF InitScript
<1>2. Startable(SetChannelScript)
  BY DEF SetChannelScript
<1>3. Startable(SendScript)
  BY DEF SendScript
<1>4. Startable(SleepScript)
  BY DEF SleepScript
<1>5. Startable(StandbyScript)
  BY DEF StandbyScript
<1>6. Startable(RxScript)
  BY DEF RxScript
<1>7. Startable(SetRxDutyCycleScript)
  BY DEF SetRxDutyCycleScript
<1>8. Startable(StartCadScript)
  BY DEF StartCadScript
<1>9. Startable(ContinuousWaveScript)
  BY DEF ContinuousWaveScript
<1>10. Startable(RandomScript)
  BY DEF RandomScript
<1>11. Startable(SetPublicNetworkScript)
  BY DEF SetPublicNetworkScript
<1>12. Startable(SetMaxPayloadScript)
  BY DEF SetMaxPayloadScript
<1>13. Startable(IrqScript)
  BY DEF IrqScript
<1>14. ASSUME NEW pkt PROVE Startable(SetTxConfigScript(pkt))
  BY DEF SetTxConfigScript
<1>15. ASSUME NEW pkt PROVE Startable(SetRxConfigScript(pkt))
  <2>1. /\ Startable(<<"Configure", "ModemLora", "PacketParams", "Configure">>)
        /\ Startable(<<"Configure", "SetStandby", "ModemGfsk", "PacketParams", "Configure">>)
    OBVIOUS
  <2> HIDE DEF Startable
  <2> QED
    BY <2>1, Zenon DEF SetRxConfigScript
<1>16. ASSUME NEW pkt, NEW sense PROVE Startable(IsChannelFreeScript(pkt, sense))
  <2>1. \A m \in {"ModemLora", "ModemGfsk"} :
          /\ Startable(<<m, "Configure", "DioIrqAll", "SetRx", "CarrierSense", "SetSleep">>)
          /\ Startable(<<m, "Configure", "DioIrqAll", "SetRx", "SetSleep">>)
    OBVIOUS
  <2>2. Modem(pkt) \in {"ModemLora", "ModemGfsk"}
    OBVIOUS
  <2> HIDE DEF Startable, Modem
  <2> QED
    BY <2>1, <2>2, Zenon DEF IsChannelFreeScript
<1>17. ASSUME NEW pkt PROVE Startable(SetModemScript(pkt))
  BY DEF SetModemScript
<1> QED
  BY <1>1, <1>2, <1>3, <1>4, <1>5, <1>6, <1>7, <1>8, <1>9, <1>10, <1>11,
     <1>12, <1>13, <1>14, <1>15, <1>16, <1>17

\* Two scripts in a row, as longfi_init and longfi_send run them, may be started.
LEMMA ConcatStartable ==
  ASSUME NEW s, NEW t, Startable(s), Startable(t), s # <<>>
  PROVE  Startable(s \o t)
<1>1. s \in Seq(Commands) /\ t \in Seq(Commands)
  BY DEF Startable, WellFormed
<1>2. s \o t \in Seq(Commands) /\ Len(s \o t) = Len(s) + Len(t) /\ Len(s) > 0
  BY <1>1
<1>3. \A i \in 1..Len(s \o t) : (s \o t)[i] = IF i <= Len(s) THEN s[i] ELSE t[i - Len(s)]
  BY <1>1, <1>2
<1>4. Head(s \o t) = Head(s)
  BY <1>1, <1>2, <1>3
<1>5. ASSUME NEW i \in 1..(Len(s \o t) - 1), (s \o t)[i + 1] \in NeedsAwake
      PROVE  (s \o t)[i] # "SetSleep"
  <2>1. CASE i < Len(s)
    BY <1>1, <1>2, <1>3, <1>5, <2>1 DEF Startable, WellFormed
  <2>2. CASE i = Len(s)
    <3>1. Len(t) > 0 /\ (s \o t)[i + 1] = t[1] /\ Head(t) = t[1]
      BY <1>1, <1>2, <1>3, <2>2
    <3> QED
      BY <1>1, <1>5, <3>1 DEF Startable
  <2>3. CASE i > Len(s)
    <3>1. i - Len(s) \in 1..(Len(t) - 1) /\ (s \o t)[i] = t[i - Len(s)]
      BY <1>1, <1>2, <1>3, <2>3
    <3>2. (s \o t)[i + 1] = t[(i - Len(s)) + 1]
      BY <1>1, <1>2, <1>3, <2>3
    <3> QED
      BY <1>5, <3>1, <3>2 DEF Startable, WellFormed
  <2> QED
    BY <1>1, <1>2, <2>1, <2>2, <2>3
<1> QED
  BY <1>1, <1>2, <1>4, <1>5 DEF Startable, WellFormed

-----------------------------------------------------------------------------
(* The driver under any client.                                            *)

\* The start of a call keeps the types.
LEMMA CallTypes ==
  ASSUME DriverTypeOK, RadioCall
  PROVE  DriverTypeOK'
<1> USE DEF DriverTypeOK, ChipTypeOK, chipVars, rxConfig, callVars
<1> HIDE DEF DriverTypeOK
<1>1. ASSUME NEW op, NEW s, Startable(s), Simple(op, s)
      PROVE  DriverTypeOK'
  BY <1>1 DEF DriverTypeOK, Simple, Begin, Startable, WellFormed
<1>2. CASE Init126x
  BY <1>2, ScriptsStartable DEF DriverTypeOK, Init126x, Begin, Startable, WellFormed
<1>3. CASE OnDioIrq
  BY <1>3, ScriptsStartable DEF DriverTypeOK, OnDioIrq, Begin, Startable, WellFormed
<1>4. ASSUME NEW pkt \in PktTypes, SetTxConfig(pkt)
      PROVE  DriverTypeOK'
  BY <1>4, ScriptsStartable DEF DriverTypeOK, SetTxConfig, Begin, Startable, WellFormed
<1>5. ASSUME NEW pkt \in PktTypes, NEW continuous \in BOOLEAN, NEW timed \in BOOLEAN,
             SetRxConfig(pkt, continuous, timed)
      PROVE  DriverTypeOK'
  BY <1>5, ScriptsStartable DEF DriverTypeOK, SetRxConfig, Begin, Startable, WellFormed
<1>6. ASSUME NEW f \in TxFrames, Send(f)
      PROVE  DriverTypeOK'
  BY <1>6, ScriptsStartable DEF DriverTypeOK, Send, Begin, Startable, WellFormed, Frames
<1>7. ASSUME NEW enable \in BOOLEAN, SetPublicNetwork(enable)
      PROVE  DriverTypeOK'
  BY <1>7, ScriptsStartable DEF DriverTypeOK, SetPublicNetwork, Begin, Startable, WellFormed
<1>8. ASSUME NEW pkt \in PktTypes, NEW sense \in BOOLEAN, IsChannelFree(pkt, sense)
      PROVE  DriverTypeOK'
  BY <1>1, <1>8, ScriptsStartable DEF IsChannelFree
<1> QED
  BY <1>1, <1>2, <1>3, <1>4, <1>5, <1>6, <1>7, <1>8, ScriptsStartable DEF RadioCall

\* A call that is neither SX126xRadioInit nor the handler leaves DIO1 alone.
LEMMA CallKeepsInv ==
  ASSUME DriverInv, RadioCall
  PROVE  Awake' /\ EdgeNotLost'
<1> USE DEF DriverInv, chipVars, callVars
<1>1. ASSUME NEW s, Startable(s), Begin(s),
             UNCHANGED <<chipMode, chipIrq, irqMask, pending, OperatingMode, booted>>
      PROVE  Awake' /\ EdgeNotLost'
  BY <1>1, CallStarts DEF Begin
<1>2. CASE Init126x
  <2>1. script' = InitScript /\ "Reset" \in Remaining'
    BY <1>2 DEF Init126x, Begin, InitScript, Remaining
  <2> QED
    BY <1>2, <2>1, CallStarts, ScriptsStartable DEF Init126x, Begin
<1>3. CASE OnDioIrq
  <2>1. script' = IrqScript /\ "ClearIrqStatus" \in Remaining'
    BY <1>3 DEF OnDioIrq, Begin, IrqScript, Remaining
  <2> QED
    BY <1>3, <2>1, CallStarts, ScriptsStartable DEF OnDioIrq, Begin
<1>4. ASSUME NEW op, NEW s, Startable(s), Simple(op, s)
      PROVE  Awake' /\ EdgeNotLost'
  BY <1>1, <1>4 DEF Simple
<1>5. ASSUME NEW pkt, SetTxConfig(pkt)
      PROVE  Awake' /\ EdgeNotLost'
  BY <1>1, <1>5, ScriptsStartable DEF SetTxConfig
<1>6. ASSUME NEW pkt, NEW continuous, NEW timed, SetRxConfig(pkt, continuous, timed)
      PROVE  Awake' /\ EdgeNotLost'
  BY <1>1, <1>6, ScriptsStartable DEF SetRxConfig
<1>7. ASSUME NEW f, Send(f)
      PROVE  Awake' /\ EdgeNotLost'
  BY <1>1, <1>7, ScriptsStartable DEF Send
<1>8. ASSUME NEW enable, SetPublicNetwork(enable)
      PROVE  Awake' /\ EdgeNotLost'
  BY <1>1, <1>8, ScriptsStartable DEF SetPublicNetwork
<1>9. ASSUME NEW pkt, NEW sense, IsChannelFree(pkt, sense)
      PROVE  Awake' /\ EdgeNotLost'
  BY <1>4, <1>9, ScriptsStartable DEF IsChannelFree
<1> QED
  BY <1>2, <1>3, <1>4, <1>5, <1>6, <1>7, <1>8, <1>9, ScriptsStartable DEF RadioCall

\* What the C startup code leaves has its type.
LEMMA StaticsTypes ==
  /\ Statics.OperatingMode = "SLEEP"
  /\ Statics.PacketType = "GFSK"
  /\ Statics.RxContinuous = FALSE
  /\ Statics.rxTimed = FALSE
  /\ Statics.network = FALSE
  /\ <<>> \in Seq(Commands)
BY DEF Statics

\* A restart keeps the types.
LEMMA RestartTypes ==
  ASSUME DriverTypeOK, Restart126x
  PROVE  DriverTypeOK'
BY StaticsTypes DEF DriverTypeOK, ChipTypeOK, Restart126x, OperatingModes, PktTypes, Frames

\* The invariant holds when the board is powered on.
LEMMA DriverInitInv ==
  ASSUME DriverInit
  PROVE  DriverInv
<1> USE StaticsTypes DEF DriverInit, ChipInit
<1>1. DriverTypeOK
  BY DEF DriverTypeOK, ChipTypeOK, ChipModes, PktTypes, OperatingModes, Frames
<1>2. Awake
  BY DEF Awake, WellFormed
<1>3. EdgeNotLost
  BY DEF EdgeNotLost, ResetDone
<1> QED
  BY <1>1, <1>2, <1>3 DEF DriverInv

\* It holds after a step that leaves the radio alone.
LEMMA DriverStutter ==
  ASSUME DriverInv, UNCHANGED radioVars
  PROVE  DriverInv'
<1> USE DEF DriverInv, radioVars, chipVars, driverVars
<1>1. DriverTypeOK'
  BY DEF DriverTypeOK, ChipTypeOK
<1>2. Awake'
  BY DEF Awake
<1>3. EdgeNotLost'
  BY DEF EdgeNotLost, ResetDone, Remaining, DioHigh
<1> QED
  BY <1>1, <1>2, <1>3

\* It holds after every step of the driver, the chip and the client.
LEMMA DriverStep ==
  ASSUME DriverInv, [DriverNext]_radioVars
  PROVE  DriverInv'
<1> USE DEF DriverInv
<1>1. CASE RadioCall
  BY <1>1, CallTypes, CallKeepsInv
<1>2. CASE Command
  BY <1>2, CommandTypes, CommandAwake, CommandEdge
<1>3. CASE TxComplete \/ Receive
  BY <1>3, ChipTypes, ChipAwake, ChipEdge
<1>4. CASE Restart126x
  BY <1>4, RestartTypes, RestartStarts
<1>5. CASE UNCHANGED radioVars
  BY <1>5, DriverStutter
<1> QED
  BY <1>1, <1>2, <1>3, <1>4, <1>5 DEF DriverNext, Command

\* No client of Radio_t, whatever it calls and whatever the chip does meanwhile,
\* brings the driver out of its invariant.
THEOREM DriverInvariant == DriverSpec => []DriverInv
<1>1. DriverInit => DriverInv
  BY DriverInitInv
<1>2. DriverInv /\ [DriverNext]_radioVars => DriverInv'
  BY DriverStep
<1> QED
  BY <1>1, <1>2, PTL DEF DriverSpec

\* The driver's state and the chip's stay within their types: the commands of
\* radio.c and sx126x.c only ever set the modes, modems and masks they name.
THEOREM DriverTypeCorrect == DriverSpec => []DriverTypeOK
BY DriverInvariant, PTL DEF DriverInv

\* A due command finds the chip awake or wakes it.
LEMMA AwakeNeverStuck == DriverInv => NeverStuck
BY DEF DriverInv, Awake, NeverStuck, NeedsAwake

\* SX126xWaitOnBusy, which has no limit, never waits for a sleeping chip.
THEOREM DriverNeverStuck == DriverSpec => []NeverStuck
<1>1. DriverInv => NeverStuck
  BY AwakeNeverStuck
<1> QED
  BY <1>1, DriverInvariant, PTL

\* DIO1 is never left high with no event in the FIFO and no
\* SX126xClearIrqStatus to come, after which the radio would be mute for ever.
THEOREM DriverEdgeNotLost == DriverSpec => []EdgeNotLost
BY DriverInvariant, PTL DEF DriverInv

-----------------------------------------------------------------------------
(* The cached packet type, for a client that initialises the radio once.   *)

\* Until the chip has been reset the cache holds what the C startup code left.
ModemInv ==
  /\ DriverTypeOK
  /\ ~booted => script = <<>> /\ PacketType = "GFSK"
  /\ "Reset" \in Remaining => script = InitScript /\ PacketType = "GFSK"
  /\ PacketTypeTracksChip

NoReset(s) == \A i \in DOMAIN s : s[i] # "Reset"

\* Only SX126xRadioInit resets the chip.
LEMMA ScriptsKeepChip ==
  /\ NoReset(SetChannelScript)
  /\ NoReset(SendScript)
  /\ NoReset(SleepScript)
  /\ NoReset(StandbyScript)
  /\ NoReset(RxScript)
  /\ NoReset(SetRxDutyCycleScript)
  /\ NoReset(StartCadScript)
  /\ NoReset(ContinuousWaveScript)
  /\ NoReset(RandomScript)
  /\ NoReset(SetPublicNetworkScript)
  /\ NoReset(SetMaxPayloadScript)
  /\ NoReset(IrqScript)
  /\ \A pkt : NoReset(SetModemScript(pkt))
  /\ \A pkt : NoReset(SetTxConfigScript(pkt)) /\ NoReset(SetRxConfigScript(pkt))
  /\ \A pkt, sense : NoReset(IsChannelFreeScript(pkt, sense))
<1> USE DEF NoReset, Modem
<1>1. /\ NoReset(SetChannelScript)
      /\ NoReset(SendScript)
      /\ NoReset(SleepScript)
      /\ NoReset(StandbyScript)
      /\ NoReset(RxScript)
      /\ NoReset(SetRxDutyCycleScript)
      /\ NoReset(StartCadScript)
      /\ NoReset(ContinuousWaveScript)
      /\ NoReset(RandomScript)
      /\ NoReset(SetPublicNetworkScript)
      /\ NoReset(SetMaxPayloadScript)
      /\ NoReset(IrqScript)
  BY DEF SetChannelScript, SendScript, SleepScript, StandbyScript, RxScript,
     SetRxDutyCycleScript, StartCadScript, ContinuousWaveScript, RandomScript,
     SetPublicNetworkScript, SetMaxPayloadScript, IrqScript
<1>2. ASSUME NEW pkt PROVE NoReset(SetTxConfigScript(pkt))
  BY DEF SetTxConfigScript
<1>3. ASSUME NEW pkt PROVE NoReset(SetRxConfigScript(pkt))
  <2>1. CASE pkt = "LORA"
    BY <2>1 DEF SetRxConfigScript
  <2>2. CASE pkt # "LORA"
    BY <2>2 DEF SetRxConfigScript
  <2> QED
    BY <2>1, <2>2
<1>4. ASSUME NEW pkt, NEW sense PROVE NoReset(IsChannelFreeScript(pkt, sense))
  <2>1. CASE sense
    BY <2>1 DEF IsChannelFreeScript
  <2>2. CASE ~sense
    BY <2>2 DEF IsChannelFreeScript
  <2> QED
    BY <2>1, <2>2
<1>5. ASSUME NEW pkt PROVE NoReset(SetModemScript(pkt))
  BY DEF SetModemScript
<1> QED
  BY <1>1, <1>2, <1>3, <1>4, <1>5

\* The commands that change the chip's modem, or what the driver takes it for,
\* leave the two equal.
LEMMA CommandModem ==
  ASSUME Command, Head(script) # "Reset", PacketType = chipPkt
  PROVE  PacketType' = chipPkt'
<1> USE DEF irqVars, modemVars, hostVars, chipVars, Do
<1>1. ~Reset
  BY DEF Reset
<1>2. CASE Wakeup
  BY <1>2 DEF Wakeup
<1>3. CASE SetStandby
  BY <1>3 DEF SetStandby
<1>4. CASE SetSleep
  BY <1>4 DEF SetSleep
<1>5. CASE SetTx
  BY <1>5 DEF SetTx
<1>6. CASE SetRx
  BY <1>6 DEF SetRx
<1>7. CASE SetRx0
  BY <1>7 DEF SetRx0
<1>8. CASE SetRxDutyCycle
  BY <1>8 DEF SetRxDutyCycle
<1>9. CASE SetCad
  BY <1>9 DEF SetCad
<1>10. CASE SetTxContinuousWave
  BY <1>10 DEF SetTxContinuousWave
<1>11. CASE Configure
  BY <1>11 DEF Configure
<1>12. CASE ModemLora
  BY <1>12 DEF ModemLora
<1>13. CASE ModemGfsk
  BY <1>13 DEF ModemGfsk
<1>14. CASE WriteSync
  BY <1>14 DEF WriteSync
<1>15. CASE PacketParams
  BY <1>15 DEF PacketParams
<1>16. CASE DioIrqAll
  BY <1>16 DEF DioIrqAll, SetDioIrqParams
<1>17. CASE DioIrqTx
  BY <1>17 DEF DioIrqTx, SetDioIrqParams
<1>18. CASE WriteBuffer
  BY <1>18 DEF WriteBuffer
<1>19. CASE GetIrqStatus
  BY <1>19 DEF GetIrqStatus
<1>20. CASE ClearIrqStatus
  BY <1>20 DEF ClearIrqStatus
<1>21. CASE IrqCadDone
  BY <1>21 DEF IrqCadDone
<1>22. CASE IrqSkip
  BY <1>22 DEF IrqSkip
<1>23. CASE IrqTxDone
  BY <1>23 DEF IrqTxDone
<1>24. CASE IrqRxDone
  BY <1>24 DEF IrqRxDone
<1>25. CASE IrqCrcError
  BY <1>25 DEF IrqCrcError
<1>26. CASE IrqTxTimeout
  BY <1>26 DEF IrqTxTimeout, IrqTimeoutIn
<1>27. CASE IrqRxTimeout
  BY <1>27 DEF IrqRxTimeout, IrqTimeoutIn
<1>28. CASE IrqHeaderError
  BY <1>28 DEF IrqHeaderError
<1>29. CASE CarrierSense
  BY <1>29 DEF CarrierSense
<1> QED
  BY <1>1, <1>2, <1>3, <1>4, <1>5, <1>6, <1>7, <1>8, <1>9, <1>10, <1>11,
     <1>12, <1>13, <1>14, <1>15, <1>16, <1>17, <1>18, <1>19, <1>20, <1>21,
     <1>22, <1>23, <1>24, <1>25, <1>26, <1>27, <1>28, <1>29 DEF Command,
     Issue, Callback

\* Every command keeps the cached packet type that of the chip.
LEMMA CommandKeepsModemInv ==
  ASSUME ModemInv, Command
  PROVE  ModemInv'
<1> USE DEF ModemInv
<1>1. /\ script # <<>>
      /\ script' = Tail(script)
      /\ booted' = booted
      /\ DriverTypeOK'
  BY CommandPops, CommandIrqs, CommandTypes
<1>2. /\ Remaining' \subseteq Remaining
      /\ Remaining \subseteq Remaining' \cup {Head(script)}
  BY <1>1, TailRemaining DEF DriverTypeOK
<1>3. CASE Head(script) = "Reset"
  <2>1. "Reset" \in Remaining
    BY <1>1, <1>3 DEF Remaining, DriverTypeOK
  <2>2. "Reset" \notin Remaining'
    <3>1. \A i \in 1..6 : Tail(InitScript)[i] # "Reset" /\ Len(Tail(InitScript)) = 6
      BY DEF InitScript
    <3>2. DOMAIN Tail(InitScript) = 1..6
      BY DEF InitScript
    <3> QED
      BY <1>1, <2>1, <3>1, <3>2 DEF Remaining
  <2>3. Reset
    BY <1>3 DEF Command, Issue, Callback, Do, Wakeup, SetStandby, SetSleep, SetTx, SetRx,
                SetRx0, SetRxDutyCycle, SetCad, SetTxContinuousWave, Configure, ModemLora,
                ModemGfsk, WriteSync, PacketParams, DioIrqAll, DioIrqTx, SetDioIrqParams,
                WriteBuffer, GetIrqStatus, ClearIrqStatus, CarrierSense, IrqCadDone, IrqSkip,
                IrqTxDone, IrqRxDone, IrqCrcError, IrqTxTimeout, IrqRxTimeout, IrqTimeoutIn,
                IrqHeaderError
  <2> QED
    BY <1>1, <2>1, <2>2, <2>3 DEF Reset, PacketTypeTracksChip
<1>4. CASE Head(script) # "Reset"
  <2>1. "Reset" \notin Remaining
    BY <1>1, <1>4 DEF InitScript
  <2>2. PacketType' = chipPkt'
    BY <1>1, <1>4, <2>1, CommandModem DEF PacketTypeTracksChip, ResetDone, DriverTypeOK
  <2> QED
    BY <1>1, <1>2, <2>1, <2>2 DEF PacketTypeTracksChip
<1> QED
  BY <1>3, <1>4

\* The start of a call changes neither; SX126xRadioInit brings the chip's to GFSK.
LEMMA CallKeepsModemInv ==
  ASSUME "Reinit" \notin Ops, ModemInv, RadioCall
  PROVE  ModemInv'
<1> USE DEF ModemInv, chipVars, callVars
<1>1. DriverTypeOK'
  BY CallTypes
<1>2. ASSUME NEW s, NoReset(s), Begin(s), booted, UNCHANGED <<booted, PacketType, chipPkt>>
      PROVE  ModemInv'
  <2>1. "Reset" \notin Remaining /\ "Reset" \notin Remaining'
    BY <1>2 DEF Begin, Remaining, NoReset
  <2> QED
    BY <1>1, <1>2, <2>1 DEF PacketTypeTracksChip, ResetDone
<1>3. CASE Init126x
  <2>1. script' = InitScript /\ booted' /\ PacketType' = "GFSK"
    BY <1>3 DEF Init126x, CallOk, Begin
  <2>2. "Reset" \in Remaining'
    BY <2>1 DEF InitScript, Remaining
  <2> QED
    BY <1>1, <2>1, <2>2 DEF PacketTypeTracksChip, ResetDone
<1>4. CASE OnDioIrq
  BY <1>2, <1>4, ScriptsKeepChip DEF OnDioIrq
<1>5. ASSUME NEW op, NEW s, NoReset(s), Simple(op, s)
      PROVE  ModemInv'
  BY <1>2, <1>5 DEF Simple, CallOk
<1>6. ASSUME NEW pkt, SetTxConfig(pkt)
      PROVE  ModemInv'
  BY <1>2, <1>6, ScriptsKeepChip DEF SetTxConfig, CallOk
<1>7. ASSUME NEW pkt, NEW continuous, NEW timed, SetRxConfig(pkt, continuous, timed)
      PROVE  ModemInv'
  BY <1>2, <1>7, ScriptsKeepChip DEF SetRxConfig, CallOk
<1>8. ASSUME NEW f, Send(f)
      PROVE  ModemInv'
  BY <1>2, <1>8, ScriptsKeepChip DEF Send, CallOk
<1>9. ASSUME NEW enable, SetPublicNetwork(enable)
      PROVE  ModemInv'
  BY <1>2, <1>9, ScriptsKeepChip DEF SetPublicNetwork, CallOk
<1>10. ASSUME NEW pkt, NEW sense, IsChannelFree(pkt, sense)
       PROVE  ModemInv'
  BY <1>5, <1>10, ScriptsKeepChip DEF IsChannelFree
<1> QED
  BY <1>3, <1>4, <1>5, <1>6, <1>7, <1>8, <1>9, <1>10, ScriptsKeepChip DEF RadioCall

\* The chip keeps its modem, and a restart forgets the cached one.
LEMMA OtherStepsKeepModemInv ==
  ASSUME ModemInv, TxComplete \/ Receive \/ Restart126x \/ UNCHANGED radioVars
  PROVE  ModemInv'
<1> USE DEF ModemInv
<1>1. CASE TxComplete \/ Receive
  <2>1. UNCHANGED <<chipPkt, driverVars>>
    BY <1>1 DEF TxComplete, ChipTxDone, Receive, ChipReceives, ChipPreamble, ChipRxDone,
                ChipHeaderError, ChipRxTimeout, ChipCadDone
  <2> QED
    BY <1>1, <2>1, ChipTypes DEF driverVars, Remaining, PacketTypeTracksChip, ResetDone
<1>2. CASE Restart126x
  <2>1. script' = <<>> /\ ~booted' /\ PacketType' = "GFSK"
    BY <1>2, StaticsTypes DEF Restart126x
  <2> QED
    BY <1>2, <2>1, RestartTypes DEF Remaining, PacketTypeTracksChip, ResetDone
<1>3. CASE UNCHANGED radioVars
  <2> USE <1>3 DEF radioVars, chipVars, driverVars
  <2>1. DriverTypeOK'
    BY DEF DriverTypeOK, ChipTypeOK
  <2> QED
    BY <2>1 DEF Remaining, PacketTypeTracksChip, ResetDone
<1> QED
  BY <1>1, <1>2, <1>3

\* While the client initialises the radio only once per start of the program,
\* the packet type cached in sx126x.c is that of the chip after every command,
\* so the silent switches of SX126xSetPacketParams and SX126xSetModulationParams
\* happen exactly when they are due.
THEOREM DriverTracksPacketType ==
  ASSUME "Reinit" \notin Ops
  PROVE  DriverSpec => []PacketTypeTracksChip
<1>1. DriverInit => ModemInv
  <2> SUFFICES ASSUME DriverInit PROVE ModemInv
    OBVIOUS
  <2>1. DriverTypeOK
    BY DriverInitInv DEF DriverInv
  <2> QED
    BY <2>1, StaticsTypes DEF DriverInit, ModemInv, Remaining, PacketTypeTracksChip, ResetDone
<1>2. ModemInv /\ [DriverNext]_radioVars => ModemInv'
  BY CommandKeepsModemInv, CallKeepsModemInv, OtherStepsKeepModemInv DEF DriverNext, Command
<1>3. ModemInv => PacketTypeTracksChip
  BY DEF ModemInv
<1> QED
  BY <1>1, <1>2, <1>3, PTL DEF DriverSpec
=============================================================================
