------------------------- MODULE LongFiServiceProofs -------------------------
(***************************************************************************)
(* What the library of LongFi does for its client, for every set of        *)
(* packets and operations.  Whatever it calls, receives and restarts, only *)
(* the packet it sends is transmitted, as LoRa, once and before it is told *)
(* so (LongFiService), and the antenna switch is off exactly while the chip *)
(* sleeps.  A device that only transmits is always told, and sleeps until  *)
(* its next call.                                                          *)
(*                                                                         *)
(* The argument is about what may be running.  ServiceInv: which commands  *)
(* remain to be issued says where a transmission is, what it has prepared, *)
(* and what the interrupts that are latched or read can be about.          *)
(* AntennaInv: no script puts a radio to sleep that the driver believes    *)
(* asleep.  UplinkInv: without receptions and restarts the one interrupt of *)
(* a transmission has one event, which is still to be dispatched, being    *)
(* handled, or told.                                                       *)
(***************************************************************************)
EXTENDS LongFiProofs, SequenceTheorems

BootScript == InitScript \o SleepScript
TransmitScript == SetTxConfigScript("LORA") \o SetChannelScript \o SendScript

\* The commands of the calls that do not transmit, and those of the handler.
ConfigCommands == {"Reset", "Wakeup", "SetStandby", "SetSleep", "SetRx", "SetRx0",
                   "Configure", "ModemLora", "PacketParams", "DioIrqAll"}

\* The commands from the k-th on remain of the script s.
From(s, k) == script = SubSeq(s, k, Len(s))

-----------------------------------------------------------------------------
(* The invariant.                                                          *)

\* Before the reset of the first longfi_init, and before that of any other one,
\* nothing else is under way.
BootInv ==
  /\ ~booted => script = <<>>
  /\ "Reset" \in Remaining => script = BootScript
  /\ ~ResetDone => at = "main" /\ sending = NoFrame
  /\ sending = NoFrame => airings = 0
  /\ at = "main" /\ sending = NoFrame => Remaining \subseteq ConfigCommands
  /\ at = "txdone" => Remaining \subseteq {"SetSleep"}
  /\ irqRegs # {} => at = "dispatch" /\ script # <<>>

\* What the first k - 1 commands of a transmission have prepared: the standby
\* in which no reception disturbs it, the modem, the mask, and the payload.
Prepared(k) ==
  /\ k > 1 => chipMode = "STDBY"
  /\ k > 2 => chipPkt = "LORA" /\ PacketType = "LORA"
  /\ k > 7 => "TX_DONE" \in irqMask
  /\ k > 9 => fifo = sending

Preparing ==
  /\ airings = 0
  /\ chipMode # "TX"
  /\ txBuf = sending
  /\ paramsPkt = "LORA"
  /\ \E k \in 1..10 : From(TransmitScript, k) /\ Prepared(k)

\* The client's packet is on the air.
OnAir ==
  /\ sending # NoFrame
  /\ airings = 0
  /\ chipPkt = "LORA"
  /\ fifo = sending
  /\ "TX_DONE" \in irqMask
  /\ at = "main" => script = <<>>

\* Somebody knows, or may learn, that a transmission is complete.
Completed ==
  \/ "TX_DONE" \in chipIrq \cup irqRegs
  \/ at = "txdone"
  \/ at = "dispatch" /\ cur_event = "TxDone"

\* The handler has read TX_DONE at most once: the command that follows clears it.
HandlerInv ==
  at = "dispatch" => \E k \in 1..9 :
    /\ From(IrqScript, k)
    /\ k = 1 => irqRegs = {}
    /\ k > 2 /\ "TX_DONE" \in irqRegs => "TX_DONE" \notin chipIrq
    /\ cur_event = "TxDone" => k > 3 /\ "TX_DONE" \notin chipIrq

SendInv ==
  ResetDone =>
    /\ chipMode = "TX" => OnAir
    /\ Completed => sending # NoFrame /\ airings = 1
    /\ at = "txdone" => "TX_DONE" \notin chipIrq
    /\ at = "main" /\ sending # NoFrame => script = <<>> \/ Preparing
    /\ sending # NoFrame => airings = 1 \/ chipMode = "TX" \/ (at = "main" /\ Preparing)
    /\ airings < 2

ServiceInv == BootInv /\ HandlerInv /\ SendInv

-----------------------------------------------------------------------------
(* The antenna switch.                                                     *)

\* The commands that take the driver out of its sleep without waking the chip.
Wakers == {"SetTx", "SetRx", "SetRx0", "TxDone", "RxDone", "CrcError", "CadDone",
           "Timeout", "HeaderError"}

\* Every SetSleep ends its script and comes after a command that has taken the
\* driver out of its own sleep.  A chip that is reset or woken with the switch
\* off is put to standby before anything that does not wake it.
SleepsLast ==
  \A i \in DOMAIN script :
    /\ script[i] = "SetSleep" =>
         /\ i = Len(script)
         /\ \/ OperatingMode # "SLEEP"
            \/ \E j \in 1..(i - 1) : script[j] \in {"SetStandby", "SetRx0"}
    /\ script[i] \in {"Reset", "Wakeup"} =>
         \E j \in (i + 1)..Len(script) : script[j] = "SetStandby"
    /\ script[i] = "SetStandby" => \A j \in 1..(i - 1) : script[j] \notin Wakers

LibraryCommands == ConfigCommands \cup {"DioIrqTx", "WriteBuffer", "SetTx"}
  \cup {"GetIrqStatus", "ClearIrqStatus", "TxDone", "RxDone", "CrcError", "CadDone",
        "Timeout", "HeaderError"}

AntennaInv ==
  /\ Remaining \subseteq LibraryCommands
  /\ SleepsLast
  /\ chipMode # "RX_DC" /\ OperatingMode # "RX_DC"
  /\ OperatingMode # "SLEEP" => antSw
  /\ ResetDone /\ chipMode = "SLEEP" => ~antSw
  /\ ResetDone /\ ~antSw => chipMode = "SLEEP" \/ "SetStandby" \in Remaining
  /\ at = "dispatch" /\ cur_event = "TxDone" => OperatingMode # "SLEEP"

-----------------------------------------------------------------------------
(* A device that only transmits.                                           *)

UplinkOps == {"send", "rf_test", "Reinit"}

\* The handler runs because a transmission is complete, and finds that out.
UplinkHandlerInv ==
  at = "dispatch" => \E k \in 1..9 :
    /\ From(IrqScript, k)
    /\ airings = 1
    /\ k = 1 => "TX_DONE" \in chipIrq
    /\ k \in 2..8 => irqRegs = {"TX_DONE"}
    /\ k > 2 => chipIrq = {}
    /\ k > 3 => cur_event = "TxDone"

\* Only a complete transmission interrupts, once, and waits in the FIFO until it
\* is dispatched; a radio that was left to doze does, or is about to.
UplinkInv ==
  /\ chipMode \in {"SLEEP", "STDBY", "TX"}
  /\ chipIrq \subseteq {"TX_DONE"} /\ irqRegs \subseteq {"TX_DONE"}
  /\ Remaining \cap {"SetRx", "SetRx0"} = {}
  /\ ~ResetDone /\ chipMode = "TX" => irqMask = {}
  /\ pending = IF at = "main" /\ airings = 1 THEN 1 ELSE 0
  /\ at = "main" /\ airings = 1 => "TX_DONE" \in chipIrq /\ script = <<>>
  /\ UplinkHandlerInv
  /\ asked = "doze" => sending = NoFrame
  /\ asked = "doze" \/ at = "txdone" =>
       "SetSleep" \in Remaining \/ (script = <<>> /\ chipMode = "SLEEP")

-----------------------------------------------------------------------------
(* Scripts.                                                                *)

\* The ten commands of a transmission.
LEMMA TransmitScriptIs ==
  /\ TransmitScript = <<"SetStandby", "ModemLora", "PacketParams", "Configure", "Configure",
                        "Configure", "DioIrqTx", "PacketParams", "WriteBuffer", "SetTx">>
  /\ TransmitScript \in Seq(Commands)
  /\ Len(TransmitScript) = 10
<1> DEFINE a == <<"SetStandby", "ModemLora", "PacketParams", "Configure">>
           b == <<"Configure">>
           c == <<"Configure", "DioIrqTx", "PacketParams", "WriteBuffer", "SetTx">>
           t == <<"SetStandby", "ModemLora", "PacketParams", "Configure", "Configure",
                  "Configure", "DioIrqTx", "PacketParams", "WriteBuffer", "SetTx">>
<1>1. TransmitScript = (a \o b) \o c
  BY DEF TransmitScript, SetTxConfigScript, Modem, SetChannelScript, SendScript
<1>2. /\ a \in Seq(Commands) /\ b \in Seq(Commands) /\ c \in Seq(Commands)
      /\ t \in Seq(Commands) /\ Len(t) = 10
  BY DEF Commands, SpiCommands
<1>3. /\ a \o b \in Seq(Commands) /\ Len(a \o b) = 5
      /\ \A i \in 1..5 : (a \o b)[i] = t[i]
  BY <1>2
<1>4. (a \o b) \o c \in Seq(Commands) /\ Len((a \o b) \o c) = 10
  BY <1>2, <1>3
<1>5. \A i \in 1..10 : ((a \o b) \o c)[i] = t[i]
  BY <1>2, <1>3
<1>6. (a \o b) \o c = t
  BY <1>2, <1>4, <1>5, SeqEqual
<1> QED
  BY <1>1, <1>2, <1>6

\* The eight commands of longfi_init.
LEMMA BootScriptIs ==
  BootScript = <<"Reset", "Wakeup", "SetStandby", "Configure",
                 "SetStandby", "Configure", "DioIrqAll", "SetSleep">>
<1> DEFINE t == <<"Reset", "Wakeup", "SetStandby", "Configure",
                  "SetStandby", "Configure", "DioIrqAll", "SetSleep">>
<1>1. InitScript \in Seq(Commands) /\ SleepScript \in Seq(Commands)
  BY ScriptsStartable DEF Startable, WellFormed
<1>2. BootScript \in Seq(Commands) /\ Len(BootScript) = 8
  BY <1>1 DEF BootScript, InitScript, SleepScript
<1>3. \A i \in 1..8 : BootScript[i] = t[i]
  BY <1>1 DEF BootScript, InitScript, SleepScript
<1>4. t \in Seq(Commands) /\ Len(t) = 8
  BY DEF Commands, SpiCommands
<1> QED
  BY <1>2, <1>3, <1>4, SeqEqual

\* The eight commands of the handler.
LEMMA IrqScriptIs == IrqScript \in Seq(Commands) /\ Len(IrqScript) = 8
BY DEF IrqScript, Commands, SpiCommands

\* Taking the k-th command leaves those from the next one on.
LEMMA FromNext ==
  ASSUME NEW s \in Seq(Commands), NEW k \in 1..Len(s), From(s, k), script' = Tail(script)
  PROVE  /\ script # <<>>
         /\ Head(script) = s[k]
         /\ From(s, k + 1)'
<1>1. /\ SubSeq(s, k, Len(s)) \in Seq(Commands)
      /\ Len(SubSeq(s, k, Len(s))) = Len(s) - k + 1
      /\ \A i \in 1..(Len(s) - k + 1) : SubSeq(s, k, Len(s))[i] = s[k + i - 1]
  OBVIOUS
<1>2. /\ SubSeq(s, k + 1, Len(s)) \in Seq(Commands)
      /\ Len(SubSeq(s, k + 1, Len(s))) = Len(s) - k
      /\ \A i \in 1..(Len(s) - k) : SubSeq(s, k + 1, Len(s))[i] = s[k + i]
  OBVIOUS
<1>3. script \in Seq(Commands) /\ Len(script) = Len(s) - k + 1 /\ script[1] = s[k]
  BY <1>1 DEF From
<1>4. Tail(script) = SubSeq(s, k + 1, Len(s))
  BY <1>1, <1>2, <1>3, SeqEqual DEF From
<1>5. script # <<>> /\ Head(script) = s[k]
  BY <1>3
<1>6. From(s, k + 1)'
  BY <1>4 DEF From
<1> QED
  BY <1>5, <1>6

\* Nothing remains of a script all of whose commands have been taken, and all
\* of a script that has just been started.
LEMMA FromEnds ==
  ASSUME NEW s \in Seq(Commands)
  PROVE  /\ SubSeq(s, Len(s) + 1, Len(s)) = <<>>
         /\ SubSeq(s, 1, Len(s)) = s
<1>1. SubSeq(s, Len(s) + 1, Len(s)) \in Seq(Commands) /\ Len(SubSeq(s, Len(s) + 1, Len(s))) = 0
  OBVIOUS
<1>2. SubSeq(s, 1, Len(s)) = s
  BY SeqEqual
<1> QED
  BY <1>1, <1>2

\* Something remains of a script until its last command has been taken.
LEMMA FromSome ==
  ASSUME NEW s \in Seq(Commands), NEW k \in 1..Len(s)
  PROVE  SubSeq(s, k, Len(s)) # <<>>
<1>1. Len(SubSeq(s, k, Len(s))) = Len(s) - k + 1
  OBVIOUS
<1>2. SubSeq(s, k, Len(s)) = <<>> => Len(SubSeq(s, k, Len(s))) = Len(<<>>)
  BY Zenon
<1>3. Len(<<>>) = 0
  BY EmptySeq
<1> QED
  BY <1>1, <1>2, <1>3

-----------------------------------------------------------------------------
(* Commands.                                                               *)

ModeCommands == {"Reset", "SetStandby", "SetSleep", "SetTx", "SetRx", "SetRx0",
                 "SetRxDutyCycle", "SetCad", "SetTxContinuousWave"}

\* Waking leaves a chip that is not asleep in its mode, and none transmits.
LEMMA WakingKeepsMode ==
  ASSUME NEW mode, NEW ant, NEW m, CheckDeviceReady(mode, ant, m)
  PROVE  /\ m = "TX" => chipMode = "TX"
         /\ chipMode \in {"STDBY", "TX"} => m = chipMode
BY DEF CheckDeviceReady, Woken

\* So does a command that only touches it.
LEMMA TouchKeepsMode ==
  ASSUME Touch
  PROVE  /\ chipMode' = "TX" => chipMode = "TX"
         /\ chipMode \in {"STDBY", "TX"} => chipMode' = chipMode
BY WakingKeepsMode DEF Touch

\* What a command leaves alone, by its name.
LEMMA CommandFrame ==
  ASSUME Command
  PROVE  /\ UNCHANGED <<booted, txBuf, paramsPkt>>
         /\ chipIrq' \subseteq chipIrq
         /\ Head(script) # "GetIrqStatus" => irqRegs' \in {irqRegs, {}}
         /\ chipMode' = "TX" => chipMode = "TX" \/ Head(script) = "SetTx"
         /\ chipMode \in {"STDBY", "TX"} /\ Head(script) \notin ModeCommands =>
              chipMode' = chipMode
         /\ Head(script) \notin {"Reset", "DioIrqAll", "DioIrqTx"} => irqMask' = irqMask
         /\ Head(script) \notin {"Reset", "SetSleep", "WriteBuffer"} => fifo' = fifo
         /\ Head(script) \notin {"Reset", "ModemLora", "ModemGfsk", "PacketParams"} =>
              UNCHANGED <<chipPkt, PacketType>>
<1> USE DEF irqVars, modemVars, callVars, hostVars, chipVars, Do, ModeCommands
<1>1. CASE Reset
  BY <1>1 DEF Reset
<1>2. CASE Wakeup
  BY <1>2 DEF Wakeup
<1>3. CASE SetStandby
  BY <1>3 DEF SetStandby, Enter
<1>4. CASE SetSleep
  BY <1>4 DEF SetSleep
<1>5. CASE SetTx
  BY <1>5 DEF SetTx, Enter
<1>6. CASE SetRx
  BY <1>6 DEF SetRx, Enter
<1>7. CASE SetRx0
  BY <1>7 DEF SetRx0, Enter
<1>8. CASE SetRxDutyCycle
  BY <1>8 DEF SetRxDutyCycle, Enter
<1>9. CASE SetCad
  BY <1>9 DEF SetCad, Enter
<1>10. CASE SetTxContinuousWave
  BY <1>10 DEF SetTxContinuousWave, Enter
<1>11. CASE Configure
  BY <1>11, TouchKeepsMode DEF Configure
<1>12. CASE ModemLora
  BY <1>12, TouchKeepsMode DEF ModemLora
<1>13. CASE ModemGfsk
  BY <1>13, TouchKeepsMode DEF ModemGfsk
<1>14. CASE WriteSync
  BY <1>14, TouchKeepsMode DEF WriteSync
<1>15. CASE PacketParams
  BY <1>15, TouchKeepsMode DEF PacketParams
<1>16. CASE DioIrqAll
  BY <1>16, TouchKeepsMode DEF DioIrqAll, SetDioIrqParams, SetIrqs
<1>17. CASE DioIrqTx
  BY <1>17, TouchKeepsMode DEF DioIrqTx, SetDioIrqParams, SetIrqs
<1>18. CASE WriteBuffer
  BY <1>18, TouchKeepsMode DEF WriteBuffer
<1>19. CASE GetIrqStatus
  BY <1>19, TouchKeepsMode DEF GetIrqStatus
<1>20. CASE ClearIrqStatus
  BY <1>20, TouchKeepsMode DEF ClearIrqStatus, SetIrqs
<1>21. CASE IrqCadDone
  BY <1>21 DEF IrqCadDone
<1>22. CASE IrqSkip
  BY <1>22 DEF IrqSkip
<1>23. CASE IrqTxDone
  BY <1>23 DEF IrqTxDone
<1>24. CASE IrqRxDone
  BY <1>24, WakingKeepsMode DEF IrqRxDone
<1>25. CASE IrqCrcError
  BY <1>25 DEF IrqCrcError
<1>26. CASE IrqTxTimeout
  BY <1>26 DEF IrqTxTimeout, IrqTimeoutIn
<1>27. CASE IrqRxTimeout
  BY <1>27 DEF IrqRxTimeout, IrqTimeoutIn
<1>28. CASE IrqHeaderError
  BY <1>28 DEF IrqHeaderError
<1>29. CASE CarrierSense
  BY <1>29, TouchKeepsMode DEF CarrierSense
<1> QED
  BY <1>1, <1>2, <1>3, <1>4, <1>5, <1>6, <1>7, <1>8, <1>9, <1>10, <1>11,
     <1>12, <1>13, <1>14, <1>15, <1>16, <1>17, <1>18, <1>19, <1>20, <1>21,
     <1>22, <1>23, <1>24, <1>25, <1>26, <1>27, <1>28, <1>29 DEF Command,
     Issue, Callback

\* What the first two commands of the handler do, and what its last one does.
LEMMA HandlerCommands ==
  ASSUME Command
  PROVE  /\ Head(script) = "GetIrqStatus" => irqRegs' = chipIrq
         /\ Head(script) = "ClearIrqStatus" => chipIrq' = {} /\ irqRegs' = irqRegs
         /\ Head(script) = "HeaderError" /\ Tail(script) = <<>> => irqRegs' = {}
<1> USE DEF irqVars, modemVars, callVars, hostVars, chipVars, Do
<1>1. CASE Reset
  BY <1>1 DEF Reset
<1>2. CASE Wakeup
  BY <1>2 DEF Wakeup
<1>3. CASE SetStandby
  BY <1>3 DEF SetStandby
<1>4. CASE SetSleep
  BY <1>4 DEF SetSleep
<1>5. CASE SetTx
  BY <1>5 DEF SetTx
<1>6. CASE SetRx
  BY <1>6 DEF SetRx
<1>7. CASE SetRx0
  BY <1>7 DEF SetRx0
<1>8. CASE SetRxDutyCycle
  BY <1>8 DEF SetRxDutyCycle
<1>9. CASE SetCad
  BY <1>9 DEF SetCad
<1>10. CASE SetTxContinuousWave
  BY <1>10 DEF SetTxContinuousWave
<1>11. CASE Configure
  BY <1>11 DEF Configure
<1>12. CASE ModemLora
  BY <1>12 DEF ModemLora
<1>13. CASE ModemGfsk
  BY <1>13 DEF ModemGfsk
<1>14. CASE WriteSync
  BY <1>14 DEF WriteSync
<1>15. CASE PacketParams
  BY <1>15 DEF PacketParams
<1>16. CASE DioIrqAll
  BY <1>16 DEF DioIrqAll, SetDioIrqParams, SetIrqs
<1>17. CASE DioIrqTx
  BY <1>17 DEF DioIrqTx, SetDioIrqParams, SetIrqs
<1>18. CASE WriteBuffer
  BY <1>18 DEF WriteBuffer
<1>19. CASE GetIrqStatus
  BY <1>19 DEF GetIrqStatus
<1>20. CASE ClearIrqStatus
  BY <1>20 DEF ClearIrqStatus, SetIrqs
<1>21. CASE IrqCadDone
  BY <1>21 DEF IrqCadDone
<1>22. CASE IrqSkip
  BY <1>22 DEF IrqSkip
<1>23. CASE IrqTxDone
  BY <1>23 DEF IrqTxDone
<1>24. CASE IrqRxDone
  BY <1>24 DEF IrqRxDone
<1>25. CASE IrqCrcError
  BY <1>25 DEF IrqCrcError
<1>26. CASE IrqTxTimeout
  BY <1>26 DEF IrqTxTimeout, IrqTimeoutIn
<1>27. CASE IrqRxTimeout
  BY <1>27 DEF IrqRxTimeout, IrqTimeoutIn
<1>28. CASE IrqHeaderError
  BY <1>28 DEF IrqHeaderError
<1>29. CASE CarrierSense
  BY <1>29 DEF CarrierSense
<1> QED
  BY <1>1, <1>2, <1>3, <1>4, <1>5, <1>6, <1>7, <1>8, <1>9, <1>10, <1>11,
     <1>12, <1>13, <1>14, <1>15, <1>16, <1>17, <1>18, <1>19, <1>20, <1>21,
     <1>22, <1>23, <1>24, <1>25, <1>26, <1>27, <1>28, <1>29 DEF Command,
     Issue, Callback

\* A command in a call of the library changes at most the event the callback
\* stores; it is TxDone only if the handler has read TX_DONE.
LEMMA LibraryRuns ==
  ASSUME RunCommand \/ RunCallback
  PROVE  /\ Command
         /\ UNCHANGED <<at, clientVars>>
         /\ cur_event' = "TxDone" =>
              cur_event = "TxDone" \/ (Head(script) = "TxDone" /\ "TX_DONE" \in irqRegs)
<1>1. Command
  BY DEF RunCommand, RunCallback, Command, Callback
<1>2. CASE RunCommand
  BY <1>1, <1>2 DEF RunCommand, longfiVars
<1>3. CASE RunCallback
  BY <1>1, <1>3 DEF RunCallback, OnRxDone, OnRxError, OnTxTimeout, OnRxTimeout, IrqTxDone, Do
<1> QED
  BY <1>2, <1>3

-----------------------------------------------------------------------------
(* The library runs.                                                       *)

\* The k-th command of each script.
LEMMA ScriptElements ==
  /\ TransmitScript[1] = "SetStandby" /\ TransmitScript[2] = "ModemLora"
  /\ TransmitScript[3] = "PacketParams" /\ TransmitScript[7] = "DioIrqTx"
  /\ TransmitScript[8] = "PacketParams" /\ TransmitScript[9] = "WriteBuffer"
  /\ TransmitScript[10] = "SetTx"
  /\ \A k \in 4..6 : TransmitScript[k] = "Configure"
  /\ IrqScript[1] = "GetIrqStatus" /\ IrqScript[2] = "ClearIrqStatus"
  /\ IrqScript[3] = "TxDone" /\ IrqScript[8] = "HeaderError"
  /\ \A k \in 4..7 : IrqScript[k] \in {"RxDone", "CrcError", "CadDone", "Timeout"}
<1>1. \A k \in 4..6 : TransmitScript[k] = "Configure"
  BY TransmitScriptIs
<1>2. \A k \in 4..7 : IrqScript[k] \in {"RxDone", "CrcError", "CadDone", "Timeout"}
  BY DEF IrqScript
<1> QED
  BY <1>1, <1>2, TransmitScriptIs DEF IrqScript

\* Whose call a command belongs to, and how far that call has come.
LEMMA WhoRuns ==
  ASSUME DriverTypeOK, LibraryTypeOK, ServiceInv, Command
  PROVE  \/ at = "main" /\ sending = NoFrame /\ Head(script) \in ConfigCommands
         \/ /\ at = "main" /\ sending # NoFrame /\ ResetDone /\ Preparing
            /\ \E k \in 1..10 : /\ Prepared(k)
                                /\ Head(script) = TransmitScript[k]
                                /\ From(TransmitScript, k + 1)'
         \/ /\ at = "dispatch"
            /\ \E k \in 1..8 :
                 /\ Head(script) = IrqScript[k]
                 /\ From(IrqScript, k + 1)'
                 /\ k = 1 => irqRegs = {}
                 /\ k > 2 /\ "TX_DONE" \in irqRegs => "TX_DONE" \notin chipIrq
                 /\ cur_event = "TxDone" => k > 3 /\ "TX_DONE" \notin chipIrq
         \/ at = "txdone" /\ Head(script) = "SetSleep"
<1>1. script # <<>> /\ script' = Tail(script) /\ script \in Seq(Commands)
  BY CommandPops DEF DriverTypeOK
<1>2. Head(script) \in Remaining
  BY <1>1 DEF Remaining
<1>3. CASE at = "main" /\ sending = NoFrame
  BY <1>2, <1>3 DEF ServiceInv, BootInv
<1>4. CASE at = "main" /\ sending # NoFrame
  <2>1. ResetDone /\ Preparing
    BY <1>1, <1>4 DEF ServiceInv, BootInv, SendInv
  <2>2. PICK k \in 1..10 : From(TransmitScript, k) /\ Prepared(k)
    BY <2>1 DEF Preparing
  <2>3. Head(script) = TransmitScript[k] /\ From(TransmitScript, k + 1)'
    BY <1>1, <2>2, FromNext, TransmitScriptIs
  <2> QED
    BY <1>4, <2>1, <2>2, <2>3
<1>5. CASE at = "dispatch"
  <2>1. PICK k \in 1..9 :
          /\ From(IrqScript, k)
          /\ k = 1 => irqRegs = {}
          /\ k > 2 /\ "TX_DONE" \in irqRegs => "TX_DONE" \notin chipIrq
          /\ cur_event = "TxDone" => k > 3 /\ "TX_DONE" \notin chipIrq
    BY <1>5 DEF ServiceInv, HandlerInv
  <2>2. k # 9
    BY <1>1, <2>1, IrqScriptIs, FromEnds DEF From
  <2>3. Head(script) = IrqScript[k] /\ From(IrqScript, k + 1)'
    BY <1>1, <2>1, <2>2, FromNext, IrqScriptIs
  <2> QED
    BY <1>5, <2>1, <2>2, <2>3
<1>6. CASE at = "txdone"
  BY <1>2, <1>6 DEF ServiceInv, BootInv
<1> QED
  BY <1>3, <1>4, <1>5, <1>6 DEF LibraryTypeOK

\* The first command of longfi_init is the only one before which the reset is
\* not done, and it is done after it.
LEMMA CommandResets ==
  ASSUME DriverTypeOK, BootInv, Command
  PROVE  /\ ResetDone' /\ booted'
         /\ ~ResetDone => /\ Reset
                          /\ chipMode' = "STDBY" /\ chipIrq' = {} /\ irqRegs' = irqRegs
         /\ Remaining' \subseteq Remaining
<1>1. /\ script # <<>> /\ script' = Tail(script)
      /\ booted' = booted
      /\ Remaining' \subseteq Remaining
  BY CommandPops, CommandFrame, TailRemaining DEF DriverTypeOK
<1>2. booted
  BY <1>1 DEF BootInv
<1>3. "Reset" \notin Remaining'
  <2>1. ASSUME script = BootScript PROVE "Reset" \notin Remaining'
    <3>1. /\ DOMAIN Tail(BootScript) = 1..7
          /\ \A i \in 1..7 : Tail(BootScript)[i] # "Reset"
      BY BootScriptIs
    <3> QED
      BY <1>1, <2>1, <3>1 DEF Remaining
  <2> QED
    BY <1>1, <2>1 DEF BootInv
<1>4. ASSUME ~ResetDone
      PROVE  Reset /\ chipMode' = "STDBY" /\ chipIrq' = {} /\ irqRegs' = irqRegs
  <2>1. Head(script) = "Reset"
    BY <1>2, <1>4, BootScriptIs DEF BootInv, ResetDone
  <2>2. Reset
    BY <2>1 DEF Command, Issue, Callback, Do, Wakeup, SetStandby, SetSleep, SetTx, SetRx,
                SetRx0, SetRxDutyCycle, SetCad, SetTxContinuousWave, Configure, ModemLora,
                ModemGfsk, WriteSync, PacketParams, DioIrqAll, DioIrqTx, SetDioIrqParams,
                WriteBuffer, GetIrqStatus, ClearIrqStatus, CarrierSense, IrqCadDone, IrqSkip,
                IrqTxDone, IrqRxDone, IrqCrcError, IrqTxTimeout, IrqRxTimeout, IrqTimeoutIn,
                IrqHeaderError
  <2> QED
    BY <2>2 DEF Reset, callVars
<1> QED
  BY <1>1, <1>2, <1>3, <1>4 DEF ResetDone

\* The steps of the library while it runs a call.
Running == RunCommand \/ RunCallback

\* A command leaves what remains of its call, and the interrupts it has read to
\* the handler only.
LEMMA RunningBoot ==
  ASSUME DriverTypeOK, LibraryTypeOK, ServiceInv, Running
  PROVE  BootInv'
<1>1. Command /\ UNCHANGED <<at, sending, airings>>
  BY LibraryRuns DEF Running, clientVars
<1>2. BootInv
  BY DEF ServiceInv
<1>3. ResetDone' /\ booted' /\ Remaining' \subseteq Remaining
  BY <1>1, <1>2, CommandResets
<1>4. "Reset" \notin Remaining'
  BY <1>3 DEF ResetDone
<1>5. ASSUME irqRegs' # {} PROVE at = "dispatch" /\ script' # <<>>
  <2>1. irqRegs' = irqRegs \/ Head(script) = "GetIrqStatus"
    BY <1>1, <1>5, CommandFrame
  <2>2. at = "dispatch"
    <3>1. CASE irqRegs' = irqRegs
      BY <1>2, <1>5, <3>1 DEF BootInv
    <3>2. CASE Head(script) = "GetIrqStatus"
      <4>1. \A k \in 1..10 : TransmitScript[k] # "GetIrqStatus"
        BY TransmitScriptIs
      <4> QED
        BY <1>1, <3>2, <4>1, WhoRuns DEF ConfigCommands
    <3> QED
      BY <2>1, <3>1, <3>2
  <2>3. PICK k \in 1..8 : Head(script) = IrqScript[k] /\ From(IrqScript, k + 1)'
    BY <1>1, <2>2, WhoRuns
  <2>4. ASSUME script' = <<>> PROVE FALSE
    <3>1. k = 8
      BY <2>3, <2>4, IrqScriptIs, FromSome DEF From
    <3> QED
      BY <1>1, <1>5, <2>3, <2>4, <3>1, ScriptElements, HandlerCommands, CommandPops
  <2> QED
    BY <2>2, <2>4
<1> QED
  BY <1>1, <1>2, <1>3, <1>4, <1>5 DEF BootInv

\* The handler goes on to its next command; the second clears what the first
\* has read, before the third acts on it.
LEMMA RunningHandler ==
  ASSUME DriverTypeOK, LibraryTypeOK, ServiceInv, Running
  PROVE  HandlerInv'
<1> SUFFICES ASSUME at' = "dispatch"
             PROVE  \E k \in 1..9 :
                      /\ From(IrqScript, k)'
                      /\ k = 1 => irqRegs' = {}
                      /\ k > 2 /\ "TX_DONE" \in irqRegs' => "TX_DONE" \notin chipIrq'
                      /\ cur_event' = "TxDone" => k > 3 /\ "TX_DONE" \notin chipIrq'
  BY DEF HandlerInv
<1>1. /\ Command /\ at = "dispatch"
      /\ cur_event' = "TxDone" =>
           cur_event = "TxDone" \/ (Head(script) = "TxDone" /\ "TX_DONE" \in irqRegs)
  BY LibraryRuns DEF Running
<1>2. PICK k \in 1..8 :
        /\ Head(script) = IrqScript[k]
        /\ From(IrqScript, k + 1)'
        /\ k = 1 => irqRegs = {}
        /\ k > 2 /\ "TX_DONE" \in irqRegs => "TX_DONE" \notin chipIrq
        /\ cur_event = "TxDone" => k > 3 /\ "TX_DONE" \notin chipIrq
  BY <1>1, WhoRuns
<1>3. chipIrq' \subseteq chipIrq
  BY <1>1, CommandFrame
<1>4. k > 1 => irqRegs' \in {irqRegs, {}}
  BY <1>1, <1>2, CommandFrame, ScriptElements
<1>5. k = 2 => chipIrq' = {}
  BY <1>1, <1>2, HandlerCommands, ScriptElements
<1>6. Head(script) = "TxDone" => k = 3
  BY <1>2, ScriptElements
<1>7. k + 1 > 2 /\ "TX_DONE" \in irqRegs' => "TX_DONE" \notin chipIrq'
  BY <1>2, <1>3, <1>4, <1>5
<1>8. cur_event' = "TxDone" => k + 1 > 3 /\ "TX_DONE" \notin chipIrq'
  BY <1>1, <1>2, <1>3, <1>6
<1> QED
  BY <1>2, <1>7, <1>8

\* What the commands of a transmission do.
LEMMA TransmitCommands ==
  ASSUME Command
  PROVE  /\ Head(script) = "SetStandby" => chipMode' = "STDBY"
         /\ Head(script) = "ModemLora" => chipPkt' = "LORA" /\ PacketType' = "LORA"
         /\ Head(script) = "PacketParams" /\ chipPkt = PacketType /\ paramsPkt = "LORA" =>
              chipPkt' = "LORA" /\ PacketType' = "LORA"
         /\ Head(script) = "DioIrqTx" => "TX_DONE" \in irqMask'
         /\ Head(script) = "WriteBuffer" => fifo' = txBuf
         /\ Head(script) = "SetTx" => chipMode' = "TX"
<1> USE DEF Do, SetDioIrqParams, SetIrqs
<1>1. CASE Reset
  BY <1>1 DEF Reset
<1>2. CASE Wakeup
  BY <1>2 DEF Wakeup
<1>3. CASE SetStandby
  BY <1>3 DEF SetStandby, Enter
<1>4. CASE SetSleep
  BY <1>4 DEF SetSleep
<1>5. CASE SetTx
  BY <1>5 DEF SetTx, Enter
<1>6. CASE SetRx
  BY <1>6 DEF SetRx
<1>7. CASE SetRx0
  BY <1>7 DEF SetRx0
<1>8. CASE SetRxDutyCycle
  BY <1>8 DEF SetRxDutyCycle
<1>9. CASE SetCad
  BY <1>9 DEF SetCad
<1>10. CASE SetTxContinuousWave
  BY <1>10 DEF SetTxContinuousWave
<1>11. CASE Configure
  BY <1>11 DEF Configure
<1>12. CASE ModemLora
  BY <1>12 DEF ModemLora
<1>13. CASE ModemGfsk
  BY <1>13 DEF ModemGfsk
<1>14. CASE WriteSync
  BY <1>14 DEF WriteSync
<1>15. CASE PacketParams
  BY <1>15 DEF PacketParams
<1>16. CASE DioIrqAll
  BY <1>16 DEF DioIrqAll, SetDioIrqParams, SetIrqs
<1>17. CASE DioIrqTx
  BY <1>17 DEF DioIrqTx, SetDioIrqParams, SetIrqs
<1>18. CASE WriteBuffer
  BY <1>18 DEF WriteBuffer
<1>19. CASE GetIrqStatus
  BY <1>19 DEF GetIrqStatus
<1>20. CASE ClearIrqStatus
  BY <1>20 DEF ClearIrqStatus, SetIrqs
<1>21. CASE IrqCadDone
  BY <1>21 DEF IrqCadDone
<1>22. CASE IrqSkip
  BY <1>22 DEF IrqSkip
<1>23. CASE IrqTxDone
  BY <1>23 DEF IrqTxDone
<1>24. CASE IrqRxDone
  BY <1>24 DEF IrqRxDone
<1>25. CASE IrqCrcError
  BY <1>25 DEF IrqCrcError
<1>26. CASE IrqTxTimeout
  BY <1>26 DEF IrqTxTimeout, IrqTimeoutIn
<1>27. CASE IrqRxTimeout
  BY <1>27 DEF IrqRxTimeout, IrqTimeoutIn
<1>28. CASE IrqHeaderError
  BY <1>28 DEF IrqHeaderError
<1>29. CASE CarrierSense
  BY <1>29 DEF CarrierSense
<1> QED
  BY <1>1, <1>2, <1>3, <1>4, <1>5, <1>6, <1>7, <1>8, <1>9, <1>10, <1>11,
     <1>12, <1>13, <1>14, <1>15, <1>16, <1>17, <1>18, <1>19, <1>20, <1>21,
     <1>22, <1>23, <1>24, <1>25, <1>26, <1>27, <1>28, <1>29 DEF Command,
     Issue, Callback

\* A command of a transmission prepares what the next one relies on; the last
\* one puts the client's packet on the air.
LEMMA RunningTransmit ==
  ASSUME DriverTypeOK, LibraryTypeOK, ServiceInv, Running, at = "main", sending # NoFrame
  PROVE  IF Head(script) = "SetTx" THEN chipMode' = "TX" /\ OnAir' ELSE Preparing'
<1>1. Command /\ UNCHANGED <<at, sending, airings>>
  BY LibraryRuns DEF Running, clientVars
<1>2. PICK k \in 1..10 :
        /\ Prepared(k)
        /\ Head(script) = TransmitScript[k]
        /\ From(TransmitScript, k + 1)'
        /\ Preparing
  BY <1>1, WhoRuns
<1>3. /\ UNCHANGED <<txBuf, paramsPkt>>
      /\ chipMode' = "TX" => chipMode = "TX" \/ Head(script) = "SetTx"
      /\ chipMode \in {"STDBY", "TX"} /\ Head(script) \notin ModeCommands => chipMode' = chipMode
      /\ Head(script) \notin {"Reset", "DioIrqAll", "DioIrqTx"} => irqMask' = irqMask
      /\ Head(script) \notin {"Reset", "SetSleep", "WriteBuffer"} => fifo' = fifo
      /\ Head(script) \notin {"Reset", "ModemLora", "ModemGfsk", "PacketParams"} =>
           UNCHANGED <<chipPkt, PacketType>>
  BY <1>1, CommandFrame
<1>4. /\ Head(script) = "SetStandby" => chipMode' = "STDBY"
      /\ Head(script) = "ModemLora" => chipPkt' = "LORA" /\ PacketType' = "LORA"
      /\ Head(script) = "PacketParams" /\ chipPkt = PacketType /\ paramsPkt = "LORA" =>
           chipPkt' = "LORA" /\ PacketType' = "LORA"
      /\ Head(script) = "DioIrqTx" => "TX_DONE" \in irqMask'
      /\ Head(script) = "WriteBuffer" => fifo' = txBuf
      /\ Head(script) = "SetTx" => chipMode' = "TX"
  BY <1>1, TransmitCommands
<1>5. CASE k = 10
  <2>1. Head(script) = "SetTx"
    BY <1>2, <1>5, ScriptElements
  <2>2. From(TransmitScript, 11)'
    BY <1>2, <1>5
  <2>3. script' = <<>>
    BY <2>2, TransmitScriptIs, FromEnds DEF From
  <2>4. UNCHANGED <<irqMask, fifo, chipPkt>>
    BY <1>3, <2>1
  <2>5. chipMode' = "TX"
    BY <1>4, <2>1
  <2> QED
    BY <1>1, <1>2, <1>5, <2>1, <2>3, <2>4, <2>5 DEF Prepared, Preparing, OnAir
<1>6. CASE k \in 1..9
  <2>1. Head(script) # "SetTx"
    BY <1>2, <1>6, ScriptElements
  <2>2. chipMode' # "TX"
    BY <1>2, <1>3, <2>1 DEF Preparing
  <2>3. chipMode' = "STDBY"
    BY <1>2, <1>3, <1>4, <1>6, ScriptElements DEF Prepared, ModeCommands
  <2>4. k + 1 > 2 => chipPkt' = "LORA" /\ PacketType' = "LORA"
    BY <1>2, <1>3, <1>4, <1>6, ScriptElements DEF Prepared, Preparing
  <2>5. k + 1 > 7 => "TX_DONE" \in irqMask'
    BY <1>2, <1>3, <1>4, <1>6, ScriptElements DEF Prepared
  <2>6. k + 1 > 9 => fifo' = sending
    BY <1>2, <1>3, <1>4, <1>6, ScriptElements DEF Prepared, Preparing
  <2>7. Prepared(k + 1)'
    BY <1>1, <2>3, <2>4, <2>5, <2>6 DEF Prepared
  <2>8. \E j \in 1..10 : From(TransmitScript, j)' /\ Prepared(j)'
    BY <1>2, <1>6, <2>7
  <2> QED
    BY <1>1, <1>2, <1>3, <2>1, <2>2, <2>8 DEF Preparing
<1> QED
  BY <1>5, <1>6

\* Only a transmission transmits, and only the handler learns that one is over.
LEMMA RunningSend ==
  ASSUME DriverTypeOK, LibraryTypeOK, ServiceInv, Running
  PROVE  SendInv'
<1>1. /\ Command /\ UNCHANGED <<at, sending, airings>>
      /\ cur_event' = "TxDone" =>
           cur_event = "TxDone" \/ (Head(script) = "TxDone" /\ "TX_DONE" \in irqRegs)
  BY LibraryRuns DEF Running, clientVars
<1>2. /\ ResetDone'
      /\ ~ResetDone => chipMode' = "STDBY" /\ chipIrq' = {} /\ irqRegs' = irqRegs
  BY <1>1, CommandResets DEF ServiceInv
<1>3. /\ chipIrq' \subseteq chipIrq
      /\ Head(script) # "GetIrqStatus" => irqRegs' \in {irqRegs, {}}
      /\ Head(script) = "GetIrqStatus" => irqRegs' = chipIrq
      /\ chipMode' = "TX" => chipMode = "TX" \/ Head(script) = "SetTx"
  BY <1>1, CommandFrame, HandlerCommands
<1>4. CASE ~ResetDone
  BY <1>1, <1>2, <1>4 DEF ServiceInv, BootInv, SendInv, Completed
<1>5. ASSUME ResetDone, Completed' PROVE Completed
  BY <1>1, <1>3, <1>5 DEF Completed
<1>6. CASE ResetDone /\ at = "main" /\ sending = NoFrame
  <2>1. Head(script) # "SetTx"
    BY <1>1, <1>6, WhoRuns DEF ConfigCommands
  <2> QED
    BY <1>1, <1>3, <1>5, <1>6, <2>1 DEF ServiceInv, BootInv, SendInv, OnAir
<1>7. CASE ResetDone /\ at = "main" /\ sending # NoFrame
  <2>1. Preparing
    BY <1>1, <1>7, WhoRuns
  <2>2. ~Completed'
    BY <1>5, <1>7, <2>1 DEF ServiceInv, SendInv, Preparing
  <2>3. IF Head(script) = "SetTx" THEN chipMode' = "TX" /\ OnAir' ELSE Preparing'
    BY <1>7, RunningTransmit
  <2>4. CASE Head(script) = "SetTx"
    BY <1>1, <1>7, <2>1, <2>2, <2>3, <2>4 DEF SendInv, OnAir, Preparing
  <2>5. CASE Head(script) # "SetTx"
    BY <1>1, <1>7, <2>1, <2>2, <2>3, <2>5 DEF SendInv, Preparing
  <2> QED
    BY <2>4, <2>5
<1>8. CASE ResetDone /\ at = "dispatch"
  <2>1. PICK k \in 1..8 : Head(script) = IrqScript[k]
    BY <1>1, <1>8, WhoRuns
  <2>2. Head(script) \in {"GetIrqStatus", "ClearIrqStatus", "TxDone", "HeaderError",
                          "RxDone", "CrcError", "CadDone", "Timeout"}
    BY <2>1, ScriptElements
  <2>3. /\ UNCHANGED <<irqMask, fifo, chipPkt>>
        /\ chipMode' = "TX" => chipMode = "TX"
        /\ chipMode = "TX" => chipMode' = "TX"
    BY <1>1, <2>2, CommandFrame DEF ModeCommands
  <2> QED
    BY <1>1, <1>5, <1>8, <2>3 DEF ServiceInv, SendInv, OnAir
<1>9. CASE ResetDone /\ at = "txdone"
  <2>1. Head(script) = "SetSleep"
    BY <1>1, <1>9, WhoRuns
  <2>2. Completed
    BY <1>9 DEF Completed
  <2> QED
    BY <1>1, <1>3, <1>5, <1>9, <2>1, <2>2 DEF ServiceInv, SendInv, OnAir
<1> QED
  BY <1>4, <1>6, <1>7, <1>8, <1>9 DEF LibraryTypeOK

\* A command of the library keeps the invariant.
LEMMA RunningService ==
  ASSUME DriverTypeOK, LibraryTypeOK, ServiceInv, Running
  PROVE  ServiceInv'
BY RunningBoot, RunningHandler, RunningSend DEF ServiceInv

-----------------------------------------------------------------------------
(* Calls, returns and the world around.                                    *)

\* Between two calls nothing remains, no interrupt is being handled, and no
\* transmission is being prepared.
LEMMA NothingRuns ==
  ASSUME ServiceInv, script = <<>>
  PROVE  /\ Remaining = {}
         /\ irqRegs = {}
         /\ ~Preparing
         /\ ResetDone <=> booted
<1>1. Remaining = {}
  BY DEF Remaining
<1>2. irqRegs = {}
  BY DEF ServiceInv, BootInv
<1>3. ~Preparing
  <2>1. \A k \in 1..10 : SubSeq(TransmitScript, k, 10) # <<>>
    BY TransmitScriptIs, FromSome
  <2> QED
    BY <2>1, TransmitScriptIs DEF Preparing, From
<1> QED
  BY <1>1, <1>2, <1>3 DEF ResetDone

\* A call that only commands the radio, and transmits nothing.
LEMMA ConfigStarts ==
  ASSUME ServiceInv, Free, script = <<>>, Remaining' \subseteq ConfigCommands,
         UNCHANGED <<chipVars, irqRegs, at, sending, airings>>, booted',
         "Reset" \in Remaining' => script' = BootScript,
         "Reset" \in Remaining' \/ booted
  PROVE  ServiceInv'
<1>1. /\ Remaining = {} /\ irqRegs = {} /\ (ResetDone <=> booted)
  BY NothingRuns
<1>2. BootInv'
  BY <1>1 DEF ServiceInv, BootInv, Free, ResetDone
<1>3. HandlerInv'
  BY DEF HandlerInv, Free
<1>4. SendInv'
  <2> SUFFICES ASSUME ResetDone' PROVE SendInv'
    BY DEF SendInv
  <2>1. ResetDone
    BY <1>1 DEF ResetDone
  <2> QED
    BY <1>1, <2>1 DEF ServiceInv, SendInv, BootInv, Free, chipVars, OnAir, Completed
<1> QED
  BY <1>2, <1>3, <1>4 DEF ServiceInv

\* A step that leaves the radio, the transmission and the dispatcher alone.
LEMMA ServiceStutter ==
  ASSUME ServiceInv, UNCHANGED <<radioVars, at, sending, airings, cur_event>>
  PROVE  ServiceInv'
BY DEF ServiceInv, BootInv, HandlerInv, SendInv, OnAir, Completed, Preparing, Prepared, From,
       ResetDone, Remaining, radioVars, chipVars, driverVars

\* What remains of the scripts of the calls that only command the radio.
LEMMA ConfigScripts ==
  /\ \A i \in DOMAIN BootScript : BootScript[i] \in ConfigCommands
  /\ \A i \in DOMAIN RxScript : RxScript[i] \in ConfigCommands \ {"Reset"}
  /\ \A i \in DOMAIN SetRxConfigScript("LORA") :
        SetRxConfigScript("LORA")[i] \in ConfigCommands \ {"Reset"}
  /\ \A i \in DOMAIN RandomScript : RandomScript[i] \in ConfigCommands \ {"Reset"}
<1>1. \A i \in DOMAIN BootScript : BootScript[i] \in ConfigCommands
  BY BootScriptIs DEF ConfigCommands
<1>2. \A i \in DOMAIN RxScript : RxScript[i] \in ConfigCommands \ {"Reset"}
  BY DEF RxScript, ConfigCommands
<1>3. \A i \in DOMAIN SetRxConfigScript("LORA") :
        SetRxConfigScript("LORA")[i] \in ConfigCommands \ {"Reset"}
  BY DEF SetRxConfigScript, ConfigCommands
<1>4. \A i \in DOMAIN RandomScript : RandomScript[i] \in ConfigCommands \ {"Reset"}
  BY DEF RandomScript, ConfigCommands
<1> QED
  BY <1>1, <1>2, <1>3, <1>4

\* longfi_send and longfi_rf_test start a transmission of which nothing is
\* prepared yet, on a radio that is not transmitting.
LEMMA TransmitStarts ==
  ASSUME ServiceInv, NEW op, NEW f \in TxFrames, Transmit(op, f)
  PROVE  ServiceInv'
<1>1. /\ script = <<>> /\ script' = TransmitScript /\ booted /\ booted'
      /\ at = "main" /\ at' = "main" /\ sending = NoFrame
      /\ sending' = f /\ sending' # NoFrame /\ airings' = 0
      /\ txBuf' = f /\ paramsPkt' = "LORA"
      /\ UNCHANGED <<chipVars, irqRegs>>
  BY FramesAssumption DEF Transmit, Free, CallOk, Begin, SetsOut, TransmitScript
<1>2. Remaining = {} /\ irqRegs = {} /\ ResetDone
  BY <1>1, NothingRuns
<1>3. "Reset" \notin Remaining'
  BY <1>1, TransmitScriptIs DEF Remaining
<1>4. ~Completed /\ chipMode # "TX"
  BY <1>1, <1>2 DEF ServiceInv, SendInv, BootInv, OnAir
<1>5. Preparing'
  <2>1. From(TransmitScript, 1)' /\ Prepared(1)'
    BY <1>1, TransmitScriptIs, FromEnds DEF From, Prepared
  <2> QED
    BY <1>1, <1>4, <2>1 DEF Preparing, chipVars
<1>6. BootInv' /\ HandlerInv'
  BY <1>1, <1>2, <1>3 DEF BootInv, HandlerInv, ResetDone
<1>7. SendInv'
  BY <1>1, <1>2, <1>4, <1>5 DEF SendInv, Completed, chipVars
<1> QED
  BY <1>6, <1>7 DEF ServiceInv

\* The calls of the client keep the invariant.
LEMMA ClientService ==
  ASSUME ServiceInv, ClientCall
  PROVE  ServiceInv'
<1>1. CASE longfi_init
  <2>1. /\ Free /\ script = <<>> /\ script' = BootScript /\ booted'
        /\ UNCHANGED <<chipVars, irqRegs, at, sending, airings>>
    BY <1>1 DEF longfi_init, Begin, Asks, BootScript
  <2>2. Remaining' \subseteq ConfigCommands
    BY <2>1, ConfigScripts DEF Remaining
  <2>3. "Reset" \in Remaining'
    BY <2>1, BootScriptIs DEF Remaining
  <2> QED
    BY <2>1, <2>2, <2>3, ConfigStarts
<1>2. ASSUME NEW len, longfi_set_buf(len) PROVE ServiceInv'
  BY <1>2, ServiceStutter DEF longfi_set_buf, LendBuffer, clientVars
<1>3. ASSUME NEW s, Free, Begin(s), booted, booted',
             \A i \in DOMAIN s : s[i] \in ConfigCommands \ {"Reset"},
             UNCHANGED <<chipVars, irqRegs>>, Asks("none")
      PROVE  ServiceInv'
  <2>1. Remaining' \subseteq ConfigCommands \ {"Reset"}
    BY <1>3 DEF Begin, Remaining
  <2> QED
    BY <1>3, <2>1, ConfigStarts DEF Begin, Asks
<1>4. CASE longfi_rx
  BY <1>3, <1>4, ConfigScripts DEF longfi_rx, Simple, CallOk, callVars
<1>5. ASSUME NEW continuous, configure_rx(continuous) PROVE ServiceInv'
  BY <1>3, <1>5, ConfigScripts DEF configure_rx, SetRxConfig, CallOk, callVars
<1>6. CASE longfi_get_random
  BY <1>3, <1>6, ConfigScripts DEF longfi_get_random, Simple, CallOk, callVars
<1>7. ASSUME NEW op, NEW f \in TxFrames, Transmit(op, f) PROVE ServiceInv'
  BY <1>7, TransmitStarts
<1>8. CASE longfi_get_rx
  BY <1>8, ServiceStutter DEF longfi_get_rx, FetchBuffer
<1> QED
  BY <1>1, <1>2, <1>4, <1>5, <1>6, <1>7, <1>8, LongFiAssumption
     DEF ClientCall, longfi_send, longfi_rf_test

\* Dispatching an event starts the handler, which has read nothing yet.
LEMMA DispatchService ==
  ASSUME ServiceInv, longfi_handle_event
  PROVE  ServiceInv'
<1>1. /\ script = <<>> /\ script' = IrqScript /\ booted /\ booted'
      /\ at = "main" /\ at' = "dispatch" /\ cur_event' = "None"
      /\ UNCHANGED <<chipMode, chipIrq, irqMask, chipPkt, fifo, irqRegs, sending, airings>>
  BY DEF longfi_handle_event, OnDioIrq, Begin, Dispatches, callVars
<1>2. /\ Remaining = {} /\ irqRegs = {} /\ ResetDone /\ ~Preparing
  BY <1>1, NothingRuns
<1>3. "Reset" \notin Remaining'
  BY <1>1 DEF Remaining, IrqScript
<1>4. BootInv'
  BY <1>1, <1>2, <1>3 DEF ServiceInv, BootInv, ResetDone
<1>5. HandlerInv'
  <2>1. From(IrqScript, 1)'
    BY <1>1, IrqScriptIs, FromEnds DEF From
  <2> QED
    BY <1>1, <1>2, <2>1 DEF HandlerInv
<1>6. SendInv'
  BY <1>1, <1>2 DEF ServiceInv, SendInv, OnAir, Completed
<1> QED
  BY <1>4, <1>5, <1>6 DEF ServiceInv

\* The library ends a transmission that is complete, and returns.
LEMMA ReturnService ==
  ASSUME ServiceInv, HandleTxDone \/ HandleReturn
  PROVE  ServiceInv'
<1>1. /\ script = <<>> /\ Remaining = {} /\ irqRegs = {} /\ ~Preparing
      /\ UNCHANGED <<chipVars, irqRegs, booted>>
  BY NothingRuns DEF HandleTxDone, HandleReturn, Begin, radioVars, driverVars, callVars
<1>2. CASE HandleTxDone
  <2>1. /\ at = "dispatch" /\ at' = "txdone" /\ cur_event = "TxDone"
        /\ UNCHANGED <<sending, airings, cur_event>> /\ script' = SleepScript
    BY <1>2 DEF HandleTxDone, FinishesTx, Begin, clientVars
  <2>2. Remaining' \subseteq {"SetSleep"}
    BY <2>1 DEF Remaining, SleepScript
  <2>3. ResetDone /\ ResetDone' /\ Completed /\ "TX_DONE" \notin chipIrq
    BY <1>1, <2>1, <2>2 DEF ServiceInv, BootInv, HandlerInv, Completed, ResetDone
  <2>4. BootInv' /\ HandlerInv'
    BY <1>1, <2>1, <2>2, <2>3 DEF ServiceInv, SendInv, BootInv, HandlerInv, ResetDone
  <2>5. SendInv'
    BY <1>1, <2>1, <2>3 DEF ServiceInv, SendInv, OnAir, Completed, chipVars
  <2> QED
    BY <2>4, <2>5 DEF ServiceInv
<1>3. CASE HandleReturn
  <2>1. script' = <<>> /\ Remaining' = {}
    BY <1>1, <1>3 DEF HandleReturn, radioVars, driverVars, Remaining
  <2>2. CASE ReturnsTxDone
    <3>1. /\ at = "txdone" /\ at' = "main" /\ sending' = NoFrame /\ airings' = 0
      BY <2>2 DEF ReturnsTxDone
    <3>2. ResetDone /\ Completed
      BY <3>1 DEF ServiceInv, BootInv, Completed
    <3>3. BootInv' /\ HandlerInv'
      BY <1>1, <2>1, <3>1, <3>2 DEF BootInv, HandlerInv, ResetDone
    <3>4. SendInv'
      BY <1>1, <2>1, <3>1, <3>2 DEF ServiceInv, SendInv, OnAir, Completed, chipVars
    <3> QED
      BY <3>3, <3>4 DEF ServiceInv
  <2>3. CASE ReturnsRx \/ ReturnsNone
    <3>1. /\ at = "dispatch" /\ at' = "main"
          /\ UNCHANGED <<sending, airings, cur_event>>
      BY <2>3 DEF ReturnsRx, ReturnsNone
    <3>2. ResetDone /\ ResetDone' /\ ~Preparing
      BY <1>1, <2>1, <3>1 DEF ServiceInv, BootInv, ResetDone
    <3>3. BootInv' /\ HandlerInv'
      BY <1>1, <2>1, <3>1, <3>2 DEF ServiceInv, BootInv, HandlerInv, ResetDone
    <3>4. SendInv'
      BY <1>1, <2>1, <3>1, <3>2 DEF ServiceInv, SendInv, OnAir, Completed, chipVars
    <3> QED
      BY <3>3, <3>4 DEF ServiceInv
  <2> QED
    BY <1>3, <2>2, <2>3 DEF HandleReturn
<1> QED
  BY <1>2, <1>3

\* The chip ends the transmission of the client's packet, or one that an
\* earlier run of the program has left, which the client is never told of.
LEMMA TransmittedService ==
  ASSUME ServiceInv, Transmitted
  PROVE  ServiceInv'
<1>1. /\ chipMode = "TX" /\ chipMode' = "STDBY"
      /\ chipIrq' = chipIrq \cup ({"TX_DONE"} \cap irqMask)
      /\ UNCHANGED <<irqMask, chipPkt, fifo, driverVars>>
  BY DEF Transmitted, TxComplete, ChipTxDone, Latch, SetIrqs
<1>2. /\ UNCHANGED <<at, sending, cur_event>>
      /\ IF sending = NoFrame THEN airings' = airings
         ELSE airings' = IF airings < MaxAirings THEN airings + 1 ELSE airings
  BY DEF Transmitted, Airs
<1>3. Remaining' = Remaining /\ ResetDone' = ResetDone
  BY <1>1 DEF driverVars, Remaining, ResetDone
<1>4. BootInv'
  BY <1>1, <1>2, <1>3 DEF ServiceInv, BootInv, driverVars
<1>5. CASE ~ResetDone
  BY <1>2, <1>3, <1>4, <1>5 DEF ServiceInv, BootInv, HandlerInv, SendInv
<1>6. CASE ResetDone
  <2>1. OnAir /\ ~Completed
    BY <1>1, <1>6 DEF ServiceInv, SendInv, OnAir
  <2>2. airings' = 1 /\ sending' # NoFrame
    BY <1>2, <2>1 DEF OnAir, MaxAirings
  <2>3. SendInv'
    BY <1>1, <1>2, <2>1, <2>2 DEF SendInv, Completed, OnAir, driverVars
  <2>4. HandlerInv'
    BY <1>1, <1>2, <2>1 DEF ServiceInv, HandlerInv, Completed, From, driverVars
  <2> QED
    BY <1>4, <2>3, <2>4 DEF ServiceInv
<1> QED
  BY <1>5, <1>6

\* What is received disturbs neither a transmission nor its preparation.
LEMMA ReceivedService ==
  ASSUME ServiceInv, Received
  PROVE  ServiceInv'
<1>1. /\ chipMode \notin {"TX", "STDBY"} /\ chipMode' # "TX"
      /\ "TX_DONE" \in chipIrq' => "TX_DONE" \in chipIrq
      /\ UNCHANGED <<irqMask, chipPkt, driverVars>>
  BY DEF Received, Receive, ChipReceives, ChipPreamble, ChipRxDone, ChipHeaderError,
         ChipRxTimeout, ChipCadDone, Latch, SetIrqs, Receiving, SingleRx
<1>2. UNCHANGED <<at, sending, airings, cur_event>>
  BY DEF Received, longfiVars, clientVars
<1>3. Remaining' = Remaining /\ ResetDone' = ResetDone
  BY <1>1 DEF driverVars, Remaining, ResetDone
<1>4. BootInv' /\ HandlerInv'
  BY <1>1, <1>2, <1>3 DEF ServiceInv, BootInv, HandlerInv, From, driverVars
<1>5. ASSUME Preparing PROVE Preparing'
  <2>1. From(TransmitScript, 1)
    BY <1>1, <1>5 DEF Preparing, Prepared
  <2>2. From(TransmitScript, 1)' /\ Prepared(1)'
    BY <1>1, <2>1 DEF From, Prepared, driverVars
  <2> QED
    BY <1>1, <1>2, <1>5, <2>2 DEF Preparing, driverVars
<1>6. SendInv'
  BY <1>1, <1>2, <1>3, <1>5 DEF ServiceInv, SendInv, Completed, driverVars
<1> QED
  BY <1>4, <1>6 DEF ServiceInv

\* A restart forgets the call, the packet and the event.
LEMMA RestartService ==
  ASSUME Restart
  PROVE  ServiceInv'
<1>1. /\ script' = <<>> /\ ~booted' /\ irqRegs' = {}
      /\ at' = "main" /\ sending' = NoFrame /\ airings' = 0
  BY DEF Restart, Restart126x, Forgets
<1>2. Remaining' = {}
  BY <1>1 DEF Remaining
<1> QED
  BY <1>1, <1>2 DEF ServiceInv, BootInv, HandlerInv, SendInv, ResetDone

\* Every step keeps the invariant.
LEMMA StepService ==
  ASSUME DriverTypeOK, LibraryTypeOK, ServiceInv, [Next]_vars
  PROVE  ServiceInv'
<1>1. CASE Running
  BY <1>1, RunningService
<1>2. CASE ClientCall \/ longfi_handle_event \/ HandleTxDone \/ HandleReturn
  BY <1>2, ClientService, DispatchService, ReturnService
<1>3. CASE Transmitted \/ Received \/ Restart
  BY <1>3, TransmittedService, ReceivedService, RestartService
<1>4. CASE UNCHANGED vars
  BY <1>4, ServiceStutter DEF vars, longfiVars, clientVars
<1> QED
  BY <1>1, <1>2, <1>3, <1>4 DEF Next, Library, Running

\* At power on no call runs and no packet is out.
LEMMA InitService == Init => ServiceInv
BY DEF Init, DriverInit, LibraryInit, ServiceInv, BootInv, HandlerInv, SendInv, ResetDone,
       Remaining

-----------------------------------------------------------------------------
(* The service.                                                            *)

\* The states of the service, one by one.
LEMMA Statuses ==
  /\ ~booted => StatusOf(booted) = "off"
  /\ booted /\ sending = NoFrame => StatusOf(booted) = "ready"
  /\ booted /\ sending # NoFrame /\ airings = 0 => StatusOf(booted) = "sending"
  /\ booted /\ sending # NoFrame /\ airings = 1 => StatusOf(booted) = "aired"
BY DEF StatusOf

\* A step that changes nothing the client can see.
LEMMA ServiceUnchanged ==
  ASSUME UNCHANGED <<booted, sending, airings, heard>>
  PROVE  UNCHANGED Service!serviceVars
<1>1. StatusOf(booted)' = StatusOf(booted)
  BY DEF StatusOf
<1> QED
  BY <1>1 DEF Service!serviceVars

\* Every step of the library is a step of the service, or one the client does
\* not see.
LEMMA StepServes ==
  ASSUME ServiceInv, ServiceInv', [Next]_vars
  PROVE  [Service!Next]_(Service!serviceVars)
<1>1. sending # NoFrame => ResetDone /\ booted
  BY DEF ServiceInv, BootInv, ResetDone
<1>2. CASE Running
  <2>1. UNCHANGED <<booted, sending, airings, heard>>
    BY <1>2, LibraryRuns, CommandFrame DEF Running, clientVars
  <2> QED
    BY <2>1, ServiceUnchanged
<1>3. CASE longfi_init
  <2>1. booted' /\ sending = NoFrame /\ UNCHANGED <<sending, airings, heard>>
    BY <1>3 DEF longfi_init, Asks, Free
  <2>2. StatusOf(booted)' = "ready"
    BY <2>1 DEF StatusOf
  <2>3. CASE booted
    BY <2>1, <2>3, ServiceUnchanged
  <2>4. CASE ~booted
    BY <2>1, <2>2, <2>4, Statuses DEF Service!Boot, Service!Next
  <2> QED
    BY <2>3, <2>4
<1>4. ASSUME NEW op, NEW f \in TxFrames, Transmit(op, f)
      PROVE  [Service!Next]_(Service!serviceVars)
  <2>1. /\ booted /\ booted' /\ sending = NoFrame
        /\ sending' = f /\ airings' = 0 /\ UNCHANGED heard /\ f # NoFrame
    BY <1>4, FramesAssumption DEF Transmit, Free, CallOk, SetsOut
  <2>2. StatusOf(booted)' = "sending"
    BY <2>1 DEF StatusOf
  <2>3. Service!Send(f)
    BY <2>1, <2>2, Statuses DEF Service!Send
  <2> QED
    BY <2>3 DEF Service!Next
<1>5. ASSUME NEW len, longfi_set_buf(len)
      PROVE  [Service!Next]_(Service!serviceVars)
  BY <1>5, ServiceUnchanged DEF longfi_set_buf, LendBuffer, clientVars, radioVars, driverVars
<1>6. CASE longfi_rx \/ longfi_get_random \/ longfi_get_rx \/ longfi_handle_event
  BY <1>6, ServiceUnchanged
     DEF longfi_rx, longfi_get_random, longfi_get_rx, longfi_handle_event, Simple, Asks,
         FetchBuffer, OnDioIrq, Dispatches, callVars, radioVars, driverVars
<1>7. ASSUME NEW continuous, configure_rx(continuous)
      PROVE  [Service!Next]_(Service!serviceVars)
  BY <1>7, ServiceUnchanged DEF configure_rx, SetRxConfig, Asks, callVars
<1>8. CASE HandleTxDone
  BY <1>8, ServiceUnchanged DEF HandleTxDone, FinishesTx, clientVars, callVars
<1>9. CASE HandleReturn
  <2>1. UNCHANGED booted /\ script = <<>>
    BY <1>9 DEF HandleReturn, radioVars, driverVars
  <2>2. CASE ReturnsTxDone
    <3>1. at = "txdone" /\ sending' = NoFrame /\ UNCHANGED heard
      BY <2>2 DEF ReturnsTxDone
    <3>2. booted /\ sending # NoFrame /\ airings = 1
      BY <3>1 DEF ServiceInv, BootInv, SendInv, Completed, ResetDone
    <3>3. StatusOf(booted)' = "ready"
      BY <2>1, <3>1, <3>2 DEF StatusOf
    <3>4. Service!TxDone
      BY <3>1, <3>2, <3>3, Statuses DEF Service!TxDone
    <3> QED
      BY <3>4 DEF Service!Next
  <2>3. CASE ReturnsRx \/ ReturnsNone
    BY <2>1, <2>3, ServiceUnchanged DEF ReturnsRx, ReturnsNone
  <2> QED
    BY <1>9, <2>2, <2>3 DEF HandleReturn
<1>10. CASE Transmitted
  <2>1. /\ chipMode = "TX" /\ UNCHANGED <<booted, sending>>
        /\ IF sending = NoFrame THEN UNCHANGED <<airings, heard>>
           ELSE /\ airings' = IF airings < MaxAirings THEN airings + 1 ELSE airings
                /\ heard' = fifo
    BY <1>10 DEF Transmitted, TxComplete, ChipTxDone, Airs, driverVars
  <2>2. CASE sending = NoFrame
    BY <2>1, <2>2, ServiceUnchanged
  <2>3. CASE sending # NoFrame
    <3>1. booted /\ airings = 0 /\ fifo = sending
      BY <1>1, <2>1, <2>3 DEF ServiceInv, SendInv, OnAir
    <3>2. airings' = 1
      BY <2>1, <2>3, <3>1 DEF MaxAirings
    <3>3. StatusOf(booted)' = "aired"
      BY <2>1, <2>3, <3>1, <3>2 DEF StatusOf
    <3>4. Service!Air
      BY <2>1, <2>3, <3>1, <3>3, Statuses DEF Service!Air
    <3> QED
      BY <3>4 DEF Service!Next
  <2> QED
    BY <2>2, <2>3
<1>11. CASE Received \/ UNCHANGED vars
  BY <1>11, ServiceUnchanged
     DEF Received, Receive, vars, longfiVars, clientVars, radioVars, driverVars
<1>12. CASE Restart
  <2>1. ~booted' /\ sending' = NoFrame /\ UNCHANGED heard
    BY <1>12 DEF Restart, Restart126x, Forgets
  <2>2. StatusOf(booted)' = "off"
    BY <2>1 DEF StatusOf
  <2> QED
    BY <2>1, <2>2 DEF Service!Restart, Service!Next
<1> QED
  BY <1>2, <1>3, <1>4, <1>5, <1>6, <1>7, <1>8, <1>9, <1>10, <1>11, <1>12, LongFiAssumption
     DEF Next, ClientCall, Library, Running, longfi_send, longfi_rf_test

\* At power on the service is off.
LEMMA InitServes == Init => Service!Init
BY Statuses DEF Init, DriverInit, LibraryInit, Service!Init

-----------------------------------------------------------------------------
(* Theorems.                                                               *)

\* What remains to be issued, what the interrupts say and what the client waits
\* for agree, whatever the client calls and whenever the chip interrupts.
THEOREM LongFiServiceInvariant == Spec => []ServiceInv
<1>1. LongFiInv /\ ServiceInv /\ [Next]_vars => ServiceInv'
  BY StepService DEF LongFiInv, DriverInv, LibraryInv
<1> QED
  BY <1>1, InitService, LongFiInvariant, PTL DEF Spec

\* While it transmits, the chip uses LoRa and its buffer holds the packet of the
\* client's last longfi_send, whatever it received, ran or restarted before.
THEOREM LongFiTransmitsThePacket == Spec => []TransmitsThePacket
<1>1. ServiceInv => TransmitsThePacket
  BY DEF ServiceInv, SendInv, OnAir, TransmitsThePacket
<1> QED
  BY <1>1, LongFiServiceInvariant, PTL

\* A transmission that has begun can always interrupt when it is over.
THEOREM LongFiTxDoneUnmasked == Spec => []TxDoneUnmasked
<1>1. ServiceInv => TxDoneUnmasked
  BY DEF ServiceInv, SendInv, OnAir, TxDoneUnmasked
<1> QED
  BY <1>1, LongFiServiceInvariant, PTL

\* The library implements the safety part of LongFiService: each packet of the
\* client is put on the air exactly as it is, at most once, and ClientEvent_TxDone
\* follows it, never comes without it, and never comes twice.
THEOREM LongFiImplementsService == Spec => ServiceSafe
<1>1. ServiceInv /\ ServiceInv' /\ [Next]_vars => [Service!Next]_(Service!serviceVars)
  BY StepServes
<1> QED
  BY <1>1, InitServes, LongFiServiceInvariant, PTL DEF Spec, ServiceSafe, Service!Spec

-----------------------------------------------------------------------------
(* The antenna switch follows the chip.                                    *)

\* A chip believed asleep is woken with the switch on; any other must be awake,
\* and its switch is left as it is.
LEMMA ReadyEffect ==
  ASSUME NEW mode, NEW ant, NEW m, chipMode # "RX_DC", CheckDeviceReady(mode, ant, m)
  PROVE  /\ m \notin {"SLEEP", "RX_DC"}
         /\ \/ mode \in {"SLEEP", "RX_DC"} /\ antSw' = TRUE
            \/ mode \notin {"SLEEP", "RX_DC"} /\ chipMode # "SLEEP" /\ antSw' = ant
BY DEF CheckDeviceReady, Woken

\* The same for a command that leaves the chip in its mode.
LEMMA TouchEffect ==
  ASSUME Touch, chipMode # "RX_DC"
  PROVE  /\ chipMode' \notin {"SLEEP", "RX_DC"}
         /\ \/ OperatingMode \in {"SLEEP", "RX_DC"} /\ antSw' = TRUE
            \/ OperatingMode \notin {"SLEEP", "RX_DC"} /\ chipMode # "SLEEP" /\ antSw' = antSw
BY ReadyEffect DEF Touch

\* What a command of the library does to the chip, the switch, and the driver's
\* idea of them.
LEMMA CommandAntenna ==
  ASSUME Awake, Command, Head(script) \in LibraryCommands,
         chipMode # "RX_DC", OperatingMode # "RX_DC"
  PROVE  /\ chipMode' # "RX_DC" /\ OperatingMode' # "RX_DC"
         /\ Head(script) \in {"SetStandby", "SetRx0"} => OperatingMode' # "SLEEP"
         /\ Head(script) = "TxDone" /\ "TX_DONE" \in irqRegs => OperatingMode' # "SLEEP"
         /\ Head(script) = "SetSleep" =>
              /\ chipMode' = "SLEEP"
              /\ OperatingMode' = "SLEEP"
              /\ OperatingMode # "SLEEP" => antSw' = FALSE
         /\ Head(script) # "SetSleep" => chipMode' # "SLEEP"
         /\ Head(script) # "SetSleep" /\ OperatingMode # "SLEEP" =>
              OperatingMode' # "SLEEP" /\ antSw' = antSw
         /\ OperatingMode = "SLEEP" /\ OperatingMode' # "SLEEP" =>
              \/ Head(script) = "SetStandby"
              \/ Head(script) \in Wakers /\ chipMode # "SLEEP"
         /\ Head(script) = "SetStandby" /\ OperatingMode = "SLEEP" => antSw' = TRUE
         /\ Head(script) # "SetSleep" =>
              \/ antSw' = TRUE
              \/ antSw' = antSw /\ (chipMode # "SLEEP" \/ Head(script) \in {"Reset", "Wakeup"})
<1> USE DEF irqVars, modemVars, callVars, hostVars, chipVars, Do, LibraryCommands,
            ConfigCommands, Wakers, Awake, NeedsAwake, Blind
<1>1. CASE Reset
  BY <1>1 DEF Reset
<1>2. CASE Wakeup
  BY <1>2 DEF Wakeup
<1>3. CASE SetStandby
  BY <1>3, ReadyEffect DEF SetStandby, Enter
<1>4. CASE SetSleep
  BY <1>4, ReadyEffect DEF SetSleep
<1>5. CASE SetTx
  BY <1>5, ReadyEffect DEF SetTx, Enter
<1>6. CASE SetRx
  BY <1>6, ReadyEffect DEF SetRx, Enter
<1>7. CASE SetRx0
  BY <1>7, ReadyEffect DEF SetRx0, Enter
<1>8. CASE SetRxDutyCycle
  BY <1>8, ReadyEffect DEF SetRxDutyCycle, Enter
<1>9. CASE SetCad
  BY <1>9, ReadyEffect DEF SetCad, Enter
<1>10. CASE SetTxContinuousWave
  BY <1>10, ReadyEffect DEF SetTxContinuousWave, Enter
<1>11. CASE Configure
  BY <1>11, TouchEffect DEF Configure
<1>12. CASE ModemLora
  BY <1>12, TouchEffect DEF ModemLora
<1>13. CASE ModemGfsk
  BY <1>13, TouchEffect DEF ModemGfsk
<1>14. CASE WriteSync
  BY <1>14, TouchEffect DEF WriteSync
<1>15. CASE PacketParams
  BY <1>15, TouchEffect DEF PacketParams
<1>16. CASE DioIrqAll
  BY <1>16, TouchEffect DEF DioIrqAll, SetDioIrqParams, SetIrqs
<1>17. CASE DioIrqTx
  BY <1>17, TouchEffect DEF DioIrqTx, SetDioIrqParams, SetIrqs
<1>18. CASE WriteBuffer
  BY <1>18, TouchEffect DEF WriteBuffer
<1>19. CASE GetIrqStatus
  BY <1>19, TouchEffect DEF GetIrqStatus
<1>20. CASE ClearIrqStatus
  BY <1>20, TouchEffect DEF ClearIrqStatus, SetIrqs
<1>21. CASE IrqCadDone
  BY <1>21 DEF IrqCadDone
<1>22. CASE IrqSkip
  BY <1>22 DEF IrqSkip
<1>23. CASE IrqTxDone
  BY <1>23 DEF IrqTxDone
<1>24. CASE IrqRxDone
  BY <1>24, ReadyEffect DEF IrqRxDone, ModeUnlessContinuous
<1>25. CASE IrqCrcError
  BY <1>25 DEF IrqCrcError, ModeUnlessContinuous
<1>26. CASE IrqTxTimeout
  BY <1>26 DEF IrqTxTimeout, IrqTimeoutIn
<1>27. CASE IrqRxTimeout
  BY <1>27 DEF IrqRxTimeout, IrqTimeoutIn
<1>28. CASE IrqHeaderError
  BY <1>28 DEF IrqHeaderError, ModeUnlessContinuous
<1>29. CASE CarrierSense
  BY <1>29, TouchEffect DEF CarrierSense
<1> QED
  BY <1>1, <1>2, <1>3, <1>4, <1>5, <1>6, <1>7, <1>8, <1>9, <1>10, <1>11,
     <1>12, <1>13, <1>14, <1>15, <1>16, <1>17, <1>18, <1>19, <1>20, <1>21,
     <1>22, <1>23, <1>24, <1>25, <1>26, <1>27, <1>28, <1>29 DEF Command,
     Issue, Callback

\* The commands that remain keep their order.
LEMMA TailSleepsLast ==
  ASSUME DriverTypeOK, Awake, AntennaInv, Command
  PROVE  SleepsLast'
<1>1. /\ script \in Seq(Commands) /\ script # <<>> /\ script' = Tail(script)
      /\ SleepsLast /\ Remaining \subseteq LibraryCommands
      /\ chipMode # "RX_DC" /\ OperatingMode # "RX_DC"
  BY CommandPops DEF DriverTypeOK, AntennaInv
<1>2. /\ Len(script) \in Nat \ {0} /\ Len(script') = Len(script) - 1
      /\ DOMAIN script = 1..Len(script) /\ DOMAIN script' = 1..(Len(script) - 1)
      /\ \A i \in 1..(Len(script) - 1) : script'[i] = script[i + 1]
      /\ Head(script) = script[1]
  BY <1>1
<1>3. Head(script) \in LibraryCommands
  BY <1>1, <1>2 DEF Remaining
<1>4. /\ Head(script) \in {"SetStandby", "SetRx0"} => OperatingMode' # "SLEEP"
      /\ Head(script) # "SetSleep" /\ OperatingMode # "SLEEP" => OperatingMode' # "SLEEP"
  BY <1>1, <1>3, CommandAntenna
<1> SUFFICES ASSUME NEW i \in 1..(Len(script) - 1)
             PROVE
               /\ script'[i] = "SetSleep" =>
                    /\ i = Len(script')
                    /\ \/ OperatingMode' # "SLEEP"
                       \/ \E j \in 1..(i - 1) : script'[j] \in {"SetStandby", "SetRx0"}
               /\ script'[i] \in {"Reset", "Wakeup"} =>
                    \E j \in (i + 1)..Len(script') : script'[j] = "SetStandby"
               /\ script'[i] = "SetStandby" => \A j \in 1..(i - 1) : script'[j] \notin Wakers
  BY <1>2 DEF SleepsLast
<1>5. i + 1 \in DOMAIN script /\ script'[i] = script[i + 1]
  BY <1>2
<1>6. ASSUME script'[i] = "SetSleep"
      PROVE  /\ i = Len(script')
             /\ \/ OperatingMode' # "SLEEP"
                \/ \E j \in 1..(i - 1) : script'[j] \in {"SetStandby", "SetRx0"}
  <2>1. /\ i + 1 = Len(script)
        /\ \/ OperatingMode # "SLEEP"
           \/ \E j \in 1..i : script[j] \in {"SetStandby", "SetRx0"}
    <3>1. /\ i + 1 = Len(script)
          /\ \/ OperatingMode # "SLEEP"
             \/ \E j \in 1..((i + 1) - 1) : script[j] \in {"SetStandby", "SetRx0"}
      BY <1>1, <1>5, <1>6, Zenon DEF SleepsLast
    <3>2. (i + 1) - 1 = i
      OBVIOUS
    <3> QED
      BY <3>1, <3>2
  <2>2. Head(script) # "SetSleep"
    BY <1>1, <1>2, <2>1 DEF SleepsLast
  <2>3. ASSUME NEW j \in 1..i, script[j] \in {"SetStandby", "SetRx0"}
        PROVE  \/ OperatingMode' # "SLEEP"
               \/ \E l \in 1..(i - 1) : script'[l] \in {"SetStandby", "SetRx0"}
    <3>1. CASE j = 1
      BY <1>2, <1>4, <2>3, <3>1
    <3>2. CASE j # 1
      <4>1. j - 1 \in 1..(i - 1) /\ script'[j - 1] = script[j]
        BY <1>2, <3>2
      <4> QED
        BY <2>3, <4>1
    <3> QED
      BY <3>1, <3>2
  <2> QED
    BY <1>2, <1>4, <2>1, <2>2, <2>3
<1>7. ASSUME script'[i] \in {"Reset", "Wakeup"}
      PROVE  \E j \in (i + 1)..Len(script') : script'[j] = "SetStandby"
  <2>1. PICK j \in (i + 2)..Len(script) : script[j] = "SetStandby"
    BY <1>1, <1>2, <1>5, <1>7 DEF SleepsLast
  <2>2. j - 1 \in (i + 1)..Len(script') /\ script'[j - 1] = script[j]
    BY <1>2, <2>1
  <2> QED
    BY <2>1, <2>2
<1>8. ASSUME script'[i] = "SetStandby", NEW j \in 1..(i - 1)
      PROVE  script'[j] \notin Wakers
  <2>1. script[j + 1] \notin Wakers
    BY <1>1, <1>2, <1>5, <1>8 DEF SleepsLast
  <2> QED
    BY <1>2, <1>8, <2>1
<1> QED
  BY <1>6, <1>7, <1>8

\* A command keeps the switch on the chip's side.
LEMMA RunningAntenna ==
  ASSUME DriverTypeOK, LibraryTypeOK, Awake, ServiceInv, AntennaInv, Running
  PROVE  AntennaInv'
<1>1. /\ Command /\ at' = at
      /\ cur_event' = "TxDone" =>
           cur_event = "TxDone" \/ (Head(script) = "TxDone" /\ "TX_DONE" \in irqRegs)
  BY LibraryRuns DEF Running
<1>2. /\ script \in Seq(Commands) /\ script # <<>> /\ script' = Tail(script)
      /\ Remaining' \subseteq Remaining /\ Remaining \subseteq Remaining' \cup {Head(script)}
  BY <1>1, CommandPops, TailRemaining DEF DriverTypeOK
<1>3. /\ Len(script) \in Nat \ {0} /\ Head(script) = script[1] /\ 1 \in DOMAIN script
      /\ DOMAIN script = 1..Len(script)
  BY <1>2
<1>4. Head(script) \in LibraryCommands /\ chipMode # "RX_DC" /\ OperatingMode # "RX_DC"
  BY <1>3 DEF AntennaInv, Remaining
<1>5. /\ ResetDone' /\ (~ResetDone => Reset)
  BY <1>1, CommandResets DEF ServiceInv
<1>6. SleepsLast /\ SleepsLast'
  BY <1>1, TailSleepsLast DEF AntennaInv
<1>7. Head(script) = "SetSleep" => OperatingMode # "SLEEP"
  BY <1>3, <1>6 DEF SleepsLast
<1>8. Head(script) \in Wakers => "SetStandby" \notin Remaining
  <2> SUFFICES ASSUME Head(script) \in Wakers, NEW i \in DOMAIN script, script[i] = "SetStandby"
               PROVE  FALSE
    BY DEF Remaining
  <2>1. i # 1
    BY <1>3 DEF Wakers
  <2> QED
    BY <1>3, <1>6, <2>1 DEF SleepsLast
<1>9. Head(script) \in {"Reset", "Wakeup"} => "SetStandby" \in Remaining'
  <2>1. Head(script) \in {"Reset", "Wakeup"} => "SetStandby" \in Remaining
    <3>1. ASSUME Head(script) \in {"Reset", "Wakeup"}
          PROVE  \E j \in 2..Len(script) : script[j] = "SetStandby"
      BY <1>3, <1>6, <3>1 DEF SleepsLast
    <3> QED
      BY <1>3, <3>1 DEF Remaining
  <2> QED
    BY <1>2, <2>1
<1>10. ~ResetDone => Head(script) = "Reset"
  BY <1>5 DEF Reset, Do
<1>11. OperatingMode # "SLEEP" => antSw
  BY DEF AntennaInv
<1>12. OperatingMode' # "SLEEP" => antSw'
  <2>1. ASSUME OperatingMode # "SLEEP", OperatingMode' # "SLEEP" PROVE antSw'
    <3>1. Head(script) # "SetSleep"
      BY <1>1, <1>4, <2>1, CommandAntenna
    <3>2. antSw' = antSw
      BY <1>1, <1>4, <2>1, <3>1, CommandAntenna
    <3> QED
      BY <1>11, <2>1, <3>2
  <2>2. ASSUME OperatingMode = "SLEEP", OperatingMode' # "SLEEP" PROVE antSw'
    <3>1. CASE Head(script) = "SetStandby"
      BY <1>1, <1>4, <2>2, <3>1, CommandAntenna
    <3>2. CASE Head(script) \in Wakers /\ chipMode # "SLEEP"
      <4>1. ResetDone
        BY <1>10, <3>2 DEF Wakers
      <4>2. antSw
        BY <1>8, <3>2, <4>1 DEF AntennaInv
      <4> QED
        BY <1>1, <1>4, <3>2, <4>2, CommandAntenna DEF Wakers
    <3> QED
      BY <1>1, <1>4, <2>2, <3>1, <3>2, CommandAntenna
  <2> QED
    BY <2>1, <2>2
<1>13. chipMode' = "SLEEP" => ~antSw'
  BY <1>1, <1>4, <1>7, CommandAntenna
<1>14. ~antSw' => chipMode' = "SLEEP" \/ "SetStandby" \in Remaining'
  <2> SUFFICES ASSUME ~antSw', chipMode' # "SLEEP"
               PROVE  "SetStandby" \in Remaining'
    OBVIOUS
  <2>1. Head(script) # "SetSleep"
    BY <1>1, <1>4, CommandAntenna
  <2>2. ~antSw /\ (chipMode # "SLEEP" \/ Head(script) \in {"Reset", "Wakeup"})
    <3>1. \/ antSw' = TRUE
          \/ antSw' = antSw /\ (chipMode # "SLEEP" \/ Head(script) \in {"Reset", "Wakeup"})
      BY <1>1, <1>4, <2>1, CommandAntenna
    <3> QED
      BY <3>1
  <2>3. Head(script) # "SetStandby"
    BY <1>1, <1>4, <1>11, <2>2, CommandAntenna
  <2>4. CASE ResetDone /\ chipMode # "SLEEP"
    BY <1>2, <2>2, <2>3, <2>4 DEF AntennaInv
  <2> QED
    BY <1>9, <1>10, <2>2, <2>4
<1>15. at' = "dispatch" /\ cur_event' = "TxDone" => OperatingMode' # "SLEEP"
  <2> SUFFICES ASSUME at = "dispatch", cur_event' = "TxDone"
               PROVE  OperatingMode' # "SLEEP"
    BY <1>1
  <2>1. PICK k \in 1..8 : Head(script) = IrqScript[k]
    BY <1>1, WhoRuns
  <2>2. Head(script) # "SetSleep"
    BY <2>1, ScriptElements
  <2>3. CASE cur_event = "TxDone"
    BY <1>1, <1>4, <2>2, <2>3, CommandAntenna DEF AntennaInv
  <2>4. CASE Head(script) = "TxDone" /\ "TX_DONE" \in irqRegs
    BY <1>1, <1>4, <2>4, CommandAntenna
  <2> QED
    BY <1>1, <2>3, <2>4
<1>16. chipMode' # "RX_DC" /\ OperatingMode' # "RX_DC"
  BY <1>1, <1>4, CommandAntenna
<1>17. Remaining' \subseteq LibraryCommands
  BY <1>2 DEF AntennaInv
<1> QED
  BY <1>6, <1>12, <1>13, <1>14, <1>15, <1>16, <1>17 DEF AntennaInv

\* A script the library may start on a driver that may be asleep.
SleepSound(s) ==
  \A i \in DOMAIN s :
    /\ s[i] \in LibraryCommands
    /\ s[i] = "SetSleep" => i = Len(s) /\ \E j \in 1..(i - 1) : s[j] \in {"SetStandby", "SetRx0"}
    /\ s[i] \in {"Reset", "Wakeup"} => \E j \in (i + 1)..Len(s) : s[j] = "SetStandby"
    /\ s[i] = "SetStandby" => \A j \in 1..(i - 1) : s[j] \notin Wakers

\* Every script but that of SX126xRadioSleep is one.
LEMMA ScriptsSleepSound ==
  /\ SleepSound(BootScript)
  /\ SleepSound(TransmitScript)
  /\ SleepSound(RxScript)
  /\ SleepSound(SetRxConfigScript("LORA"))
  /\ SleepSound(RandomScript)
  /\ SleepSound(IrqScript)
<1> USE DEF SleepSound, LibraryCommands, ConfigCommands, Wakers
<1>1. SleepSound(BootScript)
  <2> DEFINE t == <<"Reset", "Wakeup", "SetStandby", "Configure",
                    "SetStandby", "Configure", "DioIrqAll", "SetSleep">>
  <2>1. /\ t[3] = "SetStandby" /\ 3 \in 1..7 /\ 3 \in 2..8 /\ 3 \in 3..8
        /\ Len(t) = 8 /\ DOMAIN t = 1..8
    OBVIOUS
  <2>2. \A i \in 1..8 : t[i] \in ConfigCommands /\ t[i] \notin Wakers
    OBVIOUS
  <2>3. \A i \in 1..8 : /\ t[i] = "SetSleep" => i = 8
                        /\ t[i] \in {"Reset", "Wakeup"} => i \in 1..2
    OBVIOUS
  <2>4. SleepSound(t)
    BY <2>1, <2>2, <2>3
  <2> QED
    BY <2>4, BootScriptIs
<1>2. SleepSound(TransmitScript)
  BY TransmitScriptIs
<1>3. SleepSound(RxScript)
  BY DEF RxScript
<1>4. SleepSound(SetRxConfigScript("LORA"))
  BY DEF SetRxConfigScript
<1>5. SleepSound(RandomScript)
  BY DEF RandomScript
<1>6. SleepSound(IrqScript)
  BY DEF IrqScript
<1> QED
  BY <1>1, <1>2, <1>3, <1>4, <1>5, <1>6

\* The start of a call, or its return, on a chip, switch and driver left alone.
LEMMA SoundStarts ==
  ASSUME ServiceInv, AntennaInv, script = <<>>, SleepSound(script'),
         UNCHANGED <<chipMode, OperatingMode, antSw>>,
         "Reset" \in Remaining' \/ ResetDone,
         at' = "dispatch" => cur_event' = "None"
  PROVE  AntennaInv'
<1>1. Remaining = {}
  BY NothingRuns
<1>2. Remaining' \subseteq LibraryCommands
  BY DEF SleepSound, Remaining
<1>3. SleepsLast'
  BY DEF SleepSound, SleepsLast
<1>4. ResetDone' => ResetDone
  BY DEF ResetDone
<1>5. "SetStandby" \notin Remaining
  BY <1>1
<1>6. /\ ResetDone' /\ chipMode' = "SLEEP" => ~antSw'
      /\ ResetDone' /\ ~antSw' => chipMode' = "SLEEP"
      /\ OperatingMode' # "SLEEP" => antSw'
      /\ chipMode' # "RX_DC" /\ OperatingMode' # "RX_DC"
  BY <1>4, <1>5, Zenon DEF AntennaInv
<1> QED
  BY <1>2, <1>3, <1>6 DEF AntennaInv

\* A step that leaves the radio alone and dispatches nothing.
LEMMA AntennaStutter ==
  ASSUME AntennaInv, UNCHANGED radioVars, at' = "dispatch" => at = at' /\ cur_event' = cur_event
  PROVE  AntennaInv'
BY DEF AntennaInv, SleepsLast, ResetDone, Remaining, radioVars, chipVars, driverVars

\* The calls of the client, and the dispatching of an event, keep the switch
\* on the chip's side.
LEMMA ClientAntenna ==
  ASSUME ServiceInv, AntennaInv, ClientCall \/ longfi_handle_event
  PROVE  AntennaInv'
<1>1. ASSUME script = <<>>, booted PROVE ResetDone
  BY <1>1, NothingRuns
<1>2. CASE longfi_init
  <2>1. /\ script = <<>> /\ script' = BootScript /\ at' = "main"
        /\ UNCHANGED <<chipMode, OperatingMode, antSw>>
    BY <1>2 DEF longfi_init, Begin, Asks, Free, BootScript, chipVars
  <2>2. "Reset" \in Remaining'
    BY <2>1, BootScriptIs DEF Remaining
  <2> QED
    BY <2>1, <2>2, SoundStarts, ScriptsSleepSound
<1>3. ASSUME NEW s, SleepSound(s), script = <<>>, script' = s, booted,
             at' = "dispatch" => cur_event' = "None",
             UNCHANGED <<chipMode, OperatingMode, antSw>>
      PROVE  AntennaInv'
  BY <1>1, <1>3, SoundStarts
<1>4. CASE longfi_rx
  BY <1>3, <1>4, ScriptsSleepSound DEF longfi_rx, Simple, CallOk, Begin, Asks, Free, chipVars
<1>5. ASSUME NEW continuous, configure_rx(continuous) PROVE AntennaInv'
  BY <1>3, <1>5, ScriptsSleepSound
     DEF configure_rx, SetRxConfig, CallOk, Begin, Asks, Free, chipVars
<1>6. CASE longfi_get_random
  BY <1>3, <1>6, ScriptsSleepSound
     DEF longfi_get_random, Simple, CallOk, Begin, Asks, Free, chipVars
<1>7. ASSUME NEW op, NEW f, Transmit(op, f) PROVE AntennaInv'
  BY <1>3, <1>7, ScriptsSleepSound
     DEF Transmit, CallOk, Begin, SetsOut, Free, chipVars, TransmitScript
<1>8. ASSUME NEW len, longfi_set_buf(len) PROVE AntennaInv'
  BY <1>8, AntennaStutter DEF longfi_set_buf, LendBuffer
<1>9. CASE longfi_get_rx
  BY <1>9, AntennaStutter DEF longfi_get_rx, FetchBuffer
<1>10. CASE longfi_handle_event
  BY <1>3, <1>10, ScriptsSleepSound DEF longfi_handle_event, OnDioIrq, Begin, Dispatches
<1> QED
  BY <1>2, <1>4, <1>5, <1>6, <1>7, <1>8, <1>9, <1>10
     DEF ClientCall, longfi_send, longfi_rf_test

\* After a transmission the driver is awake, so that the radio it puts to sleep
\* has its switch turned off.
LEMMA ReturnAntenna ==
  ASSUME ServiceInv, AntennaInv, HandleTxDone \/ HandleReturn
  PROVE  AntennaInv'
<1>1. CASE HandleTxDone
  <2>1. /\ script = <<>> /\ script' = <<"SetSleep">> /\ at' = "txdone"
        /\ at = "dispatch" /\ cur_event = "TxDone"
        /\ UNCHANGED <<chipMode, OperatingMode, antSw>>
    BY <1>1 DEF HandleTxDone, FinishesTx, Begin, SleepScript, chipVars
  <2>2. Remaining = {} /\ Remaining' = {"SetSleep"}
    BY <2>1 DEF Remaining
  <2>3. OperatingMode' # "SLEEP"
    BY <2>1 DEF AntennaInv
  <2>4. SleepsLast' /\ Remaining' \subseteq LibraryCommands
    BY <2>1, <2>2, <2>3 DEF SleepsLast, Wakers, LibraryCommands, ConfigCommands
  <2>5. ResetDone' => ResetDone
    BY <1>1, <2>2 DEF HandleTxDone, callVars, ResetDone
  <2>6. "SetStandby" \notin Remaining
    BY <2>2
  <2>7. /\ ResetDone' /\ chipMode' = "SLEEP" => ~antSw'
        /\ ResetDone' /\ ~antSw' => chipMode' = "SLEEP"
        /\ OperatingMode' # "SLEEP" => antSw'
        /\ chipMode' # "RX_DC" /\ OperatingMode' # "RX_DC"
    BY <2>1, <2>5, <2>6, Zenon DEF AntennaInv
  <2> QED
    BY <2>1, <2>4, <2>7 DEF AntennaInv
<1>2. CASE HandleReturn
  BY <1>2, AntennaStutter DEF HandleReturn, ReturnsTxDone, ReturnsRx, ReturnsNone
<1> QED
  BY <1>1, <1>2

\* What the chip does by itself neither begins nor ends in sleep.
LEMMA ChipAntenna ==
  ASSUME ServiceInv, AntennaInv, Transmitted \/ Received
  PROVE  AntennaInv'
<1>1. /\ chipMode # "SLEEP" /\ chipMode' # "SLEEP" /\ chipMode' # "RX_DC"
      /\ UNCHANGED <<driverVars, at, cur_event>>
  BY DEF Transmitted, Received, TxComplete, Receive, ChipTxDone, ChipReceives, ChipPreamble,
         ChipRxDone, ChipHeaderError, ChipRxTimeout, ChipCadDone, Receiving, SingleRx,
         AntennaInv, Airs, longfiVars
<1>2. Remaining' = Remaining /\ ResetDone' = ResetDone /\ (SleepsLast => SleepsLast')
  BY <1>1 DEF driverVars, Remaining, ResetDone, SleepsLast
<1> QED
  BY <1>1, <1>2 DEF AntennaInv, driverVars

\* After a restart the driver believes that the chip sleeps; nothing is claimed
\* of the switch until the library has reset the radio.
LEMMA RestartAntenna ==
  ASSUME AntennaInv, Restart
  PROVE  AntennaInv'
<1>1. /\ script' = <<>> /\ ~booted' /\ OperatingMode' = "SLEEP"
      /\ at' = "main" /\ chipMode' = chipMode
  BY DEF Restart, Restart126x, Forgets, Statics
<1>2. Remaining' = {} /\ ~ResetDone' /\ SleepsLast'
  BY <1>1 DEF Remaining, ResetDone, SleepsLast
<1> QED
  BY <1>1, <1>2 DEF AntennaInv

\* Every step keeps the switch on the chip's side.
LEMMA StepAntenna ==
  ASSUME DriverTypeOK, LibraryTypeOK, Awake, ServiceInv, AntennaInv, [Next]_vars
  PROVE  AntennaInv'
<1>1. CASE Running
  BY <1>1, RunningAntenna
<1>2. CASE ClientCall \/ longfi_handle_event \/ HandleTxDone \/ HandleReturn
  BY <1>2, ClientAntenna, ReturnAntenna
<1>3. CASE Transmitted \/ Received \/ Restart
  BY <1>3, ChipAntenna, RestartAntenna
<1>4. CASE UNCHANGED vars
  BY <1>4, AntennaStutter DEF vars, longfiVars
<1> QED
  BY <1>1, <1>2, <1>3, <1>4 DEF Next, Library, Running

\* At power on the driver believes that the chip sleeps, whatever it does.
LEMMA InitAntenna == Init => AntennaInv
BY DEF Init, DriverInit, ChipInit, LibraryInit, Statics, AntennaInv, SleepsLast, ResetDone,
       Remaining

\* The switch follows the chip.
THEOREM LongFiAntennaInvariant == Spec => []AntennaInv
<1>1. LongFiInv /\ ServiceInv /\ AntennaInv /\ [Next]_vars => AntennaInv'
  BY StepAntenna DEF LongFiInv, DriverInv, LibraryInv
<1> QED
  BY <1>1, InitAntenna, LongFiInvariant, LongFiServiceInvariant, PTL DEF Spec

\* "Switch is turned off when device is in sleep mode and turned on is all other
\* modes" (sx126x.c:136): so it is between any two calls of the library, whatever
\* it has sent, received and been interrupted by, and after every restart.
THEOREM LongFiAntennaFollowsSleep == Spec => []AntennaFollowsSleep
<1>1. DriverTypeOK /\ AntennaInv => AntennaFollowsSleep
  <2> SUFFICES ASSUME DriverTypeOK, AntennaInv, ResetDone, script = <<>>
               PROVE  antSw <=> chipMode # "SLEEP"
    BY DEF AntennaFollowsSleep
  <2>1. "SetStandby" \notin Remaining
    BY DEF Remaining
  <2> QED
    BY <2>1, Zenon DEF AntennaInv
<1>2. LongFiInv => DriverTypeOK
  BY DEF LongFiInv, DriverInv
<1> QED
  BY <1>1, <1>2, LongFiInvariant, LongFiAntennaInvariant, PTL

-----------------------------------------------------------------------------
(* A device that only transmits.                                           *)

UplinkModes == {"SLEEP", "STDBY", "TX"}

\* A command that only touches a chip that does not receive.
LEMMA TouchUplink ==
  ASSUME Touch, chipMode \in UplinkModes
  PROVE  chipMode' \in UplinkModes
BY DEF Touch, CheckDeviceReady, Woken, UplinkModes

\* The commands of such a device keep it from receiving; only setting the mask
\* with an interrupt latched can raise DIO1; the handler keeps what it has read
\* until its last branch.
LEMMA UplinkCommand ==
  ASSUME Command, Head(script) \in LibraryCommands \ {"SetRx", "SetRx0"},
         chipMode \in UplinkModes
  PROVE  /\ chipMode' \in UplinkModes
         /\ chipIrq = {} \/ Head(script) \notin {"DioIrqAll", "DioIrqTx"} =>
              pending' = pending
         /\ Head(script) # "GetIrqStatus" /\ script' # <<>> =>
              irqRegs' = irqRegs \/ Head(script) = "HeaderError"
<1> USE DEF irqVars, modemVars, callVars, hostVars, chipVars, Do, LibraryCommands,
            ConfigCommands, UplinkModes
<1>1. CASE Reset
  BY <1>1 DEF Reset
<1>2. CASE Wakeup
  BY <1>2 DEF Wakeup
<1>3. CASE SetStandby
  BY <1>3 DEF SetStandby, Enter
<1>4. CASE SetSleep
  BY <1>4 DEF SetSleep
<1>5. CASE SetTx
  BY <1>5 DEF SetTx, Enter
<1>6. CASE SetRx
  BY <1>6 DEF SetRx, Enter
<1>7. CASE SetRx0
  BY <1>7 DEF SetRx0, Enter
<1>8. CASE SetRxDutyCycle
  BY <1>8 DEF SetRxDutyCycle, Enter
<1>9. CASE SetCad
  BY <1>9 DEF SetCad, Enter
<1>10. CASE SetTxContinuousWave
  BY <1>10 DEF SetTxContinuousWave, Enter
<1>11. CASE Configure
  BY <1>11, TouchUplink DEF Configure
<1>12. CASE ModemLora
  BY <1>12, TouchUplink DEF ModemLora
<1>13. CASE ModemGfsk
  BY <1>13, TouchUplink DEF ModemGfsk
<1>14. CASE WriteSync
  BY <1>14, TouchUplink DEF WriteSync
<1>15. CASE PacketParams
  BY <1>15, TouchUplink DEF PacketParams
<1>16. CASE DioIrqAll
  BY <1>16, TouchUplink DEF DioIrqAll, SetDioIrqParams, SetIrqs, DioHigh
<1>17. CASE DioIrqTx
  BY <1>17, TouchUplink DEF DioIrqTx, SetDioIrqParams, SetIrqs, DioHigh
<1>18. CASE WriteBuffer
  BY <1>18, TouchUplink DEF WriteBuffer
<1>19. CASE GetIrqStatus
  BY <1>19, TouchUplink DEF GetIrqStatus
<1>20. CASE ClearIrqStatus
  BY <1>20, TouchUplink DEF ClearIrqStatus, SetIrqs, DioHigh
<1>21. CASE IrqCadDone
  BY <1>21 DEF IrqCadDone
<1>22. CASE IrqSkip
  BY <1>22 DEF IrqSkip
<1>23. CASE IrqTxDone
  BY <1>23 DEF IrqTxDone
<1>24. CASE IrqRxDone
  BY <1>24 DEF IrqRxDone, CheckDeviceReady, Woken
<1>25. CASE IrqCrcError
  BY <1>25 DEF IrqCrcError
<1>26. CASE IrqTxTimeout
  BY <1>26 DEF IrqTxTimeout, IrqTimeoutIn
<1>27. CASE IrqRxTimeout
  BY <1>27 DEF IrqRxTimeout, IrqTimeoutIn
<1>28. CASE IrqHeaderError
  BY <1>28 DEF IrqHeaderError
<1>29. CASE CarrierSense
  BY <1>29, TouchUplink DEF CarrierSense
<1> QED
  BY <1>1, <1>2, <1>3, <1>4, <1>5, <1>6, <1>7, <1>8, <1>9, <1>10, <1>11,
     <1>12, <1>13, <1>14, <1>15, <1>16, <1>17, <1>18, <1>19, <1>20, <1>21,
     <1>22, <1>23, <1>24, <1>25, <1>26, <1>27, <1>28, <1>29 DEF Command,
     Issue, Callback

\* What the callbacks of the handler store when it has read TX_DONE at most.
LEMMA UplinkCallbacks ==
  ASSUME Running, irqRegs \subseteq {"TX_DONE"}
  PROVE  IF Head(script) = "TxDone" /\ "TX_DONE" \in irqRegs
           THEN cur_event' = "TxDone" ELSE cur_event' = cur_event
<1>1. CASE RunCallback
  <2>1. IrqTxDone /\ OnTxDone
    BY <1>1 DEF RunCallback, IrqRxDone, IrqCrcError, IrqTxTimeout, IrqRxTimeout,
                IrqTimeoutIn, IrqHeaderError
  <2> QED
    BY <2>1 DEF IrqTxDone, OnTxDone, Do
<1>2. CASE RunCommand
  <2>1. cur_event' = cur_event /\ Issue
    BY <1>2 DEF RunCommand, longfiVars
  <2>2. Head(script) = "TxDone" => "TX_DONE" \notin irqRegs
    BY <2>1 DEF Issue, Do, Reset, Wakeup, SetStandby, SetSleep, SetTx, SetRx, SetRx0,
                SetRxDutyCycle, SetCad, SetTxContinuousWave, Configure, ModemLora, ModemGfsk,
                WriteSync, PacketParams, DioIrqAll, DioIrqTx, SetDioIrqParams, WriteBuffer,
                GetIrqStatus, ClearIrqStatus, IrqCadDone, IrqSkip
  <2> QED
    BY <2>1, <2>2
<1> QED
  BY <1>1, <1>2 DEF Running

\* The handler reads TX_DONE, clears it, and tells the library.
LEMMA RunningUplinkHandler ==
  ASSUME DriverTypeOK, Running, AntennaInv, UplinkInv, at = "dispatch"
  PROVE  /\ Head(script) \notin {"DioIrqAll", "DioIrqTx"}
         /\ irqRegs' \subseteq {"TX_DONE"}
         /\ UplinkHandlerInv'
<1>1. /\ Command /\ at' = at /\ airings' = airings
      /\ script \in Seq(Commands) /\ script # <<>> /\ script' = Tail(script)
  BY LibraryRuns, CommandPops DEF Running, clientVars, DriverTypeOK
<1>2. PICK k \in 1..9 :
        /\ From(IrqScript, k)
        /\ airings = 1
        /\ k = 1 => "TX_DONE" \in chipIrq
        /\ k \in 2..8 => irqRegs = {"TX_DONE"}
        /\ k > 2 => chipIrq = {}
        /\ k > 3 => cur_event = "TxDone"
  BY DEF UplinkInv, UplinkHandlerInv
<1>3. k \in 1..8
  BY <1>1, <1>2, IrqScriptIs, FromEnds DEF From
<1>4. Head(script) = IrqScript[k] /\ From(IrqScript, k + 1)'
  BY <1>1, <1>2, <1>3, IrqScriptIs, FromNext
<1>5. /\ k = 1 => Head(script) = "GetIrqStatus"
      /\ k = 2 => Head(script) = "ClearIrqStatus"
      /\ k = 3 => Head(script) = "TxDone"
      /\ k \in 4..7 => Head(script) \in {"RxDone", "CrcError", "CadDone", "Timeout"}
      /\ k = 8 => Head(script) = "HeaderError"
  BY <1>4, ScriptElements
<1>6. Head(script) \in LibraryCommands \ {"SetRx", "SetRx0"} /\ chipMode \in UplinkModes
  BY <1>3, <1>5 DEF LibraryCommands, UplinkInv, UplinkModes
<1>7. chipIrq' \subseteq chipIrq /\ (k = 2 => chipIrq' = {})
  BY <1>1, <1>5, CommandFrame, HandlerCommands
<1>8. k + 1 \in 2..8 => irqRegs' = {"TX_DONE"}
  <2>1. CASE k = 1
    BY <1>1, <1>2, <1>5, <2>1, HandlerCommands DEF UplinkInv
  <2>2. CASE k \in 2..7
    <3>1. script' # <<>>
      <4>1. k + 1 \in 1..Len(IrqScript)
        BY <2>2, IrqScriptIs
      <4> QED
        BY <1>4, <4>1, IrqScriptIs, FromSome DEF From
    <3> QED
      BY <1>1, <1>2, <1>5, <1>6, <2>2, <3>1, UplinkCommand
  <2> QED
    BY <1>3, <2>1, <2>2
<1>9. k + 1 > 3 => cur_event' = "TxDone"
  <2>1. irqRegs \subseteq {"TX_DONE"}
    BY DEF UplinkInv
  <2>2. k = 3 => "TX_DONE" \in irqRegs /\ Head(script) = "TxDone"
    BY <1>2, <1>5
  <2>3. k \in 4..8 => Head(script) # "TxDone" /\ cur_event = "TxDone"
    BY <1>2, <1>5
  <2> QED
    BY <1>3, <2>1, <2>2, <2>3, UplinkCallbacks
<1>10. irqRegs' \subseteq {"TX_DONE"}
  <2>1. irqRegs' = chipIrq \/ irqRegs' \in {irqRegs, {}}
    BY <1>1, CommandFrame, HandlerCommands
  <2> QED
    BY <2>1 DEF UplinkInv
<1>11. UplinkHandlerInv'
  BY <1>1, <1>2, <1>3, <1>4, <1>7, <1>8, <1>9 DEF UplinkHandlerInv
<1> QED
  BY <1>3, <1>5, <1>10, <1>11

\* A command of the library raises no interrupt, and leaves the radio asleep or
\* about to sleep if it was asked to.
LEMMA RunningUplink ==
  ASSUME DriverTypeOK, LibraryTypeOK, ServiceInv, AntennaInv, Awake, UplinkInv, Running
  PROVE  UplinkInv'
<1>1. /\ Command /\ UNCHANGED <<at, sending, airings, asked>>
      /\ script \in Seq(Commands) /\ script # <<>> /\ script' = Tail(script)
      /\ Remaining' \subseteq Remaining /\ Remaining \subseteq Remaining' \cup {Head(script)}
      /\ Head(script) \in Remaining
  <2>1. /\ Command /\ UNCHANGED <<at, sending, airings, asked>>
        /\ script \in Seq(Commands) /\ script # <<>> /\ script' = Tail(script)
    BY LibraryRuns, CommandPops DEF Running, clientVars, DriverTypeOK
  <2> QED
    BY <2>1, TailRemaining DEF Remaining
<1>2. Head(script) \in LibraryCommands \ {"SetRx", "SetRx0"} /\ chipMode \in UplinkModes
  BY <1>1 DEF AntennaInv, UplinkInv, UplinkModes
<1>3. chipMode' \in UplinkModes /\ chipIrq' \subseteq chipIrq
  BY <1>1, <1>2, UplinkCommand, CommandFrame
<1>4. ResetDone' /\ (~ResetDone => Head(script) = "Reset")
  BY <1>1, CommandResets DEF ServiceInv, Reset, Do
<1>5. at = "main" => airings # 1
  BY <1>1 DEF UplinkInv
<1>6. Head(script) \in {"DioIrqAll", "DioIrqTx"} => chipIrq = {}
  <2> SUFFICES ASSUME Head(script) \in {"DioIrqAll", "DioIrqTx"}, "TX_DONE" \in chipIrq
               PROVE  FALSE
    BY DEF UplinkInv
  <2>1. ResetDone
    BY <1>4
  <2>2. airings = 1
    BY <2>1 DEF ServiceInv, SendInv, Completed
  <2>3. at # "dispatch"
    BY RunningUplinkHandler
  <2>4. at # "txdone"
    BY <1>1 DEF ServiceInv, BootInv
  <2> QED
    BY <1>5, <2>2, <2>3, <2>4 DEF LibraryTypeOK
<1>7. pending' = pending
  BY <1>1, <1>2, <1>6, UplinkCommand
<1>8. UplinkHandlerInv' /\ irqRegs' \subseteq {"TX_DONE"}
  <2>1. CASE at = "dispatch"
    BY <2>1, RunningUplinkHandler
  <2>2. CASE at # "dispatch"
    <3>1. irqRegs' = chipIrq \/ irqRegs' \in {irqRegs, {}}
      BY <1>1, CommandFrame, HandlerCommands
    <3> QED
      BY <1>1, <2>2, <3>1 DEF UplinkInv, UplinkHandlerInv
  <2> QED
    BY <2>1, <2>2
<1>9. ASSUME asked = "doze" \/ at = "txdone"
      PROVE  "SetSleep" \in Remaining' \/ (script' = <<>> /\ chipMode' = "SLEEP")
  <2>1. "SetSleep" \in Remaining
    BY <1>1, <1>9 DEF UplinkInv
  <2>2. CASE Head(script) = "SetSleep"
    <3>1. chipMode' = "SLEEP"
      BY <1>1, <1>2, <2>2, CommandAntenna DEF AntennaInv
    <3>2. 1 \in DOMAIN script /\ script[1] = "SetSleep"
      BY <1>1, <2>2
    <3>3. Len(script) = 1
      BY <3>2 DEF AntennaInv, SleepsLast
    <3>4. script' = <<>>
      BY <1>1, <3>3
    <3> QED
      BY <3>1, <3>4
  <2>3. CASE Head(script) # "SetSleep"
    BY <1>1, <2>1, <2>3
  <2> QED
    BY <2>2, <2>3
<1>10. chipIrq' \subseteq {"TX_DONE"} /\ Remaining' \cap {"SetRx", "SetRx0"} = {}
  BY <1>1, <1>3 DEF UplinkInv
<1>11. pending' = IF at' = "main" /\ airings' = 1 THEN 1 ELSE 0
  BY <1>1, <1>7 DEF UplinkInv
<1>12. at' = "main" => airings' # 1
  BY <1>1, <1>5
<1>13. asked' = "doze" => sending' = NoFrame
  BY <1>1 DEF UplinkInv
<1> QED
  BY <1>1, <1>3, <1>4, <1>8, <1>9, <1>10, <1>11, <1>12, <1>13 DEF UplinkInv, UplinkModes

\* A call that commands the radio, and receives nothing.
LEMMA UplinkStarts ==
  ASSUME ServiceInv, UplinkInv, Free, script = <<>>,
         UNCHANGED <<chipVars, irqRegs, at>>, airings' = 0,
         Remaining' \cap {"SetRx", "SetRx0"} = {},
         asked' = "doze" => sending' = NoFrame /\ "SetSleep" \in Remaining'
  PROVE  UplinkInv'
<1>1. /\ at = "main" /\ at' = "main" /\ airings = 0 /\ pending' = 0
  BY DEF ServiceInv, BootInv, UplinkInv, Free, chipVars
<1>2. ~ResetDone' /\ chipMode' = "TX" => irqMask' = {}
  BY DEF ServiceInv, SendInv, OnAir, UplinkInv, Free, chipVars
<1>3. UplinkHandlerInv'
  BY <1>1 DEF UplinkHandlerInv
<1> QED
  BY <1>1, <1>2, <1>3 DEF UplinkInv, chipVars

\* A step that leaves the radio, the transmission and the dispatcher alone.
LEMMA UplinkStutter ==
  ASSUME UplinkInv, UNCHANGED <<radioVars, at, sending, airings, cur_event, asked>>
  PROVE  UplinkInv'
BY DEF UplinkInv, UplinkHandlerInv, From, ResetDone, Remaining, radioVars, chipVars, driverVars

\* The calls of a client that only transmits.
LEMMA ClientUplink ==
  ASSUME Ops \subseteq UplinkOps, ServiceInv, UplinkInv, ClientCall
  PROVE  UplinkInv'
<1>1. CASE longfi_init
  <2>1. /\ Free /\ script = <<>> /\ script' = BootScript
        /\ UNCHANGED <<chipVars, irqRegs, at, sending, airings>>
    BY <1>1 DEF longfi_init, Begin, Asks, BootScript
  <2>2. /\ \A i \in 1..8 : script'[i] \notin {"SetRx", "SetRx0"}
        /\ script'[8] = "SetSleep" /\ DOMAIN script' = 1..8 /\ 8 \in 1..8
    BY <2>1, BootScriptIs
  <2>3. "SetSleep" \in Remaining' /\ Remaining' \cap {"SetRx", "SetRx0"} = {}
    BY <2>2 DEF Remaining
  <2>4. airings' = 0 /\ sending' = NoFrame
    BY <2>1 DEF Free, ServiceInv, BootInv
  <2> QED
    BY <2>1, <2>3, <2>4, UplinkStarts
<1>2. ASSUME NEW op, NEW f, Transmit(op, f) PROVE UplinkInv'
  <2>1. /\ Free /\ script = <<>> /\ script' = TransmitScript /\ airings' = 0 /\ asked' = "none"
        /\ UNCHANGED <<chipVars, irqRegs, at>>
    BY <1>2 DEF Transmit, Begin, SetsOut, TransmitScript
  <2>2. /\ \A i \in 1..10 : script'[i] \notin {"SetRx", "SetRx0"}
        /\ DOMAIN script' = 1..10
    BY <2>1, TransmitScriptIs
  <2>3. Remaining' \cap {"SetRx", "SetRx0"} = {}
    BY <2>2 DEF Remaining
  <2> QED
    BY <2>1, <2>3, UplinkStarts
<1>3. ASSUME NEW len, longfi_set_buf(len) PROVE UplinkInv'
  BY <1>3, UplinkStutter DEF longfi_set_buf, LendBuffer, clientVars
<1>4. CASE longfi_get_rx
  BY <1>4, UplinkStutter DEF longfi_get_rx, FetchBuffer
<1>5. ~longfi_rx /\ ~longfi_get_random
  BY DEF longfi_rx, longfi_get_random, Simple, CallOk, UplinkOps
<1>6. ASSUME NEW continuous PROVE ~configure_rx(continuous)
  BY DEF configure_rx, SetRxConfig, CallOk, UplinkOps
<1> QED
  BY <1>1, <1>2, <1>3, <1>4, <1>5, <1>6 DEF ClientCall, longfi_send, longfi_rf_test

\* The only event there can be in the FIFO is that of a complete transmission.
LEMMA DispatchUplink ==
  ASSUME ServiceInv, UplinkInv, longfi_handle_event
  PROVE  UplinkInv'
<1>1. /\ script = <<>> /\ script' = IrqScript /\ booted /\ pending > 0 /\ pending' = pending - 1
      /\ at = "main" /\ at' = "dispatch"
      /\ UNCHANGED <<chipMode, chipIrq, irqMask, irqRegs, booted, sending, airings, asked>>
  BY DEF longfi_handle_event, OnDioIrq, Begin, Dispatches, callVars
<1>2. /\ airings = 1 /\ pending' = 0 /\ "TX_DONE" \in chipIrq
  BY <1>1 DEF UplinkInv
<1>3. ResetDone /\ sending # NoFrame
  BY <1>1, <1>2, NothingRuns DEF ServiceInv, BootInv
<1>4. Remaining' \cap {"SetRx", "SetRx0"} = {} /\ ResetDone'
  BY <1>1 DEF Remaining, ResetDone, IrqScript
<1>5. UplinkHandlerInv'
  <2>1. From(IrqScript, 1)'
    BY <1>1, IrqScriptIs, FromEnds DEF From
  <2> QED
    BY <1>1, <1>2, <2>1 DEF UplinkHandlerInv
<1>6. asked' # "doze"
  BY <1>1, <1>3 DEF UplinkInv
<1> QED
  BY <1>1, <1>2, <1>4, <1>5, <1>6 DEF UplinkInv

\* The handler has found TX_DONE; the library puts the radio to sleep and only
\* then tells the client.
LEMMA ReturnUplink ==
  ASSUME ServiceInv, UplinkInv, HandleTxDone \/ HandleReturn
  PROVE  UplinkInv'
<1>1. /\ script = <<>> /\ Remaining = {} /\ irqRegs = {}
      /\ UNCHANGED <<chipVars, irqRegs, booted>>
  BY NothingRuns DEF HandleTxDone, HandleReturn, Begin, radioVars, driverVars, callVars
<1>2. CASE HandleTxDone
  <2>1. /\ at = "dispatch" /\ at' = "txdone" /\ script' = <<"SetSleep">>
        /\ UNCHANGED <<sending, airings, asked>>
    BY <1>2 DEF HandleTxDone, FinishesTx, Begin, SleepScript, clientVars
  <2>2. Remaining' = {"SetSleep"} /\ (ResetDone' <=> ResetDone)
    BY <1>1, <2>1 DEF Remaining, ResetDone
  <2>3. UplinkHandlerInv'
    BY <2>1 DEF UplinkHandlerInv
  <2> QED
    BY <1>1, <2>1, <2>2, <2>3 DEF UplinkInv, chipVars
<1>3. CASE HandleReturn
  <2>1. UNCHANGED radioVars /\ at' = "main" /\ UplinkHandlerInv'
    BY <1>3 DEF HandleReturn, ReturnsTxDone, ReturnsRx, ReturnsNone, UplinkHandlerInv
  <2>2. UNCHANGED <<script, chipMode, chipIrq, irqMask, irqRegs, pending>>
        /\ Remaining' = Remaining /\ ResetDone' = ResetDone
    BY <2>1 DEF radioVars, driverVars, chipVars, Remaining, ResetDone
  <2>3. at # "dispatch"
    <3> SUFFICES ASSUME at = "dispatch" PROVE FALSE
      OBVIOUS
    <3>1. PICK k \in 1..9 : From(IrqScript, k) /\ (k > 3 => cur_event = "TxDone")
      BY DEF UplinkInv, UplinkHandlerInv
    <3>2. k > 3
      BY <1>1, <3>1, IrqScriptIs, FromSome DEF From
    <3> QED
      BY <1>3, <3>1, <3>2 DEF HandleReturn, ReturnsTxDone, ReturnsRx, ReturnsNone
  <2>4. /\ at = "txdone" /\ sending' = NoFrame /\ airings' = 0
    BY <1>3, <2>3 DEF HandleReturn, ReturnsTxDone, ReturnsRx, ReturnsNone
  <2>5. chipMode = "SLEEP" /\ pending = 0
    BY <1>1, <2>4 DEF UplinkInv
  <2> QED
    BY <1>1, <2>1, <2>2, <2>4, <2>5 DEF UplinkInv
<1> QED
  BY <1>2, <1>3

\* A transmission ends while the library is idle, and raises DIO1.
LEMMA TransmittedUplink ==
  ASSUME LibraryTypeOK, ServiceInv, UplinkInv, Transmitted
  PROVE  UplinkInv'
<1>1. /\ chipMode = "TX" /\ chipMode' = "STDBY"
      /\ SetIrqs(chipIrq \cup ({"TX_DONE"} \cap irqMask), irqMask)
      /\ UNCHANGED driverVars
  BY DEF Transmitted, TxComplete, ChipTxDone, Latch
<1>2. /\ UNCHANGED <<at, sending, cur_event, asked>>
      /\ IF sending = NoFrame THEN airings' = airings
         ELSE airings' = IF airings < MaxAirings THEN airings + 1 ELSE airings
  BY DEF Transmitted, Airs
<1>3. UNCHANGED <<script, irqRegs, booted>> /\ Remaining' = Remaining /\ ResetDone' = ResetDone
  BY <1>1 DEF driverVars, Remaining, ResetDone
<1>4. irqMask' = irqMask
  BY <1>1 DEF SetIrqs
<1>5. CASE ~ResetDone
  <2>1. irqMask = {} /\ at = "main" /\ sending = NoFrame
    BY <1>1, <1>5 DEF UplinkInv, ServiceInv, BootInv
  <2>2. chipIrq' = chipIrq /\ pending' = pending /\ airings' = airings
    BY <1>1, <1>2, <2>1 DEF SetIrqs, DioHigh
  <2>3. UplinkHandlerInv'
    BY <1>2, <2>1 DEF UplinkHandlerInv
  <2> QED
    BY <1>1, <1>2, <1>3, <1>4, <2>1, <2>2, <2>3 DEF UplinkInv
<1>6. CASE ResetDone
  <2>1. OnAir /\ ~Completed
    BY <1>1, <1>6 DEF ServiceInv, SendInv, OnAir
  <2>2. airings' = 1 /\ sending # NoFrame /\ airings = 0
    BY <1>2, <2>1 DEF OnAir, MaxAirings
  <2>3. at = "main"
    BY <2>1, <2>2 DEF UplinkInv, UplinkHandlerInv, Completed, LibraryTypeOK
  <2>4. chipIrq = {} /\ chipIrq' = {"TX_DONE"} /\ pending' = pending + 1
    BY <1>1, <2>1 DEF UplinkInv, Completed, OnAir, SetIrqs, DioHigh
  <2>5. UplinkHandlerInv'
    BY <1>2, <2>3 DEF UplinkHandlerInv
  <2>6. pending' = 1 /\ script' = <<>> /\ asked' # "doze"
    BY <1>2, <1>3, <2>1, <2>2, <2>3, <2>4 DEF UplinkInv, OnAir
  <2>7. /\ Remaining' \cap {"SetRx", "SetRx0"} = {} /\ irqRegs' \subseteq {"TX_DONE"}
        /\ at' = "main" /\ ResetDone'
    BY <1>2, <1>3, <1>6, <2>3 DEF UplinkInv
  <2> QED
    BY <1>1, <2>2, <2>4, <2>5, <2>6, <2>7 DEF UplinkInv
<1> QED
  BY <1>5, <1>6

\* Every step of a device that only transmits.
LEMMA StepUplink ==
  ASSUME Ops \subseteq UplinkOps, DriverTypeOK, LibraryTypeOK, Awake, ServiceInv, AntennaInv,
         UplinkInv, [Next]_vars
  PROVE  UplinkInv'
<1>1. CASE Running
  BY <1>1, RunningUplink
<1>2. CASE ClientCall \/ longfi_handle_event \/ HandleTxDone \/ HandleReturn
  BY <1>2, ClientUplink, DispatchUplink, ReturnUplink
<1>3. CASE Transmitted
  BY <1>3, TransmittedUplink
<1>4. ~Received /\ ~Restart
  BY DEF Received, Receive, ChipReceives, ChipPreamble, ChipRxDone, ChipHeaderError,
         ChipRxTimeout, ChipCadDone, Receiving, SingleRx, UplinkInv, Restart, Restart126x,
         UplinkOps
<1>5. CASE UNCHANGED vars
  BY <1>5, UplinkStutter DEF vars, longfiVars, clientVars
<1> QED
  BY <1>1, <1>2, <1>3, <1>4, <1>5 DEF Next, Library, Running

\* At power on nothing has interrupted, even if an earlier run still transmits.
LEMMA InitUplink == Init => UplinkInv
BY DEF Init, DriverInit, ChipInit, LibraryInit, UplinkInv, UplinkHandlerInv, ResetDone, Remaining

\* While a packet is out: before its transmission, after it, and in the handler.
LEMMA PacketPhases ==
  ASSUME DriverTypeOK, LibraryTypeOK, ServiceInv, UplinkInv, sending # NoFrame
  PROVE  /\ ResetDone /\ Len(script) \in Nat /\ airings \in {0, 1}
         /\ airings = 0 => at = "main" /\ PacketSteps = 12 + Len(script)
         /\ airings = 1 /\ at = "main" => script = <<>> /\ PacketSteps = 11
         /\ airings = 1 /\ at = "dispatch" => PacketSteps = 2 + Len(script)
         /\ airings = 1 /\ at = "txdone" => PacketSteps = Len(script)
<1>1. ResetDone
  BY DEF ServiceInv, BootInv
<1>2. airings \in {0, 1}
  BY <1>1 DEF ServiceInv, SendInv, LibraryTypeOK, MaxAirings
<1>3. airings = 0 => at = "main"
  BY <1>1 DEF UplinkInv, UplinkHandlerInv, ServiceInv, SendInv, Completed, LibraryTypeOK
<1>4. script \in Seq(Commands) /\ Len(script) \in Nat
  BY DEF DriverTypeOK
<1>5. PacketSteps = StepsLeft(Len(script), 8)
  BY IrqScriptIs DEF PacketSteps
<1> QED
  BY <1>1, <1>2, <1>3, <1>4, <1>5 DEF StepsLeft, UplinkInv

\* A command shortens the call.
LEMMA RunningProgresses ==
  ASSUME DriverTypeOK, LibraryTypeOK, ServiceInv, UplinkInv, sending # NoFrame, Running
  PROVE  PacketSteps' \in Nat /\ PacketSteps' < PacketSteps
<1>1. /\ UNCHANGED <<at, airings>>
      /\ script \in Seq(Commands) /\ script # <<>> /\ script' = Tail(script)
  BY LibraryRuns, CommandPops DEF Running, clientVars, DriverTypeOK
<1>2. Len(script') = Len(script) - 1 /\ Len(script) \in Nat \ {0}
  BY <1>1
<1>3. PacketSteps' = StepsLeft(Len(script), 8)'
  BY IrqScriptIs DEF PacketSteps
<1>4. at \in {"main", "dispatch", "txdone"} /\ (at = "main" => airings = 0)
  BY <1>1, PacketPhases DEF LibraryTypeOK
<1> QED
  BY <1>1, <1>2, <1>3, <1>4, PacketPhases DEF StepsLeft

\* So does every other step of the device; the rest leaves the packet where it is.
LEMMA StepProgresses ==
  ASSUME Ops \subseteq UplinkOps, DriverTypeOK, LibraryTypeOK, ServiceInv, UplinkInv,
         sending # NoFrame, sending' = sending, Next
  PROVE  /\ PacketSteps' \leq PacketSteps
         /\ Library \/ longfi_handle_event \/ Transmitted => PacketSteps' < PacketSteps
<1>1. PacketSteps \in Nat
  BY PacketPhases DEF LibraryTypeOK
<1>2. PacketSteps' = StepsLeft(Len(script), 8)'
  BY IrqScriptIs DEF PacketSteps
<1>3. ASSUME Running PROVE PacketSteps' \in Nat /\ PacketSteps' < PacketSteps
  BY <1>3, RunningProgresses
<1>4. ASSUME HandleTxDone PROVE PacketSteps' \in Nat /\ PacketSteps' < PacketSteps
  <2>1. /\ at = "dispatch" /\ at' = "txdone" /\ airings' = airings
        /\ script = <<>> /\ script' = <<"SetSleep">>
    BY <1>4 DEF HandleTxDone, FinishesTx, Begin, SleepScript, clientVars
  <2>2. airings = 1 /\ PacketSteps = 2 /\ Len(script') = 1
    BY <2>1, PacketPhases
  <2>3. PacketSteps' = 1
    BY <1>2, <2>1, <2>2 DEF StepsLeft
  <2> QED
    BY <2>2, <2>3
<1>5. ~HandleReturn
  <2> SUFFICES ASSUME HandleReturn PROVE FALSE
    OBVIOUS
  <2>1. script = <<>> /\ at = "dispatch" /\ cur_event # "TxDone"
    BY DEF HandleReturn, ReturnsTxDone, ReturnsRx, ReturnsNone
  <2>2. PICK k \in 1..9 : From(IrqScript, k) /\ (k > 3 => cur_event = "TxDone")
    BY <2>1 DEF UplinkInv, UplinkHandlerInv
  <2>3. k > 3
    BY <2>1, <2>2, IrqScriptIs, FromSome DEF From
  <2> QED
    BY <2>1, <2>2, <2>3
<1>6. ASSUME longfi_handle_event PROVE PacketSteps' \in Nat /\ PacketSteps' < PacketSteps
  <2>1. /\ at = "main" /\ at' = "dispatch" /\ airings' = airings /\ pending > 0
        /\ script' = IrqScript
    BY <1>6 DEF longfi_handle_event, OnDioIrq, Begin, Dispatches
  <2>2. airings = 1 /\ PacketSteps = 11
    BY <2>1, PacketPhases DEF UplinkInv
  <2>3. Len(script') = 8
    BY <2>1, IrqScriptIs
  <2>4. airings' = 1 /\ at' = "dispatch"
    BY <2>1, <2>2
  <2>5. PacketSteps' = 10
    BY <1>2, <2>3, <2>4 DEF StepsLeft
  <2> QED
    BY <2>2, <2>5
<1>7. ASSUME Transmitted PROVE PacketSteps' \in Nat /\ PacketSteps' < PacketSteps
  <2>1. /\ chipMode = "TX" /\ UNCHANGED <<at, script>>
        /\ airings' = IF airings < MaxAirings THEN airings + 1 ELSE airings
    BY <1>7 DEF Transmitted, TxComplete, ChipTxDone, driverVars, Airs
  <2>2. OnAir
    BY <2>1, PacketPhases DEF ServiceInv, SendInv
  <2>3. airings = 0 /\ at = "main" /\ script = <<>> /\ PacketSteps = 12
    BY <2>2, PacketPhases DEF OnAir
  <2>4. airings' = 1 /\ at' = "main"
    BY <2>1, <2>3 DEF MaxAirings
  <2>5. PacketSteps' = 11
    BY <1>2, <2>4 DEF StepsLeft
  <2> QED
    BY <2>3, <2>5
<1>8. ~Received /\ ~Restart
  BY DEF Received, Receive, ChipReceives, ChipPreamble, ChipRxDone, ChipHeaderError,
         ChipRxTimeout, ChipCadDone, Receiving, SingleRx, UplinkInv, Restart, Restart126x,
         UplinkOps
<1>9. ASSUME longfi_get_rx \/ \E len \in BufferLens : longfi_set_buf(len)
      PROVE  PacketSteps' = PacketSteps
  <2>1. UNCHANGED <<at, airings, script>>
    BY <1>9 DEF longfi_get_rx, longfi_set_buf, FetchBuffer, LendBuffer, clientVars, radioVars,
                driverVars
  <2> QED
    BY <2>1 DEF PacketSteps, StepsLeft
<1>10. ~Free
  BY DEF Free
<1>11. ~longfi_init /\ ~longfi_rx /\ ~longfi_get_random /\ ~longfi_rf_test
  BY <1>10 DEF longfi_init, longfi_rx, longfi_get_random, longfi_rf_test, Transmit
<1>12. (\A continuous : ~configure_rx(continuous)) /\ (\A f : ~longfi_send(f))
  BY <1>10 DEF configure_rx, longfi_send, Transmit
<1>13. ClientCall => longfi_get_rx \/ \E len \in BufferLens : longfi_set_buf(len)
  BY <1>11, <1>12 DEF ClientCall
<1>14. Library \/ longfi_handle_event \/ Transmitted => PacketSteps' < PacketSteps
  BY <1>3, <1>4, <1>5, <1>6, <1>7 DEF Library, Running
<1>15. ASSUME ~(Library \/ longfi_handle_event \/ Transmitted)
       PROVE  PacketSteps' = PacketSteps
  BY <1>8, <1>9, <1>13, <1>15 DEF Next
<1>16. Library \/ longfi_handle_event \/ Transmitted => PacketSteps' \in Nat
  BY <1>3, <1>4, <1>5, <1>6, <1>7 DEF Library, Running
<1> QED
  BY <1>1, <1>14, <1>15, <1>16

\* A device that only transmits has exactly one event in its FIFO while a
\* complete transmission waits to be told to the client, and none otherwise.
THEOREM LongFiUplinkInvariant ==
  ASSUME Ops \subseteq UplinkOps
  PROVE  Spec => []UplinkInv
<1>1. LongFiInv /\ ServiceInv /\ AntennaInv /\ UplinkInv /\ [Next]_vars => UplinkInv'
  BY StepUplink DEF LongFiInv, DriverInv, LibraryInv
<1> QED
  BY <1>1, InitUplink, LongFiInvariant, LongFiServiceInvariant, LongFiAntennaInvariant, PTL
     DEF Spec

\* "ClientEvent_TxDone signals that the library is ready to send again"
\* (README.md:72): as long as it only transmits, the client is always told: when
\* it has dispatched every event and a packet is still out, the packet is on the
\* air.  (One reception is enough to lose the completion: the run TxDoneLost.)
THEOREM LongFiTxDoneNotLost ==
  ASSUME Ops \subseteq UplinkOps
  PROVE  Spec => []TxDoneNotLost
<1>1. ServiceInv /\ UplinkInv => TxDoneNotLost
  <2> SUFFICES ASSUME ServiceInv, UplinkInv, Drained, sending # NoFrame
               PROVE  chipMode = "TX"
    BY DEF TxDoneNotLost
  <2>1. at = "main" /\ script = <<>> /\ booted /\ pending = 0
    BY DEF Drained, Quiet
  <2>2. ResetDone /\ ~Preparing
    BY <2>1, NothingRuns
  <2>3. airings # 1
    BY <2>1 DEF UplinkInv
  <2> QED
    BY <2>2, <2>3 DEF ServiceInv, SendInv
<1> QED
  BY <1>1, LongFiServiceInvariant, LongFiUplinkInvariant, PTL

\* "sleep the radio and wait for a send or receive call" (longfi.c:73), "sleep
\* when done transmitting" (longfi.c:258): nothing wakes the radio of a device
\* that only transmits until the client sends again.
THEOREM LongFiDozesUntilCalled ==
  ASSUME Ops \subseteq UplinkOps
  PROVE  Spec => []DozesUntilCalled
<1>1. UplinkInv => DozesUntilCalled
  BY DEF UplinkInv, DozesUntilCalled, Quiet, Remaining
<1> QED
  BY <1>1, LongFiUplinkInvariant, PTL

\* A packet that a device which only transmits has sent comes nearer to its
\* ClientEvent_TxDone with every step the device takes, and no other step takes
\* it back: twenty-two of them are left when longfi_send is called.
THEOREM LongFiPacketProgresses ==
  ASSUME Ops \subseteq UplinkOps
  PROVE  Spec => PacketProgresses
<1>1. ASSUME LongFiInv, ServiceInv, UplinkInv, [Next]_vars
      PROVE  [sending # NoFrame /\ sending' = sending =>
                /\ PacketSteps' \leq PacketSteps
                /\ Library \/ longfi_handle_event \/ Transmitted =>
                     PacketSteps' < PacketSteps]_vars
  BY <1>1, StepProgresses DEF LongFiInv, DriverInv, LibraryInv
<1> QED
  BY <1>1, LongFiInvariant, LongFiServiceInvariant, LongFiUplinkInvariant, PTL
     DEF Spec, PacketProgresses
=============================================================================
