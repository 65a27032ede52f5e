---------------------------- MODULE SX127xProofs ----------------------------
(***************************************************************************)
(* The drivers of SX127x, for every set of frames, operations, wired lines *)
(* and bound on the events: their variables keep their types, the modem    *)
(* they assume is the chip's, a LoRa payload is written to a chip that is  *)
(* awake, and whatever a LoRa chip is left doing can announce its end.     *)
(*                                                                         *)
(* As in SX126xProofs the lemmas are stated per kind of step, so that      *)
(* LongFi127xProofs can use them for the scripts that longfi.c starts.     *)
(***************************************************************************)
EXTENDS SX127x, SequenceTheorems, TLAPS

\* Steps that count on the FSK modem without looking at it.
FskOnly == {"PacketMode", "WaveMode", "DiosTx", "DiosRx"}

\* Steps after which the chip sleeps, whatever it was doing.
Silences == {"OpSleep", "Sleep"}

\* The steps that start an operation of the chip.
Operations == {"Transmit", "Receive", "Cad"}

\* What may directly follow step c: a payload only a step that wakes the chip,
\* an operation only the interrupts it needs, and those only their operation.
Adjacent(c, d) ==
  /\ d = "WriteFifo" => c = "StbyIfAsleep"
  /\ d = "Transmit" => c \in {"IrqsTx", "DiosTx", "WaveMode"}
  /\ d = "Receive" => c \in {"IrqsRx", "DiosRx"}
  /\ d = "Cad" => c = "IrqsCad"
  /\ c = "IrqsTx" => d = "Transmit"
  /\ c = "IrqsRx" => d = "Receive"
  /\ c = "IrqsCad" => d = "Cad"

\* What may follow step c anywhere.
Later(c, d) ==
  /\ d # "Reset"
  /\ c # "Sleep"
  /\ c = "Idle" => d # "ModemFsk"
  /\ c \in FskOnly => d # "ModemFsk"
  /\ c \in {"ModemLora", "Reset"} => d \notin FskOnly
  /\ c \in {"CrcError", "FskCrcError"} => d \notin Silences \cup {"Idle"}

\* What must still come after step s[i].
Promised(s, i) ==
  /\ s[i] \in {"IrqsTx", "IrqsRx", "IrqsCad"} => i < Len(s)
  /\ s[i] \in {"MaskAll", "OpReceiver"} => i < Len(s) /\ s[Len(s)] = "Sleep"
  /\ s[i] = "Reset" => /\ Len(s) >= 5
                       /\ s[3] = "ModemFsk"
                       /\ s[5] = "Idle"

WellFormed(s) ==
  /\ s \in Seq(Commands)
  /\ \A i \in 1..(Len(s) - 1) : Adjacent(s[i], s[i + 1])
  /\ \A i, j \in 1..Len(s) : i < j => Later(s[i], s[j])
  /\ \A i \in 1..Len(s) : Promised(s, i)

\* A script that a call may start while the modem is m.
Startable(s, m) ==
  /\ WellFormed(s)
  /\ s # <<>> => /\ Head(s) \notin Operations
                 /\ Head(s) = "WriteFifo" => m = "FSK"
  /\ \A i \in 1..Len(s) :
       s[i] \in FskOnly => m = "FSK" \/ \E j \in 1..Len(s) : s[j] = "ModemFsk"

ArmedTx == "TX_DONE" \in irqMask /\ dio0 = "01"
ArmedRx == {"RX_DONE", "CRC_ERROR"} \subseteq irqMask /\ dio0 = "00"
ArmedCad == "CAD_DONE" \in irqMask

\* Until Init has set both modems up, Settings hold what the C startup left.
Tracks == ModemSet = chipModem \/ {"ModemFsk", "Idle"} \subseteq Remaining

\* A step that counts on FSK will find it.
FskReady == Remaining \cap FskOnly # {} => chipModem = "FSK" \/ "ModemFsk" \in Remaining

\* The operation that is about to start, or the one that goes on, is armed.
Armed ==
  chipModem = "LORA" /\ Remaining \cap Silences = {} =>
    IF script # <<>> /\ Head(script) \in Operations
      THEN /\ Head(script) = "Transmit" => ArmedTx
           /\ Head(script) = "Receive" => ArmedRx
           /\ Head(script) = "Cad" => ArmedCad
      ELSE /\ opMode = "TX" => ArmedTx
           /\ opMode \in {"RX", "RX_SINGLE"} => ArmedRx
           /\ opMode = "CAD" => ArmedCad

DriverInv ==
  /\ DriverTypeOK
  /\ WellFormed(script)
  /\ ~booted => script = <<>>
  /\ booted => Tracks /\ FskReady /\ Armed
  /\ FifoWrittenAwake

-----------------------------------------------------------------------------
(* Scripts.                                                                *)

\* Taking the first step from a script leaves a well-formed one.
LEMMA TailWellFormed ==
  ASSUME NEW s, WellFormed(s), s # <<>>
  PROVE  /\ Head(s) \in Commands
         /\ WellFormed(Tail(s))
<1>1. s \in Seq(Commands) /\ Len(s) \in Nat \ {0}
  BY DEF WellFormed
<1>2. Tail(s) \in Seq(Commands) /\ Len(Tail(s)) = Len(s) - 1
  BY <1>1
<1>3. \A i \in 1..Len(Tail(s)) : Tail(s)[i] = s[i + 1]
  BY <1>1
<1>4. ASSUME NEW i \in 1..(Len(Tail(s)) - 1)
      PROVE  Adjacent(Tail(s)[i], Tail(s)[i + 1])
  <2>1. i + 1 \in 1..(Len(s) - 1) /\ Tail(s)[i] = s[i + 1] /\ Tail(s)[i + 1] = s[(i + 1) + 1]
    BY <1>1, <1>2, <1>3
  <2> QED
    BY <2>1 DEF WellFormed
<1>5. ASSUME NEW i \in 1..Len(Tail(s)), NEW j \in 1..Len(Tail(s)), i < j
      PROVE  Later(Tail(s)[i], Tail(s)[j])
  <2>1. i + 1 \in 1..Len(s) /\ j + 1 \in 1..Len(s) /\ i + 1 < j + 1
    BY <1>1, <1>2, <1>5
  <2> QED
    BY <1>3, <2>1 DEF WellFormed
<1>6. ASSUME NEW i \in 1..Len(Tail(s))
      PROVE  Promised(Tail(s), i)
  <2>1. i + 1 \in 1..Len(s) /\ 1 \in 1..Len(s) /\ 1 < i + 1 /\ Tail(s)[i] = s[i + 1]
    BY <1>1, <1>2, <1>3
  <2>2. Promised(s, i + 1) /\ s[i + 1] # "Reset"
    BY <2>1 DEF WellFormed, Later
  <2>3. Len(Tail(s)) \in 1..Len(Tail(s)) /\ Tail(s)[Len(Tail(s))] = s[Len(s)]
    BY <1>1, <1>2, <1>3
  <2> QED
    BY <1>1, <1>2, <2>1, <2>2, <2>3 DEF Promised
<1> QED
  BY <1>1, <1>2, <1>4, <1>5, <1>6 DEF WellFormed

\* The first step of a script, and what is left of it when it has been taken.
LEMMA TailRemaining ==
  ASSUME WellFormed(script), script # <<>>, script' = Tail(script)
  PROVE  /\ Head(script) \in Remaining
         /\ Remaining' \subseteq Remaining
         /\ Remaining \subseteq Remaining' \cup {Head(script)}
         /\ \A d \in Remaining' : Later(Head(script), d)
         /\ script' # <<>> => Adjacent(Head(script), Head(script'))
         /\ Head(script) \in {"IrqsTx", "IrqsRx", "IrqsCad"} => script' # <<>>
         /\ Head(script) \in {"MaskAll", "OpReceiver"} => "Sleep" \in Remaining'
         /\ Head(script) = "Reset" => {"ModemFsk", "Idle"} \subseteq Remaining'
<1>1. script \in Seq(Commands) /\ Len(script) \in Nat \ {0} /\ Len(Tail(script)) = Len(script) - 1
  BY DEF WellFormed
<1>2. DOMAIN script = 1..Len(script) /\ DOMAIN Tail(script) = 1..(Len(script) - 1)
  BY <1>1
<1>3. \A i \in 1..(Len(script) - 1) : Tail(script)[i] = script[i + 1]
  BY <1>1
<1>4. Head(script) = script[1] /\ 1 \in 1..Len(script)
  BY <1>1
<1>5. \A i \in 2..Len(script) : i - 1 \in 1..(Len(script) - 1) /\ script[i] \in Remaining'
  <2> TAKE i \in 2..Len(script)
  <2>1. i - 1 \in 1..(Len(script) - 1) /\ Tail(script)[i - 1] = script[i]
    BY <1>1, <1>3
  <2> QED
    BY <1>2, <2>1 DEF Remaining
<1>6. \A d \in Remaining' : \E i \in 2..Len(script) : d = script[i]
  <2> TAKE d \in Remaining'
  <2>1. PICK i \in 1..(Len(script) - 1) : d = Tail(script)[i]
    BY <1>2 DEF Remaining
  <2>2. i + 1 \in 2..Len(script) /\ d = script[i + 1]
    BY <1>1, <1>3, <2>1
  <2> QED
    BY <2>2
<1>7. Remaining' \subseteq Remaining /\ Remaining \subseteq Remaining' \cup {Head(script)}
  <2>1. \A i \in 1..Len(script) : i = 1 \/ i \in 2..Len(script)
    BY <1>1
  <2> QED
    BY <1>1, <1>2, <1>4, <1>5, <1>6, <2>1 DEF Remaining
<1>8. \A d \in Remaining' : Later(Head(script), d)
  BY <1>1, <1>4, <1>6 DEF WellFormed
<1>9. ASSUME script' # <<>> PROVE Adjacent(Head(script), Head(script'))
  <2>1. Len(script) - 1 >= 1
    BY <1>1, <1>9
  <2>2. Head(script') = script[1 + 1] /\ 1 \in 1..(Len(script) - 1)
    BY <1>1, <1>3, <2>1
  <2> QED
    BY <1>4, <2>2 DEF WellFormed
<1>10. Promised(script, 1)
  BY <1>4 DEF WellFormed
<1>11. ASSUME Len(script) > 1 PROVE script' # <<>> /\ script[Len(script)] \in Remaining'
  BY <1>1, <1>5, <1>11
<1>12. Head(script) = "Reset" => {"ModemFsk", "Idle"} \subseteq Remaining'
  BY <1>1, <1>4, <1>5, <1>10 DEF Promised
<1> QED
  BY <1>2, <1>4, <1>7, <1>8, <1>9, <1>10, <1>11, <1>12 DEF Promised, Remaining

-----------------------------------------------------------------------------
(* The steps of a call.                                                    *)

Command == Issue \/ Callback \/ CarrierSense

\* Every step takes itself from the script; a checksum error takes the rest too.
LEMMA CommandPops ==
  Command => /\ script # <<>>
             /\ \/ script' = Tail(script)
                \/ Head(script) \in {"CrcError", "FskCrcError"} /\ script' = <<>>
BY DEF Command, Issue, Callback, Do, Reset, OpSleep, OpReceiver, Sleep, Standby,
   StbyIfAsleep, ModemFsk, ModemLora, Idle, MaskAll, PacketMode, WaveMode, WriteFifo,
   IrqsTx, DiosTx, Transmit, IrqsRx, DiosRx, Receive, IrqsCad, Cad, ClearRxDone,
   ClearTxDone, IrqCrcOk, IrqRxDone, IrqFskRxDone, IrqTxDone, IrqRxTimeout,
   IrqCadDone, IrqCrcError, IrqFskCrcError, CarrierSense, SetOpMode, SetModem,
   SetIrqs, SetDataMode, Branch, Abort

\* The captured edges are those of wired lines.
LEMMA CapturedTypes == \A line, rises : Captured(line, rises) \in Seq(Wired)
<1> TAKE line, rises
<1>1. CASE line \in Wired
  BY <1>1 DEF Captured
<1>2. CASE line \notin Wired
  BY <1>2 DEF Captured
<1> QED
  BY <1>1, <1>2

\* A change of flags, modem or mapping keeps their types.
LEMMA SetLinesTypes ==
  ASSUME events \in Seq(Wired), NEW m \in Modems,
         NEW flags \in SUBSET (LoraIrqs \cup FskIrqs), NEW map \in {"00", "01", "11"},
         SetLines(m, flags, map)
  PROVE  /\ chipModem' \in Modems
         /\ irqFlags' \subseteq LoraIrqs \cup FskIrqs
         /\ dio0' \in {"00", "01", "11"}
         /\ events' \in Seq(Wired)
<1>1. \A a, b, c \in Seq(Wired) : events \o a \o b \o c \in Seq(Wired)
  OBVIOUS
<1> QED
  BY <1>1, CapturedTypes DEF SetLines

\* So does a change of flags alone, and of the chip's mode.
LEMMA SetFlagsTypes ==
  ASSUME ChipTypeOK, NEW flags \in SUBSET (LoraIrqs \cup FskIrqs), SetFlags(flags)
  PROVE  /\ chipModem' = chipModem
         /\ dio0' = dio0
         /\ irqFlags' \subseteq LoraIrqs \cup FskIrqs
         /\ events' \in Seq(Wired)
<1>1. SetLines(chipModem, flags, dio0)
  BY DEF SetFlags
<1>2. chipModem' = chipModem /\ dio0' = dio0
  BY <1>1 DEF SetLines
<1> QED
  BY <1>1, <1>2, SetLinesTypes DEF ChipTypeOK

\* Entering a mode keeps the modem and clears the flags the chip clears.
LEMMA EnterModeTypes ==
  ASSUME ChipTypeOK, NEW mode \in OpModes, EnterMode(mode)
  PROVE  /\ opMode' = mode
         /\ chipModem' = chipModem
         /\ dio0' = dio0
         /\ irqFlags' \subseteq LoraIrqs \cup FskIrqs
         /\ events' \in Seq(Wired)
         /\ fifo' \in Frames
<1>1. FlagsEntering(mode) \subseteq LoraIrqs \cup FskIrqs
  BY DEF FlagsEntering, ChipTypeOK
<1>2. PICK kept : SetFlags(FlagsEntering(mode) \cap (kept \cup FskIrqs))
  BY DEF EnterMode
<1> QED
  BY <1>1, <1>2, SetFlagsTypes DEF EnterMode, ChipTypeOK, Frames

\* The kinds of step, each for the types of what it changes.
LEMMA OpModeTypes ==
  ASSUME DriverTypeOK, NEW c, NEW mode \in OpModes, NEW state \in States,
         SetOpMode(c, mode, state), script' \in Seq(Commands)
  PROVE  DriverTypeOK'
<1>1. ChipTypeOK
  BY DEF DriverTypeOK
<1> QED
  BY <1>1, EnterModeTypes DEF SetOpMode, DriverTypeOK, ChipTypeOK, hostVars

\* SetModem resets the lines and the mode, or does nothing.
LEMMA ModemTypes ==
  ASSUME DriverTypeOK, NEW c, NEW m \in Modems, SetModem(c, m), script' \in Seq(Commands)
  PROVE  DriverTypeOK'
<1> USE DEF DriverTypeOK, ChipTypeOK, SetModem, hostVars
<1>1. CASE chipModem = m
  BY <1>1 DEF chipVars
<1>2. CASE chipModem # m
  <2>1. PICK kept : SetLines(m, irqFlags \cap kept, "00")
    BY <1>2
  <2>2. /\ chipModem' \in Modems
        /\ irqFlags' \subseteq LoraIrqs \cup FskIrqs
        /\ dio0' \in {"00", "01", "11"}
        /\ events' \in Seq(Wired)
    <3> HIDE DEF SetModem
    <3>1. irqFlags \cap kept \in SUBSET (LoraIrqs \cup FskIrqs)
      OBVIOUS
    <3> QED
      BY <2>1, <3>1, SetLinesTypes
  <2>3. opMode' \in OpModes /\ fifo' \in Frames /\ UNCHANGED <<irqMask, packetMode>>
    BY <1>2 DEF OpModes, Frames
  <2> QED
    BY <2>2, <2>3
<1> QED
  BY <1>1, <1>2

\* The mask and the mapping of DIO0 are of their types.
LEMMA IrqsTypes ==
  ASSUME DriverTypeOK, NEW c, NEW irqs \in SUBSET LoraIrqs, NEW map \in {"00", "01", "11"},
         SetIrqs(c, irqs, map), script' \in Seq(Commands)
  PROVE  DriverTypeOK'
<1>1. /\ chipModem' \in Modems
      /\ irqFlags' \subseteq LoraIrqs \cup FskIrqs
      /\ dio0' \in {"00", "01", "11"}
      /\ events' \in Seq(Wired)
  BY SetLinesTypes DEF SetIrqs, DriverTypeOK, ChipTypeOK
<1> QED
  BY <1>1 DEF SetIrqs, DriverTypeOK, ChipTypeOK, hostVars, settings

\* Packet mode or continuous mode: the lines follow.
LEMMA DataModeTypes ==
  ASSUME DriverTypeOK, NEW c, NEW packets \in BOOLEAN, NEW map \in {"00", "01", "11"},
         SetDataMode(c, packets, map), script' \in Seq(Commands)
  PROVE  DriverTypeOK'
<1>1. /\ chipModem' \in Modems
      /\ irqFlags' \subseteq LoraIrqs \cup FskIrqs
      /\ dio0' \in {"00", "01", "11"}
      /\ events' \in Seq(Wired)
  BY SetLinesTypes DEF SetDataMode, DriverTypeOK, ChipTypeOK
<1> QED
  BY <1>1 DEF SetDataMode, DriverTypeOK, ChipTypeOK, hostVars, settings

\* A handler clears flags and chooses a state.
LEMMA BranchTypes ==
  ASSUME DriverTypeOK, NEW c, NEW cleared, NEW state \in States,
         Branch(c, cleared, state), script' \in Seq(Commands)
  PROVE  DriverTypeOK'
<1>1. chipModem' = chipModem /\ dio0' = dio0
      /\ irqFlags' \subseteq LoraIrqs \cup FskIrqs /\ events' \in Seq(Wired)
  BY SetFlagsTypes DEF Branch, DriverTypeOK, ChipTypeOK
<1> QED
  BY <1>1 DEF Branch, DriverTypeOK, ChipTypeOK, hostVars

\* A checksum error ends the script.
LEMMA AbortTypes ==
  ASSUME DriverTypeOK, NEW c, NEW cleared, NEW m,
         Abort(c, cleared, m), script' \in Seq(Commands)
  PROVE  DriverTypeOK'
<1>1. chipModem' = chipModem /\ dio0' = dio0
      /\ irqFlags' \subseteq LoraIrqs \cup FskIrqs /\ events' \in Seq(Wired)
  BY SetFlagsTypes DEF Abort, DriverTypeOK, ChipTypeOK
<1>2. State' \in States
  BY DEF Abort, StateUnlessContinuous, DriverTypeOK, States
<1> QED
  BY <1>1, <1>2 DEF Abort, DriverTypeOK, ChipTypeOK, hostVars

\* No step takes a variable out of its type.
LEMMA CommandTypes ==
  ASSUME DriverTypeOK, Command
  PROVE  DriverTypeOK'
<1>0. script' \in Seq(Commands)
  <2>1. script \in Seq(Commands) /\ <<>> \in Seq(Commands)
    BY DEF DriverTypeOK
  <2>2. script # <<>> => Tail(script) \in Seq(Commands)
    BY <2>1
  <2> QED
    BY <2>1, <2>2, CommandPops
<1> USE <1>0 DEF OpModes, Modems, States, LoraIrqs
<1>1. CASE Reset
  <2>1. SetLines("FSK", {}, "00")
    BY <1>1 DEF Reset, PowerOn
  <2>2. /\ chipModem' \in Modems
        /\ irqFlags' \subseteq LoraIrqs \cup FskIrqs
        /\ dio0' \in {"00", "01", "11"}
        /\ events' \in Seq(Wired)
    BY <2>1, SetLinesTypes DEF DriverTypeOK, ChipTypeOK
  <2> QED
    BY <1>1, <2>2 DEF Reset, PowerOn, DriverTypeOK, ChipTypeOK, hostVars, settings, Frames
<1>2. CASE OpSleep \/ OpReceiver \/ Sleep \/ Standby \/ Transmit \/ Cad \/ Receive
  <2>1. State \in States
    BY DEF DriverTypeOK
  <2> QED
    BY <1>2, <2>1, OpModeTypes DEF OpSleep, OpReceiver, Sleep, Standby, Transmit, Cad, Receive
<1>3. CASE ModemFsk \/ ModemLora
  BY <1>3, ModemTypes DEF ModemFsk, ModemLora
<1>4. CASE IrqsTx \/ IrqsRx \/ IrqsCad \/ DiosTx \/ DiosRx \/ MaskAll
  <2>1. irqMask \in SUBSET LoraIrqs /\ dio0 \in {"00", "01", "11"}
    BY DEF DriverTypeOK, ChipTypeOK
  <2> QED
    BY <1>4, <2>1, IrqsTypes DEF IrqsTx, IrqsRx, IrqsCad, DiosTx, DiosRx, MaskAll
<1>5. CASE PacketMode \/ WaveMode
  <2>1. dio0 \in {"00", "01", "11"}
    BY DEF DriverTypeOK, ChipTypeOK
  <2> QED
    BY <1>5, <2>1, DataModeTypes DEF PacketMode, WaveMode
<1>6. CASE ClearRxDone \/ ClearTxDone \/ IrqRxDone \/ IrqFskRxDone \/ IrqTxDone
           \/ IrqRxTimeout \/ IrqCadDone
  <2>1. State \in States /\ \A m : StateUnlessContinuous(m) \in States
    BY DEF DriverTypeOK, StateUnlessContinuous
  <2> QED
    BY <1>6, <2>1, BranchTypes
       DEF ClearRxDone, ClearTxDone, IrqRxDone, IrqFskRxDone, IrqTxDone, IrqRxTimeout,
           IrqCadDone
<1>7. CASE IrqCrcError \/ IrqFskCrcError
  BY <1>7, AbortTypes DEF IrqCrcError, IrqFskCrcError
<1>8. CASE StbyIfAsleep
  <2>1. CASE opMode = "SLEEP"
    BY <1>8, <2>1, OpModeTypes DEF StbyIfAsleep
  <2>2. CASE opMode # "SLEEP"
    BY <1>8, <2>2 DEF StbyIfAsleep, DriverTypeOK, ChipTypeOK, chipVars, hostVars, settings
  <2> QED
    BY <2>1, <2>2
<1>9. CASE Idle \/ IrqCrcOk \/ CarrierSense
  BY <1>9 DEF Idle, IrqCrcOk, CarrierSense, DriverTypeOK, ChipTypeOK, chipVars, hostVars,
              settings
<1>10. CASE WriteFifo
  BY <1>10 DEF WriteFifo, DriverTypeOK, ChipTypeOK, hostVars, settings
<1> QED
  BY <1>1, <1>2, <1>3, <1>4, <1>5, <1>6, <1>7, <1>8, <1>9, <1>10
     DEF Command, Issue, Callback

\* What a step does to the chip's mode and interrupts, by its name.
Does(c) ==
  \/ /\ c \in {"OpSleep", "Sleep"}
     /\ opMode' = "SLEEP"
  \/ /\ c \in {"OpReceiver", "MaskAll"} \cup FskOnly
  \/ /\ c = "Standby"
     /\ opMode' = "STDBY"
  \/ /\ c = "StbyIfAsleep"
     /\ opMode' # "SLEEP"
     /\ opMode' \in {"STDBY", opMode}
     /\ UNCHANGED <<irqMask, dio0>>
  \/ /\ c = "Transmit"
     /\ opMode' = "TX"
     /\ UNCHANGED <<irqMask, dio0>>
  \/ /\ c = "Receive"
     /\ opMode' \in {"RX", "RX_SINGLE"}
     /\ UNCHANGED <<irqMask, dio0>>
  \/ /\ c = "Cad"
     /\ opMode' = "CAD"
     /\ UNCHANGED <<irqMask, dio0>>
  \/ c = "IrqsTx" /\ ArmedTx'
  \/ c = "IrqsRx" /\ ArmedRx'
  \/ c = "IrqsCad" /\ ArmedCad'
  \/ /\ c \notin Silences \cup Operations \cup FskOnly
     /\ c \notin {"OpReceiver", "MaskAll", "IrqsTx", "IrqsRx", "IrqsCad", "StbyIfAsleep"}
     /\ UNCHANGED <<opMode, irqMask, dio0>>

\* Only the reset and SetModem change the modem; SetModem does it in the chip
\* and in Settings, and puts a chip that changes its modem to sleep.
LEMMA CommandDoes ==
  ASSUME Command, DriverTypeOK
  PROVE  /\ booted' = booted
         /\ \/ Head(script) = "Reset" /\ chipModem' = "FSK" /\ ModemSet' = ModemSet
            \/ Head(script) = "ModemFsk" /\ chipModem' = "FSK" /\ ModemSet' = "FSK"
            \/ /\ Head(script) = "ModemLora"
               /\ chipModem' = "LORA"
               /\ ModemSet' = "LORA"
               /\ \/ opMode' = "SLEEP"
                  \/ UNCHANGED <<opMode, chipModem, irqMask, dio0>>
            \/ /\ Head(script) \notin {"Reset", "ModemFsk", "ModemLora"}
               /\ UNCHANGED <<chipModem, ModemSet>>
               /\ Does(Head(script))
<1> USE DEF hostVars, settings, Silences, Operations, FskOnly, Does
<1>1. CASE Reset
  BY <1>1 DEF Reset, Do, SetLines, PowerOn
<1>2. CASE ModemFsk \/ ModemLora
  BY <1>2 DEF ModemFsk, ModemLora, SetModem, Do, SetLines, chipVars
<1>3. ASSUME NEW c, NEW mode, NEW state, SetOpMode(c, mode, state)
      PROVE  /\ Head(script) = c
             /\ opMode' = mode
             /\ UNCHANGED <<booted, chipModem, ModemSet, irqMask, dio0>>
  BY <1>3 DEF SetOpMode, Do, EnterMode, SetFlags, SetLines
<1>4. CASE OpSleep \/ OpReceiver \/ Sleep \/ Standby \/ Transmit \/ Cad \/ Receive
  BY <1>3, <1>4 DEF OpSleep, OpReceiver, Sleep, Standby, Transmit, Cad, Receive
<1>5. CASE StbyIfAsleep
  BY <1>3, <1>5 DEF StbyIfAsleep, Do, chipVars
<1>6. CASE IrqsTx \/ IrqsRx \/ IrqsCad \/ DiosTx \/ DiosRx \/ MaskAll
  BY <1>6 DEF IrqsTx, IrqsRx, IrqsCad, DiosTx, DiosRx, MaskAll, SetIrqs, Do, SetLines,
              ArmedTx, ArmedRx, ArmedCad
<1>7. CASE PacketMode \/ WaveMode
  BY <1>7 DEF PacketMode, WaveMode, SetDataMode, Do, SetLines
<1>8. CASE Idle \/ IrqCrcOk \/ CarrierSense \/ WriteFifo
  BY <1>8 DEF Idle, IrqCrcOk, CarrierSense, WriteFifo, Do, chipVars
<1>9. CASE ClearRxDone \/ ClearTxDone \/ IrqRxDone \/ IrqFskRxDone \/ IrqTxDone
           \/ IrqRxTimeout \/ IrqCadDone
  BY <1>9 DEF ClearRxDone, ClearTxDone, IrqRxDone, IrqFskRxDone, IrqTxDone, IrqRxTimeout,
              IrqCadDone, Branch, Do, SetFlags, SetLines
<1>10. CASE IrqCrcError \/ IrqFskCrcError
  BY <1>10 DEF IrqCrcError, IrqFskCrcError, Abort, SetFlags, SetLines
<1> QED
  BY <1>1, <1>2, <1>4, <1>5, <1>6, <1>7, <1>8, <1>9, <1>10 DEF Command, Issue, Callback

\* Every step keeps what Settings know of the modem, and the payload of a LoRa
\* transmission away from a sleeping chip.
LEMMA CommandKeepsModem ==
  ASSUME DriverInv, Command
  PROVE  Tracks' /\ FskReady' /\ FifoWrittenAwake'
<1>1. DriverTypeOK /\ booted /\ WellFormed(script) /\ Tracks /\ FskReady /\ script # <<>>
  BY CommandPops DEF DriverInv
<1>2. CASE script' = Tail(script)
  <2>1. /\ Head(script) \in Remaining
        /\ Remaining' \subseteq Remaining
        /\ Remaining \subseteq Remaining' \cup {Head(script)}
        /\ \A d \in Remaining' : Later(Head(script), d)
        /\ script' # <<>> => Adjacent(Head(script), Head(script'))
        /\ Head(script) = "Reset" => {"ModemFsk", "Idle"} \subseteq Remaining'
    BY <1>1, <1>2, TailRemaining
  <2>2. Tracks'
    BY <1>1, <2>1, CommandDoes DEF Tracks, Later
  <2>3. FskReady'
    BY <1>1, <2>1, CommandDoes DEF FskReady, Later, FskOnly
  <2>4. FifoWrittenAwake'
    <3> SUFFICES ASSUME script' # <<>>, Head(script') = "WriteFifo"
                 PROVE  opMode' # "SLEEP"
      BY DEF FifoWrittenAwake
    <3>1. Head(script) = "StbyIfAsleep"
      BY <2>1 DEF Adjacent
    <3>2. Does("StbyIfAsleep")
      BY <1>1, <3>1, CommandDoes
    <3> QED
      BY <3>2 DEF Does, Silences, Operations, FskOnly
  <2> QED
    BY <2>2, <2>3, <2>4
<1>3. CASE script' = <<>> /\ Head(script) \in {"CrcError", "FskCrcError"}
  <2>1. Remaining' = {}
    BY <1>3 DEF Remaining
  <2>2. "Idle" \notin Remaining
    <3>1. \A i \in 1..Len(script) : i = 1 \/ 1 < i
      BY <1>1 DEF WellFormed
    <3>2. Head(script) = script[1] /\ DOMAIN script = 1..Len(script) /\ 1 \in 1..Len(script)
      BY <1>1 DEF WellFormed
    <3> QED
      BY <1>1, <1>3, <3>1, <3>2 DEF WellFormed, Later, Remaining
  <2> QED
    BY <1>1, <1>3, <2>1, <2>2, CommandDoes DEF Tracks, FskReady, FifoWrittenAwake
<1> QED
  BY <1>2, <1>3, CommandPops

\* Every step keeps the interrupts armed for what the chip does next.
LEMMA CommandKeepsArmed ==
  ASSUME DriverInv, Command
  PROVE  Armed'
<1>1. DriverTypeOK /\ booted /\ WellFormed(script) /\ FskReady /\ Armed /\ script # <<>>
  BY CommandPops DEF DriverInv
<1>2. CASE script' = Tail(script)
  <2>1. /\ Head(script) \in Remaining
        /\ Remaining \subseteq Remaining' \cup {Head(script)}
        /\ \A d \in Remaining' : Later(Head(script), d)
        /\ script' # <<>> => Adjacent(Head(script), Head(script'))
        /\ Head(script) \in {"IrqsTx", "IrqsRx", "IrqsCad"} => script' # <<>>
        /\ Head(script) \in {"MaskAll", "OpReceiver"} => "Sleep" \in Remaining'
    BY <1>1, <1>2, TailRemaining
  <2> SUFFICES ASSUME chipModem' = "LORA", Remaining' \cap Silences = {}
               PROVE  IF script' # <<>> /\ Head(script') \in Operations
                        THEN /\ Head(script') = "Transmit" => ArmedTx'
                             /\ Head(script') = "Receive" => ArmedRx'
                             /\ Head(script') = "Cad" => ArmedCad'
                        ELSE /\ opMode' = "TX" => ArmedTx'
                             /\ opMode' \in {"RX", "RX_SINGLE"} => ArmedRx'
                             /\ opMode' = "CAD" => ArmedCad'
    BY DEF Armed
  <2>2. Head(script) \notin FskOnly
    BY <1>1, <2>1, CommandDoes DEF FskReady, Later, FskOnly
  <2>3. CASE Head(script) \in {"IrqsTx", "IrqsRx", "IrqsCad"}
    BY <1>1, <2>1, <2>3, CommandDoes DEF Adjacent, Does, Operations, Silences, FskOnly
  <2>4. CASE Head(script) \notin {"IrqsTx", "IrqsRx", "IrqsCad"}
    <3>1. ~(script' # <<>> /\ Head(script') \in Operations)
      BY <2>1, <2>2, <2>4 DEF Adjacent, Operations, FskOnly
    <3>2. CASE Head(script) \in Silences
      BY <1>1, <3>1, <3>2, CommandDoes DEF Does, Operations, Silences, FskOnly
    <3>3. CASE Head(script) \notin Silences
      <4>1. Remaining \cap Silences = {}
        BY <2>1, <3>3
      <4>2. CASE Head(script) \in Operations
        BY <1>1, <2>1, <3>1, <4>1, <4>2, CommandDoes
           DEF Armed, ArmedTx, ArmedRx, ArmedCad, Does, Operations, Silences, FskOnly
      <4>3. CASE Head(script) \notin Operations
        <5>1. Head(script) \notin {"MaskAll", "OpReceiver"}
          BY <2>1 DEF Silences
        <5>2. CASE Head(script) \in {"Reset", "ModemFsk", "ModemLora"}
          BY <1>1, <3>1, <4>1, <4>3, <5>2, CommandDoes
             DEF Armed, ArmedTx, ArmedRx, ArmedCad
        <5>3. CASE Head(script) \notin {"Reset", "ModemFsk", "ModemLora"}
          <6>1. Does(Head(script)) /\ chipModem' = chipModem
            BY <1>1, <5>3, CommandDoes
          <6>2. \/ opMode' = "STDBY"
                \/ UNCHANGED <<opMode, irqMask, dio0>>
            BY <2>2, <2>4, <3>3, <4>3, <5>1, <6>1 DEF Does, Operations, Silences
          <6> QED
            BY <1>1, <3>1, <4>1, <4>3, <6>1, <6>2 DEF Armed, ArmedTx, ArmedRx, ArmedCad
        <5> QED
          BY <5>2, <5>3
      <4> QED
        BY <4>2, <4>3
    <3> QED
      BY <3>2, <3>3
  <2> QED
    BY <2>3, <2>4
<1>3. CASE script' = <<>> /\ Head(script) \in {"CrcError", "FskCrcError"}
  <2>1. Remaining \cap Silences = {}
    <3>1. \A i \in 1..Len(script) : i = 1 \/ 1 < i
      BY <1>1 DEF WellFormed
    <3>2. Head(script) = script[1] /\ DOMAIN script = 1..Len(script) /\ 1 \in 1..Len(script)
      BY <1>1 DEF WellFormed
    <3>3. \A d \in Remaining : d = Head(script) \/ Later(Head(script), d)
      BY <1>1, <3>1, <3>2 DEF WellFormed, Remaining
    <3> QED
      BY <1>3, <3>3 DEF Later, Silences
  <2>2. UNCHANGED <<chipModem, opMode, irqMask, dio0>>
    BY <1>1, <1>3, CommandDoes DEF Does, Silences, Operations, FskOnly
  <2> QED
    BY <1>1, <1>3, <2>1, <2>2 DEF Armed, Operations, ArmedTx, ArmedRx, ArmedCad
<1> QED
  BY <1>2, <1>3, CommandPops

\* Every step of a call keeps the driver's invariant.
LEMMA CommandKeepsInv ==
  ASSUME DriverInv, Command
  PROVE  DriverInv'
<1>1. DriverTypeOK /\ booted /\ WellFormed(script) /\ script # <<>>
  BY CommandPops DEF DriverInv
<1>2. WellFormed(script')
  <2>1. WellFormed(<<>>)
    BY DEF WellFormed
  <2> QED
    BY <1>1, <2>1, CommandPops, TailWellFormed
<1>3. booted'
  BY <1>1, CommandDoes
<1> QED
  BY <1>1, <1>2, <1>3, CommandTypes, CommandKeepsModem, CommandKeepsArmed DEF DriverInv

-----------------------------------------------------------------------------
(* The chip and the restart.                                               *)

\* What the chip does by itself leaves the modem, the mask and the mapping as
\* they are, and it only ever goes to standby.
LEMMA ChipDoes ==
  ASSUME TxComplete \/ RxComplete
  PROVE  /\ UNCHANGED <<driverVars, chipModem, irqMask, dio0, packetMode>>
         /\ opMode' \in {opMode, "STDBY"}
BY DEF TxComplete, RxComplete, ChipSends, ChipReceives, LoraTxDone, FskTxDone, LoraRxDone,
   FskRxDone, RxTimesOut, CadDone, Latch, SetFlags, SetLines

\* It keeps their types.
LEMMA ChipTypes ==
  ASSUME DriverTypeOK, TxComplete \/ RxComplete
  PROVE  DriverTypeOK'
<1>1. ChipTypeOK
  BY DEF DriverTypeOK
<1>2. ASSUME NEW irqs, Latch(irqs)
      PROVE  irqFlags' \subseteq LoraIrqs \cup FskIrqs /\ events' \in Seq(Wired)
  <2>1. irqs \cap (irqMask \cup FskIrqs) \subseteq LoraIrqs \cup FskIrqs
    BY <1>1 DEF ChipTypeOK
  <2> QED
    BY <1>1, <1>2, <2>1, SetFlagsTypes DEF Latch, ChipTypeOK
<1>3. \A a, b \in Seq(Wired) : events \o a \o b \in Seq(Wired)
  BY <1>1 DEF ChipTypeOK
<1>4. irqFlags' \subseteq LoraIrqs \cup FskIrqs /\ events' \in Seq(Wired)
  <2>1. CASE LoraTxDone \/ RxTimesOut \/ \E activity \in BOOLEAN : CadDone(activity)
    BY <1>2, <2>1 DEF LoraTxDone, RxTimesOut, CadDone
  <2>2. CASE \E f : LoraRxDone(f)
    BY <1>2, <2>2 DEF LoraRxDone
  <2>3. CASE FskTxDone \/ \E f, long : FskRxDone(f, long)
    <3>1. irqFlags' \subseteq LoraIrqs \cup FskIrqs
      BY <1>1, <2>3 DEF FskTxDone, FskRxDone, ChipTypeOK, FskIrqs
    <3>2. \E long : events' = events \o Captured("DIO1", long) \o Captured("DIO0", dio0 = "00")
      BY <2>3 DEF FskTxDone, FskRxDone
    <3> QED
      BY <1>3, <3>1, <3>2, CapturedTypes
  <2> QED
    BY <2>1, <2>2, <2>3 DEF TxComplete, RxComplete, ChipSends, ChipReceives
<1>5. fifo' \in Frames
  BY <1>1 DEF TxComplete, RxComplete, ChipSends, ChipReceives, LoraTxDone, FskTxDone,
     LoraRxDone, FskRxDone, RxTimesOut, CadDone, ChipTypeOK, Frames
<1> QED
  BY <1>4, <1>5, ChipDoes DEF DriverTypeOK, ChipTypeOK, driverVars, settings, OpModes

\* A step of the chip keeps the driver's invariant.
LEMMA ChipKeepsInv ==
  ASSUME DriverInv, TxComplete \/ RxComplete
  PROVE  DriverInv'
<1>1. DriverTypeOK'
  BY ChipTypes DEF DriverInv
<1>2. /\ UNCHANGED <<script, booted, ModemSet, chipModem, irqMask, dio0>>
      /\ opMode' \in {opMode, "STDBY"}
      /\ Remaining' = Remaining
  BY ChipDoes DEF driverVars, settings, Remaining
<1>3. Armed => Armed'
  BY <1>2 DEF Armed, ArmedTx, ArmedRx, ArmedCad
<1> QED
  BY <1>1, <1>2, <1>3 DEF DriverInv, Tracks, FskReady, FifoWrittenAwake

\* What the C startup code leaves has its type.
LEMMA StaticsTypes ==
  /\ Statics.State = "IDLE"
  /\ Statics.Modem = "FSK"
  /\ Statics.continuous = {}
  /\ <<>> \in Seq(Commands)
  /\ <<>> \in Seq(Wired)
  /\ WellFormed(<<>>)
BY DEF Statics, WellFormed

\* A restart of the microcontroller leaves nothing to be kept but the types.
LEMMA RestartKeepsInv ==
  ASSUME DriverInv, Restart127x
  PROVE  DriverInv'
<1>1. DriverTypeOK'
  BY StaticsTypes DEF DriverInv, DriverTypeOK, ChipTypeOK, Restart127x, States, Modems, Frames
<1> QED
  BY <1>1, StaticsTypes DEF DriverInv, Restart127x, FifoWrittenAwake

\* At power on no call is running.
LEMMA DriverInitInv ==
  ASSUME DriverInit
  PROVE  DriverInv
<1>1. ChipTypeOK
  BY DEF DriverInit, ChipInit, ChipTypeOK, PowerOn, OpModes, Modems, Frames
<1> QED
  BY <1>1, StaticsTypes DEF DriverInit, DriverInv, DriverTypeOK, States, Modems, Frames,
     FifoWrittenAwake

\* A step that leaves the radio alone keeps the invariant.
LEMMA DriverStutter ==
  ASSUME DriverInv, UNCHANGED radioVars
  PROVE  DriverInv'
<1> USE DEF radioVars, chipVars, driverVars, settings
<1>1. DriverTypeOK'
  BY DEF DriverInv, DriverTypeOK, ChipTypeOK
<1>2. booted => Tracks' /\ FskReady' /\ Armed'
  BY DEF DriverInv, Tracks, FskReady, Armed, ArmedTx, ArmedRx, ArmedCad, Remaining
<1> QED
  BY <1>1, <1>2 DEF DriverInv, FifoWrittenAwake

-----------------------------------------------------------------------------
(* The start of a call.                                                    *)

\* Between two calls Settings know the modem and everything is armed, so a call
\* may start any script that is fit for the modem in use.
LEMMA CallStarts ==
  ASSUME DriverInv, DriverTypeOK', booted, booted', Startable(script', ModemSet),
         script = <<>>, UNCHANGED <<opMode, chipModem, irqMask, dio0, ModemSet>>
  PROVE  DriverInv'
<1>1. Remaining = {}
  BY DEF Remaining
<1>2. ModemSet = chipModem /\ Armed
  BY <1>1 DEF DriverInv, Tracks
<1>3. WellFormed(script') /\ Remaining' = {script'[i] : i \in 1..Len(script')}
  BY DEF Startable, WellFormed, Remaining
<1>4. Tracks'
  BY <1>2 DEF Tracks
<1>5. FskReady'
  BY <1>2, <1>3 DEF Startable, FskReady
<1>6. Armed'
  BY <1>1, <1>2 DEF Startable, Armed, ArmedTx, ArmedRx, ArmedCad
<1>7. FifoWrittenAwake'
  BY <1>2 DEF Startable, FifoWrittenAwake
<1> QED
  BY <1>3, <1>4, <1>5, <1>6, <1>7 DEF DriverInv

\* Init needs no knowledge of what came before.
LEMMA InitStarts ==
  ASSUME DriverInv, DriverTypeOK', booted', WellFormed(script'), script = <<>>,
         script' # <<>>, Head(script') \in {"Reset", "OpSleep"},
         {"OpSleep", "ModemFsk", "Idle"} \subseteq Remaining'
  PROVE  DriverInv'
BY DEF DriverInv, Tracks, FskReady, Armed, Silences, FifoWrittenAwake, Operations

-----------------------------------------------------------------------------
(* The scripts of the two drivers.                                         *)

\* Two sequences in a row are the one that lists the elements of both.
LEMMA Concat ==
  ASSUME NEW S, NEW s \in Seq(S), NEW t \in Seq(S), NEW u \in Seq(S),
         Len(u) = Len(s) + Len(t),
         \A i \in 1..Len(s) : u[i] = s[i],
         \A i \in 1..Len(t) : u[Len(s) + i] = t[i]
  PROVE  s \o t = u
<1>1. s \o t \in Seq(S) /\ Len(s \o t) = Len(u)
  OBVIOUS
<1>2. \A i \in 1..Len(u) : (s \o t)[i] = IF i <= Len(s) THEN s[i] ELSE t[i - Len(s)]
  BY <1>1
<1>3. ASSUME NEW i \in 1..Len(u) PROVE (s \o t)[i] = u[i]
  <2>1. CASE i <= Len(s)
    BY <1>2, <2>1
  <2>2. CASE i > Len(s)
    <3>1. i - Len(s) \in 1..Len(t) /\ i = Len(s) + (i - Len(s))
      BY <2>2
    <3> QED
      BY <1>2, <2>2, <3>1
  <2> QED
    BY <2>1, <2>2
<1> QED
  BY <1>1, <1>3, SeqEqual

\* The lengths in which the drivers join scripts.
LEMMA Concat12 ==
  ASSUME NEW a, NEW b, NEW c
  PROVE  <<a>> \o <<b, c>> = <<a, b, c>>
<1> DEFINE S == {a, b, c}
           s == <<a>>
           t == <<b, c>>
           u == <<a, b, c>>
<1>1. s \in Seq(S) /\ t \in Seq(S) /\ u \in Seq(S) /\ Len(u) = Len(s) + Len(t)
  OBVIOUS
<1>2. (\A i \in 1..Len(s) : u[i] = s[i]) /\ (\A i \in 1..Len(t) : u[Len(s) + i] = t[i])
  OBVIOUS
<1>3. s \o t = u
  <2> HIDE DEF S, s, t, u
  <2> QED
    BY <1>1, <1>2, Concat
<1> QED
  BY <1>3

\* Two and one.
LEMMA Concat21 ==
  ASSUME NEW a, NEW b, NEW c
  PROVE  <<a, b>> \o <<c>> = <<a, b, c>>
<1> DEFINE S == {a, b, c}
           s == <<a, b>>
           t == <<c>>
           u == <<a, b, c>>
<1>1. s \in Seq(S) /\ t \in Seq(S) /\ u \in Seq(S) /\ Len(u) = Len(s) + Len(t)
  OBVIOUS
<1>2. (\A i \in 1..Len(s) : u[i] = s[i]) /\ (\A i \in 1..Len(t) : u[Len(s) + i] = t[i])
  OBVIOUS
<1>3. s \o t = u
  <2> HIDE DEF S, s, t, u
  <2> QED
    BY <1>1, <1>2, Concat
<1> QED
  BY <1>3

\* Two and two.
LEMMA Concat22 ==
  ASSUME NEW a, NEW b, NEW c, NEW d
  PROVE  <<a, b>> \o <<c, d>> = <<a, b, c, d>>
<1> DEFINE S == {a, b, c, d}
           s == <<a, b>>
           t == <<c, d>>
           u == <<a, b, c, d>>
<1>1. s \in Seq(S) /\ t \in Seq(S) /\ u \in Seq(S) /\ Len(u) = Len(s) + Len(t)
  OBVIOUS
<1>2. (\A i \in 1..Len(s) : u[i] = s[i]) /\ (\A i \in 1..Len(t) : u[Len(s) + i] = t[i])
  OBVIOUS
<1>3. s \o t = u
  <2> HIDE DEF S, s, t, u
  <2> QED
    BY <1>1, <1>2, Concat
<1> QED
  BY <1>3

\* Three and one.
LEMMA Concat31 ==
  ASSUME NEW a, NEW b, NEW c, NEW d
  PROVE  <<a, b, c>> \o <<d>> = <<a, b, c, d>>
<1> DEFINE S == {a, b, c, d}
           s == <<a, b, c>>
           t == <<d>>
           u == <<a, b, c, d>>
<1>1. s \in Seq(S) /\ t \in Seq(S) /\ u \in Seq(S) /\ Len(u) = Len(s) + Len(t)
  OBVIOUS
<1>2. (\A i \in 1..Len(s) : u[i] = s[i]) /\ (\A i \in 1..Len(t) : u[Len(s) + i] = t[i])
  OBVIOUS
<1>3. s \o t = u
  <2> HIDE DEF S, s, t, u
  <2> QED
    BY <1>1, <1>2, Concat
<1> QED
  BY <1>3

\* The scripts of both drivers that are joined from others, written out.
LEMMA JoinedScripts ==
  /\ SendScript("LORA") = <<"StbyIfAsleep", "WriteFifo", "IrqsTx", "Transmit">>
  /\ SendScript("FSK") = <<"WriteFifo", "DiosTx", "Transmit">>
  /\ WaveScript = <<"ModemFsk", "PacketMode", "WaveMode", "Transmit">>
  /\ \A m : ChannelFreeScript(m, TRUE) = <<D76!Modem(m), "OpReceiver", "CarrierSense", "Sleep">>
  /\ \A m : ChannelFreeScript(m, FALSE) = <<D76!Modem(m), "OpReceiver", "Sleep">>
<1>1. SendScript("LORA") = <<"StbyIfAsleep", "WriteFifo", "IrqsTx", "Transmit">>
  <2>1. SendScript("LORA") = <<"StbyIfAsleep", "WriteFifo">> \o <<"IrqsTx", "Transmit">>
    BY DEF SendScript, Pick, D76!SendScript, D76!SetTxScript, D72!SendScript, D72!SetTxScript
  <2> QED
    BY <2>1, Concat22
<1>2. SendScript("FSK") = <<"WriteFifo", "DiosTx", "Transmit">>
  <2>1. SendScript("FSK") = <<"WriteFifo">> \o <<"DiosTx", "Transmit">>
    BY DEF SendScript, Pick, D76!SendScript, D76!SetTxScript, D72!SendScript, D72!SetTxScript
  <2> QED
    BY <2>1, Concat12
<1>3. WaveScript = <<"ModemFsk", "PacketMode", "WaveMode", "Transmit">>
  <2>1. WaveScript = <<"ModemFsk", "PacketMode">> \o <<"WaveMode", "Transmit">>
    BY DEF WaveScript, Pick, D76!ContinuousWaveScript, D76!SetTxConfigScript,
           D72!ContinuousWaveScript, D72!SetTxConfigScript
  <2> QED
    BY <2>1, Concat22
<1>4. ASSUME NEW m
      PROVE  ChannelFreeScript(m, TRUE) = <<D76!Modem(m), "OpReceiver", "CarrierSense", "Sleep">>
  <2>1. D76!Modem(m) = D72!Modem(m)
    BY DEF D76!Modem, D72!Modem
  <2>2. ChannelFreeScript(m, TRUE)
          = <<D76!Modem(m), "OpReceiver">> \o <<"CarrierSense">> \o <<"Sleep">>
    BY <2>1 DEF ChannelFreeScript, Pick, D76!IsChannelFreeScript, D72!IsChannelFreeScript
  <2>3. <<D76!Modem(m), "OpReceiver">> \o <<"CarrierSense">>
          = <<D76!Modem(m), "OpReceiver", "CarrierSense">>
    BY Concat21
  <2>4. <<D76!Modem(m), "OpReceiver", "CarrierSense">> \o <<"Sleep">>
          = <<D76!Modem(m), "OpReceiver", "CarrierSense", "Sleep">>
    BY Concat31
  <2> QED
    BY <2>2, <2>3, <2>4
<1>5. ASSUME NEW m
      PROVE  ChannelFreeScript(m, FALSE) = <<D76!Modem(m), "OpReceiver", "Sleep">>
  <2>1. D76!Modem(m) = D72!Modem(m)
    BY DEF D76!Modem, D72!Modem
  <2>2. ChannelFreeScript(m, FALSE) = <<D76!Modem(m), "OpReceiver">> \o <<>> \o <<"Sleep">>
    BY <2>1 DEF ChannelFreeScript, Pick, D76!IsChannelFreeScript, D72!IsChannelFreeScript
  <2>3. \A a, b : <<a, b>> \o <<>> = <<a, b>>
    <3> TAKE a, b
    <3>1. <<a, b>> \in Seq({a, b})
      OBVIOUS
    <3> QED
      BY <3>1, ConcatEmptySeq
  <2> QED
    BY <2>2, <2>3, Concat21
<1> QED
  BY <1>1, <1>2, <1>3, <1>4, <1>5

\* Every script of the drivers may be started; those that look at Settings.Modem
\* while that is the modem.
LEMMA ScriptsStartable ==
  ASSUME NEW m \in Modems
  PROVE  /\ WellFormed(InitScript)
         /\ Startable(RandomScript, m)
         /\ Startable(SleepScript, m)
         /\ Startable(StbyScript, m)
         /\ Startable(WaveScript, m)
         /\ Startable(NetworkScript, m)
         /\ Startable(SendScript(m), m)
         /\ Startable(RxScript(m), m)
         /\ Startable(CadScript(m), m)
         /\ \A n : /\ Startable(ModemScript(n), m)
                   /\ Startable(MaxPayloadScript(n), m)
                   /\ Startable(TxConfigScript(n), m)
                   /\ Startable(RxConfigScript(n), m)
         /\ \A n : \A sense \in BOOLEAN : Startable(ChannelFreeScript(n, sense), m)
<1> USE DEF Startable, WellFormed, Adjacent, Later, Promised, FskOnly, Operations, Silences,
            Commands, Pick
<1>1. WellFormed(InitScript)
  <2>1. WellFormed(<<"Reset", "OpSleep", "ModemFsk", "ModemLora", "Idle">>)
    OBVIOUS
  <2>2. WellFormed(<<"OpSleep", "ModemFsk", "ModemLora", "Idle">>)
    OBVIOUS
  <2> HIDE DEF WellFormed
  <2> QED
    BY <2>1, <2>2 DEF InitScript, D76!InitScript, D72!InitScript
<1>2. Startable(RandomScript, m)
  BY DEF RandomScript, D76!RandomScript, D72!RandomScript
<1>3. Startable(SleepScript, m) /\ Startable(StbyScript, m)
  BY DEF SleepScript, StbyScript, D76!SetSleepScript, D72!SetSleepScript,
         D76!SetStbyScript, D72!SetStbyScript
<1>4. Startable(WaveScript, m)
  BY JoinedScripts
<1>5. Startable(NetworkScript, m)
  BY DEF NetworkScript, D76!SetPublicNetworkScript, D72!SetPublicNetworkScript
<1>6. Startable(SendScript(m), m)
  <2>1. Startable(<<"StbyIfAsleep", "WriteFifo", "IrqsTx", "Transmit">>, "LORA")
    OBVIOUS
  <2>2. Startable(<<"WriteFifo", "DiosTx", "Transmit">>, "FSK")
    OBVIOUS
  <2> HIDE DEF Startable
  <2> QED
    BY <2>1, <2>2, JoinedScripts DEF Modems
<1>7. Startable(RxScript(m), m)
  <2>1. CASE m = "LORA"
    BY <2>1 DEF RxScript, D76!SetRxScript, D72!SetRxScript
  <2>2. CASE m = "FSK"
    BY <2>2 DEF RxScript, D76!SetRxScript, D72!SetRxScript
  <2> QED
    BY <2>1, <2>2 DEF Modems
<1>8. Startable(CadScript(m), m)
  <2>1. CASE m = "LORA"
    BY <2>1 DEF CadScript, D76!StartCadScript, D72!StartCadScript
  <2>2. CASE m = "FSK"
    BY <2>2 DEF CadScript, D76!StartCadScript, D72!StartCadScript
  <2> QED
    BY <2>1, <2>2 DEF Modems
<1>9. ASSUME NEW n
      PROVE  /\ Startable(ModemScript(n), m)
             /\ Startable(MaxPayloadScript(n), m)
             /\ Startable(TxConfigScript(n), m)
             /\ Startable(RxConfigScript(n), m)
  <2>1. /\ Startable(<<"ModemLora">>, m)
        /\ Startable(<<"ModemFsk">>, m)
        /\ Startable(<<"ModemFsk", "PacketMode">>, m)
    OBVIOUS
  <2>2. /\ ModemScript(n) \in {<<"ModemLora">>, <<"ModemFsk">>}
        /\ MaxPayloadScript(n) \in {<<"ModemLora">>, <<"ModemFsk">>}
    BY DEF ModemScript, MaxPayloadScript, D76!SetModemScript, D76!SetMaxPayloadScript,
           D72!SetModemScript, D72!SetMaxPayloadScript, D76!Modem, D72!Modem
  <2>3. /\ TxConfigScript(n) \in {<<"ModemLora">>, <<"ModemFsk", "PacketMode">>}
        /\ RxConfigScript(n) \in {<<"ModemLora">>, <<"ModemFsk", "PacketMode">>}
    BY DEF TxConfigScript, RxConfigScript, D76!SetTxConfigScript, D76!SetRxConfigScript,
           D72!SetTxConfigScript, D72!SetRxConfigScript
  <2> HIDE DEF Startable
  <2> QED
    BY <2>1, <2>2, <2>3
<1>10. ASSUME NEW n, NEW sense \in BOOLEAN
       PROVE  Startable(ChannelFreeScript(n, sense), m)
  <2>1. \A c \in {"ModemLora", "ModemFsk"} :
          /\ Startable(<<c, "OpReceiver", "CarrierSense", "Sleep">>, m)
          /\ Startable(<<c, "OpReceiver", "Sleep">>, m)
    OBVIOUS
  <2>2. D76!Modem(n) \in {"ModemLora", "ModemFsk"}
    BY DEF D76!Modem
  <2> HIDE DEF Startable
  <2>3. CASE sense = TRUE
    BY <2>1, <2>2, <2>3, JoinedScripts
  <2>4. CASE sense = FALSE
    BY <2>1, <2>2, <2>4, JoinedScripts
  <2> QED
    BY <2>3, <2>4
<1> QED
  BY <1>1, <1>2, <1>3, <1>4, <1>5, <1>6, <1>7, <1>8, <1>9, <1>10

\* So may the handler of each line, whatever the driver takes itself to do.
LEMMA HandlersStartable ==
  ASSUME State \in States, ModemSet \in Modems, NEW line \in {"DIO0", "DIO1", "DIO3"}
  PROVE  Startable(HandlerScript(line), ModemSet)
<1> DEFINE Scripts == {<<>>, <<"ClearRxDone", "CrcError", "RxDone">>,
                       <<"FskCrcError", "FskRxDone">>, <<"ClearTxDone", "TxDone">>,
                       <<"TxDone">>, <<"RxTimeout">>, <<"CadDone">>}
<1>1. ASSUME NEW s \in Scripts PROVE Startable(s, ModemSet)
  <2> USE DEF Startable, WellFormed, Adjacent, Later, Promised, FskOnly, Operations, Silences,
              Commands
  <2>1. Startable(<<>>, ModemSet) /\ Startable(<<"ClearRxDone", "CrcError", "RxDone">>, ModemSet)
    OBVIOUS
  <2>2. /\ Startable(<<"FskCrcError", "FskRxDone">>, ModemSet)
        /\ Startable(<<"ClearTxDone", "TxDone">>, ModemSet)
    OBVIOUS
  <2>3. /\ Startable(<<"TxDone">>, ModemSet)
        /\ Startable(<<"RxTimeout">>, ModemSet)
        /\ Startable(<<"CadDone">>, ModemSet)
    OBVIOUS
  <2> HIDE DEF Startable
  <2> QED
    BY <2>1, <2>2, <2>3
<1>2. CASE line = "DIO0"
  <2>1. D76!Dio0Script(State, ModemSet) \in Scripts /\ D72!Dio0Script(State, ModemSet) \in Scripts
    BY DEF D76!Dio0Script, D72!Dio0Script, States, Modems
  <2> QED
    BY <1>1, <1>2, <2>1 DEF HandlerScript, Pick
<1>3. CASE line = "DIO1"
  <2>1. D76!Dio1Script(State, ModemSet) \in Scripts /\ D72!Dio1Script(State, ModemSet) \in Scripts
    BY DEF D76!Dio1Script, D72!Dio1Script
  <2> QED
    BY <1>1, <1>3, <2>1 DEF HandlerScript, Pick
<1>4. CASE line = "DIO3"
  <2>1. D76!Dio3Script(ModemSet) \in Scripts /\ D72!Dio3Script(ModemSet) \in Scripts
    BY DEF D76!Dio3Script, D72!Dio3Script
  <2> QED
    BY <1>1, <1>4, <2>1 DEF HandlerScript, Pick
<1> QED
  BY <1>2, <1>3, <1>4

-----------------------------------------------------------------------------
(* The driver under any client.                                            *)

\* The start of a call keeps the types.
LEMMA StartTypes ==
  ASSUME DriverTypeOK, script' \in Seq(Commands), txBuf' \in Frames, booted' \in BOOLEAN,
         continuous' \subseteq Modems, events' \in Seq(Wired),
         UNCHANGED <<opMode, chipModem, irqFlags, irqMask, dio0, packetMode, fifo, chip,
                     State, ModemSet>>
  PROVE  DriverTypeOK'
BY DEF DriverTypeOK, ChipTypeOK

\* Init starts from any state of the chip.
LEMMA InitKeepsInv ==
  ASSUME DriverInv, script = <<>>, booted', script' = InitScript,
         UNCHANGED <<chipVars, chip, settings, txBuf>>
  PROVE  DriverInv'
<1> USE DEF chipVars, settings
<1>1. DriverTypeOK /\ ModemSet \in Modems
  BY DEF DriverInv, DriverTypeOK
<1>2. WellFormed(script') /\ script' \in Seq(Commands)
  BY <1>1, ScriptsStartable DEF WellFormed
<1>3. DriverTypeOK'
  BY <1>1, <1>2, StartTypes DEF DriverTypeOK, ChipTypeOK
<1>4. /\ script' # <<>>
      /\ Head(script') \in {"Reset", "OpSleep"}
      /\ {"OpSleep", "ModemFsk", "Idle"} \subseteq Remaining'
  <2>1. CASE script' = <<"Reset", "OpSleep", "ModemFsk", "ModemLora", "Idle">>
    <3>1. script'[2] = "OpSleep" /\ script'[3] = "ModemFsk" /\ script'[5] = "Idle"
      BY <2>1
    <3>2. {2, 3, 5} \subseteq DOMAIN script'
      BY <2>1
    <3> QED
      BY <2>1, <3>1, <3>2 DEF Remaining
  <2>2. CASE script' = <<"OpSleep", "ModemFsk", "ModemLora", "Idle">>
    <3>1. script'[1] = "OpSleep" /\ script'[2] = "ModemFsk" /\ script'[4] = "Idle"
      BY <2>2
    <3>2. {1, 2, 4} \subseteq DOMAIN script'
      BY <2>2
    <3> QED
      BY <2>2, <3>1, <3>2 DEF Remaining
  <2> QED
    BY <2>1, <2>2 DEF InitScript, Pick, D76!InitScript, D72!InitScript
<1> QED
  BY <1>2, <1>3, <1>4, InitStarts

\* Any other call starts a script that fits the modem in use.
LEMMA StartKeepsInv ==
  ASSUME DriverInv, booted, booted', NEW s, Startable(s, ModemSet), Begin(s),
         txBuf' \in Frames, continuous' \subseteq Modems, events' \in Seq(Wired),
         UNCHANGED <<opMode, chipModem, irqFlags, irqMask, dio0, packetMode, fifo, chip,
                     State, ModemSet>>
  PROVE  DriverInv'
<1>1. script = <<>> /\ script' = s /\ script' \in Seq(Commands)
  BY DEF Begin, Startable, WellFormed
<1>2. DriverTypeOK'
  BY <1>1, StartTypes DEF DriverInv
<1> QED
  BY <1>1, <1>2, CallStarts

\* A dispatched event runs the handler of its line.
LEMMA DispatchKeepsInv ==
  ASSUME DriverInv, NEW line \in {"DIO0", "DIO1", "DIO3"}, events # <<>>, Dispatch(line)
  PROVE  DriverInv'
<1>1. State \in States /\ ModemSet \in Modems /\ events \in Seq(Wired)
  BY DEF DriverInv, DriverTypeOK, ChipTypeOK
<1>2. Startable(HandlerScript(line), ModemSet)
  BY <1>1, HandlersStartable
<1>3. Tail(events) \in Seq(Wired)
  BY <1>1, SMT DEF Dispatch
<1> QED
  BY <1>2, <1>3, StartKeepsInv
     DEF Dispatch, hostVars, settings, DriverInv, DriverTypeOK

\* A call without arguments that are kept.
LEMMA SimpleKeepsInv ==
  ASSUME DriverInv, NEW op, NEW s, Startable(s, ModemSet), Simple(op, s)
  PROVE  DriverInv'
BY StartKeepsInv DEF Simple, CallOk, chipVars, hostVars, settings, DriverInv, DriverTypeOK,
   ChipTypeOK

\* SetRxConfig also keeps whether reception is continuous, Send its payload.
LEMMA ConfigKeepsInv ==
  ASSUME DriverInv, NEW m \in Modems, NEW on, SetRxConfig(m, on)
  PROVE  DriverInv'
<1>1. Startable(RxConfigScript(m), ModemSet)
  BY ScriptsStartable DEF DriverInv, DriverTypeOK
<1> QED
  BY <1>1, StartKeepsInv DEF SetRxConfig, CallOk, chipVars, hostVars, DriverInv,
     DriverTypeOK, ChipTypeOK

\* Send starts the script of the modem that is set, with its payload.
LEMMA SendKeepsInv ==
  ASSUME DriverInv, NEW f \in TxFrames, Send(f)
  PROVE  DriverInv'
<1>1. Startable(SendScript(ModemSet), ModemSet)
  BY ScriptsStartable DEF DriverInv, DriverTypeOK
<1> QED
  BY <1>1, StartKeepsInv DEF Send, CallOk, chipVars, settings, DriverInv, DriverTypeOK,
     ChipTypeOK, Frames

\* Every call of Radio_t keeps the driver's invariant.
LEMMA CallKeepsInv ==
  ASSUME DriverInv, RadioCall
  PROVE  DriverInv'
<1>1. ModemSet \in Modems /\ events \in Seq(Wired)
  BY DEF DriverInv, DriverTypeOK, ChipTypeOK
<1>2. CASE Init127x
  BY <1>2, InitKeepsInv DEF Init127x, Begin
<1>3. CASE events # <<>> /\ Dispatch(Head(events))
  <2>1. Head(events) \in {"DIO0", "DIO1", "DIO3"}
    <3>1. Head(events) = events[1] /\ 1 \in DOMAIN events /\ \A i \in DOMAIN events : events[i] \in Wired
      BY <1>1, <1>3
    <3> QED
      BY <3>1, WiredAssumption
  <2> QED
    BY <1>3, <2>1, DispatchKeepsInv
<1>4. CASE \/ Simple("Sleep", SleepScript)
           \/ Simple("Standby", StbyScript)
           \/ Simple("Rx", RxScript(ModemSet))
           \/ Simple("StartCad", CadScript(ModemSet))
           \/ Simple("SetTxContinuousWave", WaveScript)
           \/ Simple("Random", RandomScript)
           \/ Simple("SetPublicNetwork", NetworkScript)
  BY <1>1, <1>4, ScriptsStartable, SimpleKeepsInv
<1>5. ASSUME NEW m \in Modems,
             \/ Simple("SetModem", ModemScript(m))
             \/ Simple("SetMaxPayloadLength", MaxPayloadScript(m))
             \/ Simple("SetTxConfig", TxConfigScript(m))
      PROVE  DriverInv'
  BY <1>1, <1>5, ScriptsStartable, SimpleKeepsInv
<1>6. ASSUME NEW m \in Modems, NEW sense \in BOOLEAN, IsChannelFree(m, sense)
      PROVE  DriverInv'
  BY <1>1, <1>6, ScriptsStartable, SimpleKeepsInv DEF IsChannelFree
<1>7. ASSUME NEW m \in Modems, NEW on \in BOOLEAN, SetRxConfig(m, on)
      PROVE  DriverInv'
  BY <1>7, ConfigKeepsInv
<1>8. ASSUME NEW f \in TxFrames, Send(f)
      PROVE  DriverInv'
  BY <1>8, SendKeepsInv
<1> QED
  BY <1>2, <1>3, <1>4, <1>5, <1>6, <1>7, <1>8 DEF RadioCall

\* It holds after every step of the driver, the chip and the client.
LEMMA DriverStep ==
  ASSUME DriverInv, [DriverNext]_radioVars
  PROVE  DriverInv'
BY CallKeepsInv, CommandKeepsInv, ChipKeepsInv, RestartKeepsInv, DriverStutter
   DEF DriverNext, Command

\* No client of Radio_t, whatever it calls, whatever the chip does meanwhile and
\* whenever the microcontroller restarts, brings either driver out of its
\* invariant.
THEOREM DriverInvariant == DriverSpec => []DriverInv
<1>1. DriverInit => DriverInv
  BY DriverInitInv
<1>2. DriverInv /\ [DriverNext]_radioVars => DriverInv'
  BY DriverStep
<1> QED
  BY <1>1, <1>2, PTL DEF DriverSpec

\* The drivers' state and the chip's stay within their types: sx1276.c and
\* sx1272.c only ever set the modes, masks and mappings they name.
THEOREM DriverTypeCorrect == DriverSpec => []DriverTypeOK
BY DriverInvariant, PTL DEF DriverInv

\* Once Init has run, Settings.Modem is the modem of the chip after every step,
\* also when the chip kept its modem over a restart of the microcontroller.
THEOREM DriverModemTracksChip == DriverSpec => []ModemTracksChip
<1>1. DriverInv => ModemTracksChip
  BY DEF DriverInv, Tracks, ModemTracksChip, InitDone
<1> QED
  BY <1>1, DriverInvariant, PTL

\* Between two calls, whatever LoRa operation the chip is in, its interrupt is
\* let through and DIO0 shows it, whichever calls came before.
THEOREM DriverSignalsItsEnd == DriverSpec => []SignalsItsEnd
<1>1. ASSUME DriverInv PROVE SignalsItsEnd
  <2>1. script = <<>> => Remaining = {}
    BY DEF Remaining
  <2> QED
    BY <1>1, <2>1 DEF DriverInv, Armed, SignalsItsEnd, InitDone, ArmedTx, ArmedRx, ArmedCad
<1> QED
  BY <1>1, DriverInvariant, PTL

\* No LoRa payload is written to a sleeping chip, which would lose it.
THEOREM DriverFifoWrittenAwake == DriverSpec => []FifoWrittenAwake
BY DriverInvariant, PTL DEF DriverInv
=============================================================================
