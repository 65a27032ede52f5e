-------------------------- MODULE LongFi127xProofs --------------------------
(***************************************************************************)
(* The library on either SX127x driver, for every set of packets, buffers, *)
(* calls and wired lines, for polite clients and others: what SX127xProofs *)
(* shows of the driver under any client and LongFiLibraryProofs of the     *)
(* library on any radio, shown of the two together.                        *)
(*                                                                         *)
(* Then the device of a polite client: it sends what it was given and is   *)
(* told so once, receives what others sent, and implements LongFiService.  *)
(* Its states fall into a few phases (PhaseInv), each of which says what   *)
(* remains to be done, what the flags and the FIFO of the chip hold, and   *)
(* which event waits.  The client's politeness is what keeps a phase from  *)
(* starting before the events of the last one have been handled.  A client *)
(* that never listens and is not restarted keeps to the phases without it. *)
(***************************************************************************)
EXTENDS LongFi127x, SX127xProofs, LongFiLibraryProofs

\* An event is handled only after longfi_init.
Engaged == at # "main" => booted

\* The driver's invariant beside the library's.
LongFiInv == DriverInv /\ Engaged /\ LibraryInv

-----------------------------------------------------------------------------
(* The scripts that longfi.c joins.                                        *)

\* Init of the SX1276 and of the SX1272, each with Sleep, and SetTxConfig with
\* Send.
LEMMA Concat51 ==
  ASSUME NEW a, NEW b, NEW c, NEW d, NEW e, NEW f
  PROVE  <<a, b, c, d, e>> \o <<f>> = <<a, b, c, d, e, f>>
<1> DEFINE S == {a, b, c, d, e, f}
           s == <<a, b, c, d, e>>
           t == <<f>>
           u == <<a, b, c, d, e, f>>
<1>1. s \in Seq(S) /\ t \in Seq(S) /\ u \in Seq(S) /\ Len(u) = Len(s) + Len(t)
  OBVIOUS
<1>2. (\A i \in 1..Len(s) : u[i] = s[i]) /\ (\A i \in 1..Len(t) : u[Len(s) + i] = t[i])
  OBVIOUS
<1>3. s \o t = u
  <2> HIDE DEF S, s, t, u
  <2> QED
    BY <1>1, <1>2, Concat
<1> QED
  BY <1>3

\* Four and one.
LEMMA Concat41 ==
  ASSUME NEW a, NEW b, NEW c, NEW d, NEW e
  PROVE  <<a, b, c, d>> \o <<e>> = <<a, b, c, d, e>>
<1> DEFINE S == {a, b, c, d, e}
           s == <<a, b, c, d>>
           t == <<e>>
           u == <<a, b, c, d, e>>
<1>1. s \in Seq(S) /\ t \in Seq(S) /\ u \in Seq(S) /\ Len(u) = Len(s) + Len(t)
  OBVIOUS
<1>2. (\A i \in 1..Len(s) : u[i] = s[i]) /\ (\A i \in 1..Len(t) : u[Len(s) + i] = t[i])
  OBVIOUS
<1>3. s \o t = u
  <2> HIDE DEF S, s, t, u
  <2> QED
    BY <1>1, <1>2, Concat
<1> QED
  BY <1>3

\* One and four.
LEMMA Concat14 ==
  ASSUME NEW a, NEW b, NEW c, NEW d, NEW e
  PROVE  <<a>> \o <<b, c, d, e>> = <<a, b, c, d, e>>
<1> DEFINE S == {a, b, c, d, e}
           s == <<a>>
           t == <<b, c, d, e>>
           u == <<a, b, c, d, e>>
<1>1. s \in Seq(S) /\ t \in Seq(S) /\ u \in Seq(S) /\ Len(u) = Len(s) + Len(t)
  OBVIOUS
<1>2. (\A i \in 1..Len(s) : u[i] = s[i]) /\ (\A i \in 1..Len(t) : u[Len(s) + i] = t[i])
  OBVIOUS
<1>3. s \o t = u
  <2> HIDE DEF S, s, t, u
  <2> QED
    BY <1>1, <1>2, Concat
<1> QED
  BY <1>3

\* longfi_init runs one of two scripts.
LEMMA InitJoined ==
  InitScript \o SleepScript \in
    {<<"Reset", "OpSleep", "ModemFsk", "ModemLora", "Idle", "Sleep">>,
     <<"OpSleep", "ModemFsk", "ModemLora", "Idle", "Sleep">>}
<1>1. SleepScript = <<"Sleep">>
  BY DEF SleepScript, Pick, D76!SetSleepScript, D72!SetSleepScript
<1>2. InitScript \in {<<"Reset", "OpSleep", "ModemFsk", "ModemLora", "Idle">>,
                      <<"OpSleep", "ModemFsk", "ModemLora", "Idle">>}
  BY DEF InitScript, Pick, D76!InitScript, D72!InitScript
<1>3. <<"Reset", "OpSleep", "ModemFsk", "ModemLora", "Idle">> \o <<"Sleep">>
        = <<"Reset", "OpSleep", "ModemFsk", "ModemLora", "Idle", "Sleep">>
  BY Concat51
<1>4. <<"OpSleep", "ModemFsk", "ModemLora", "Idle">> \o <<"Sleep">>
        = <<"OpSleep", "ModemFsk", "ModemLora", "Idle", "Sleep">>
  BY Concat41
<1> QED
  BY <1>1, <1>2, <1>3, <1>4

\* A packet may be sent whatever the modem in use was.
LEMMA SendJoined ==
  ASSUME NEW m
  PROVE  Startable(TxConfigScript("LORA") \o SendScript("LORA"), m)
<1>1. TxConfigScript("LORA") = <<"ModemLora">>
  BY DEF TxConfigScript, Pick, D76!SetTxConfigScript, D72!SetTxConfigScript
<1>2. <<"ModemLora">> \o <<"StbyIfAsleep", "WriteFifo", "IrqsTx", "Transmit">>
        = <<"ModemLora", "StbyIfAsleep", "WriteFifo", "IrqsTx", "Transmit">>
  BY Concat14
<1>3. Startable(<<"ModemLora", "StbyIfAsleep", "WriteFifo", "IrqsTx", "Transmit">>, m)
  BY DEF Startable, WellFormed, Adjacent, Later, Promised, FskOnly, Operations, Silences,
     Commands
<1> QED
  BY <1>1, <1>2, <1>3, JoinedScripts

-----------------------------------------------------------------------------
(* The driver's invariant.                                                 *)

\* longfi_init starts from any state of the chip.
LEMMA LongFiInitStarts ==
  ASSUME DriverInv, longfi_init
  PROVE  DriverInv'
<1> USE DEF longfi_init, Begin, chipVars, settings
<1>1. script = <<>> /\ booted' /\ script' = InitScript \o SleepScript
  OBVIOUS
<1>2. WellFormed(script')
  <2> USE DEF WellFormed, Adjacent, Later, Promised, FskOnly, Operations, Silences, Commands
  <2>1. WellFormed(<<"Reset", "OpSleep", "ModemFsk", "ModemLora", "Idle", "Sleep">>)
    OBVIOUS
  <2>2. WellFormed(<<"OpSleep", "ModemFsk", "ModemLora", "Idle", "Sleep">>)
    OBVIOUS
  <2> HIDE DEF WellFormed
  <2> QED
    BY <1>1, <2>1, <2>2, InitJoined
<1>3. DriverTypeOK'
  <2>1. script' \in Seq(Commands)
    BY <1>2 DEF WellFormed
  <2>2. DriverTypeOK /\ UNCHANGED <<opMode, chipModem, irqFlags, irqMask, dio0, packetMode,
                                    fifo, events, chip, State, ModemSet, continuous, txBuf>>
    BY DEF DriverInv
  <2> HIDE DEF longfi_init
  <2> QED
    BY <1>1, <2>1, <2>2 DEF DriverTypeOK, ChipTypeOK
<1>4. /\ script' # <<>>
      /\ Head(script') \in {"Reset", "OpSleep"}
      /\ {"OpSleep", "ModemFsk", "Idle"} \subseteq Remaining'
  <2>1. CASE script' = <<"Reset", "OpSleep", "ModemFsk", "ModemLora", "Idle", "Sleep">>
    <3>1. script'[2] = "OpSleep" /\ script'[3] = "ModemFsk" /\ script'[5] = "Idle"
      BY <2>1
    <3>2. {2, 3, 5} \subseteq DOMAIN script'
      BY <2>1
    <3> QED
      BY <2>1, <3>1, <3>2 DEF Remaining
  <2>2. CASE script' = <<"OpSleep", "ModemFsk", "ModemLora", "Idle", "Sleep">>
    <3>1. script'[1] = "OpSleep" /\ script'[2] = "ModemFsk" /\ script'[4] = "Idle"
      BY <2>2
    <3>2. {1, 2, 4} \subseteq DOMAIN script'
      BY <2>2
    <3> QED
      BY <2>2, <3>1, <3>2 DEF Remaining
  <2> QED
    BY <1>1, <2>1, <2>2, InitJoined
<1> QED
  BY <1>1, <1>2, <1>3, <1>4, InitStarts

\* Every call of the client keeps the driver's invariant.
LEMMA ClientKeepsInv ==
  ASSUME DriverInv, ClientCall \/ longfi_handle_event
  PROVE  DriverInv'
<1>1. ModemSet \in Modems /\ continuous \subseteq Modems /\ events \in Seq(Wired)
  BY DEF DriverInv, DriverTypeOK, ChipTypeOK
<1>2. CASE longfi_init
  BY <1>2, LongFiInitStarts
<1>3. CASE longfi_rx \/ longfi_get_random
  BY <1>1, <1>3, ScriptsStartable, SimpleKeepsInv DEF longfi_rx, longfi_get_random
<1>4. CASE configure_rx
  BY <1>4, ConfigKeepsInv DEF configure_rx, Modems
<1>5. ASSUME NEW op, NEW f \in TxFrames, Transmits(op, f)
      PROVE  DriverInv'
  <2>1. Startable(TxConfigScript("LORA") \o SendScript("LORA"), ModemSet)
    BY SendJoined
  <2> QED
    BY <1>1, <1>5, <2>1, StartKeepsInv DEF Transmits, CallOk, chipVars, settings, Frames
<1>6. CASE longfi_get_rx \/ \E len \in BufferLens : longfi_set_buf(len)
  BY <1>6, DriverStutter DEF longfi_get_rx, longfi_set_buf
<1>7. CASE longfi_handle_event
  <2>1. Head(events) \in {"DIO0", "DIO1", "DIO3"}
    <3>1. Head(events) = events[1] /\ 1 \in DOMAIN events /\ \A i \in DOMAIN events : events[i] \in Wired
      BY <1>1, <1>7 DEF longfi_handle_event
    <3> QED
      BY <3>1, WiredAssumption
  <2>2. HandlerOf(Head(events)) \in {"DIO0", "DIO1", "DIO3"}
    BY <2>1 DEF HandlerOf
  <2> QED
    BY <1>7, <2>2, DispatchKeepsInv DEF longfi_handle_event
<1> QED
  BY <1>2, <1>3, <1>4, <1>5, <1>6, <1>7, LongFiAssumption
     DEF ClientCall, longfi_send, longfi_rf_test

\* So does every other step of the library and of the world around it.
LEMMA StepKeepsDriverInv ==
  ASSUME DriverInv, Engaged, [Next]_vars
  PROVE  DriverInv'
<1>1. CASE ClientCall \/ longfi_handle_event
  BY <1>1, ClientKeepsInv
<1>2. CASE RunStep \/ RunCallback
  BY <1>2, CommandKeepsInv DEF RunStep, RunCallback, Command, Callback
<1>3. CASE HandleTxDone
  <2>1. /\ ModemSet \in Modems
        /\ txBuf \in Frames
        /\ continuous \subseteq Modems
        /\ events \in Seq(Wired)
    BY DEF DriverInv, DriverTypeOK, ChipTypeOK
  <2>2. Startable(SleepScript, ModemSet)
    BY <2>1, ScriptsStartable
  <2>3. booted
    BY <1>3 DEF HandleTxDone, FinishesTx, Engaged
  <2> QED
    BY <1>3, <2>1, <2>2, <2>3, StartKeepsInv DEF HandleTxDone, chipVars, hostVars, settings
<1>4. CASE HandleReturn \/ UNCHANGED vars
  BY <1>4, DriverStutter DEF HandleReturn, vars
<1>5. CASE Transmitted \/ Received
  BY <1>5, ChipKeepsInv DEF Transmitted, Received
<1>6. CASE Restart
  BY <1>6, RestartKeepsInv DEF Restart
<1> QED
  BY <1>1, <1>2, <1>3, <1>4, <1>5, <1>6 DEF Next, Library

\* The library begins to handle an event only when the client dispatches one.
LEMMA StepKeepsEngaged ==
  ASSUME DriverInv, Engaged, [Next]_vars
  PROVE  Engaged'
<1> USE DEF Engaged, longfiVars, hostVars
<1>1. CASE ClientCall
  BY <1>1 DEF ClientCall, longfi_init, longfi_set_buf, LendBuffer, longfi_rx, configure_rx,
              longfi_get_random, longfi_send, longfi_rf_test, Transmits, SetsOut, CallOk,
              longfi_get_rx, FetchBuffer, Simple, SetRxConfig, Asks, radioVars, driverVars
<1>2. CASE longfi_handle_event
  BY <1>2 DEF longfi_handle_event, Dispatch
<1>3. CASE RunStep \/ RunCallback
  <2>1. Command /\ DriverTypeOK
    BY <1>3 DEF RunStep, RunCallback, Command, Callback, DriverInv
  <2>2. booted' = booted /\ at' = at
    BY <1>3, <2>1, CommandDoes DEF RunStep, RunCallback
  <2> QED
    BY <2>2
<1>4. CASE HandleTxDone \/ HandleReturn
  BY <1>4 DEF HandleTxDone, FinishesTx, HandleReturn, ReturnsTxDone, ReturnsRx, ReturnsNone,
              radioVars, driverVars
<1>5. CASE Transmitted \/ Received
  BY <1>5, ChipDoes DEF Transmitted, Received, Airs, driverVars
<1>6. CASE Restart
  BY <1>6 DEF Restart, Forgets
<1>7. CASE UNCHANGED vars
  BY <1>7 DEF vars, radioVars, driverVars
<1> QED
  BY <1>1, <1>2, <1>3, <1>4, <1>5, <1>6, <1>7 DEF Next, Library

-----------------------------------------------------------------------------
(* The library.                                                            *)

\* The library's part of every step is one of its functions.
LEMMA StepIsLibraryStep ==
  ASSUME DriverTypeOK, [Next]_vars
  PROVE  LibraryStep
<1>1. fifo \in Frames
  BY DEF DriverTypeOK, ChipTypeOK
<1>2. CASE ClientCall \/ longfi_handle_event
  BY <1>2, LongFiAssumption
     DEF LibraryStep, ClientCall, longfi_handle_event, longfi_init, longfi_set_buf,
         longfi_rx, configure_rx, longfi_get_random, longfi_send, longfi_rf_test,
         Transmits, longfi_get_rx
<1>3. CASE Library
  BY <1>1, <1>3
     DEF LibraryStep, Library, RunStep, RunCallback, HandleTxDone, HandleReturn
<1>4. CASE Transmitted \/ Received \/ Restart \/ UNCHANGED vars
  BY <1>1, <1>4 DEF LibraryStep, Transmitted, Received, Restart, vars
<1> QED
  BY <1>2, <1>3, <1>4 DEF Next

-----------------------------------------------------------------------------
(* Theorems.                                                               *)

\* No sequence of calls, events, receptions and restarts brings the library out
\* of its invariant.
THEOREM LongFi127xInvariant == Spec => []LongFiInv
<1>1. Init => LongFiInv
  BY DriverInitInv, LibraryInitInv DEF Init, LongFiInv, Engaged, LibraryInit
<1>2. LongFiInv /\ [Next]_vars => LongFiInv'
  <2> SUFFICES ASSUME LongFiInv, [Next]_vars PROVE LongFiInv'
    OBVIOUS
  <2>1. DriverInv /\ DriverTypeOK /\ Engaged /\ LibraryInv
    BY DEF LongFiInv, DriverInv
  <2> QED
    BY <2>1, StepKeepsDriverInv, StepKeepsEngaged, StepIsLibraryStep, LibraryStepInv
       DEF LongFiInv
<1> QED
  BY <1>1, <1>2, PTL DEF Spec

\* The state of the library, of either driver and of the client stays within
\* its types; in particular there is never an announced packet too many.
THEOREM LongFi127xTypeCorrect == Spec => []TypeOK
<1>1. LongFiInv => TypeOK
  BY DEF LongFiInv, DriverInv, LibraryInv, TypeOK
<1> QED
  BY <1>1, LongFi127xInvariant, PTL

\* A packet announced to a client that fetches it before it dispatches again
\* lies in the client's buffer, on these radios too.
THEOREM LongFi127xPacketFits == Spec => [](PromptClient => PacketFits)
<1>1. LongFiInv => (PromptClient => PacketFits)
  BY LibraryInvFits DEF LongFiInv
<1> QED
  BY <1>1, LongFi127xInvariant, PTL

\* Whatever longfi.c makes of the radio, polite or not, the modem the driver
\* assumes is the chip's, and a LoRa operation in the air can announce its end:
\* an event that is lost is never lost for a masked interrupt.
THEOREM LongFi127xDriverSound == Spec => [](ModemTracksChip /\ SignalsItsEnd /\ FifoWrittenAwake)
<1>1. ASSUME DriverInv PROVE ModemTracksChip /\ SignalsItsEnd /\ FifoWrittenAwake
  <2>1. script = <<>> => Remaining = {}
    BY DEF Remaining
  <2> QED
    BY <1>1, <2>1 DEF DriverInv, Armed, Tracks, ModemTracksChip, SignalsItsEnd, InitDone,
                      ArmedTx, ArmedRx, ArmedCad
<1>2. LongFiInv => DriverInv
  BY DEF LongFiInv
<1> QED
  BY <1>1, <1>2, LongFi127xInvariant, PTL

-----------------------------------------------------------------------------
(* The polite client, and the client that never listens.                   *)

\* Only DIO0 is wired, as longfi.c asks for; a device that may restart can reset
\* its chip, which the board of the SX1272 does not.
WiredDevice ==
  /\ Wired = {"DIO0"}
  /\ "Restart" \in Ops => Chips \subseteq {"SX1276"}

\* The hypothesis of the last theorems: a polite client, or one that never
\* listens and is not restarted, which then need not be polite.
PoliteDevice == WiredDevice /\ Polite
UplinkDevice == WiredDevice /\ Ops \cap {"rx", "Restart"} = {}

\* What politeness is for: a call finds a radio at rest and all events dispatched.
Heeded == MayCall /\ script = <<>> => State = "IDLE" /\ events = <<>>

\* The rest of longfi_init, up to the step that sets the LoRa modem.
SetupScripts ==
  {<<"Reset", "OpSleep", "ModemFsk", "ModemLora", "Idle", "Sleep">>,
   <<"OpSleep", "ModemFsk", "ModemLora", "Idle", "Sleep">>,
   <<"ModemFsk", "ModemLora", "Idle", "Sleep">>,
   <<"ModemLora", "Idle", "Sleep">>}

\* The rest of a call that neither sends nor listens.
CalmScripts ==
  {<<>>, <<"Idle", "Sleep">>, <<"Sleep">>, <<"ModemLora">>,
   <<"ModemLora", "MaskAll", "OpReceiver", "Sleep">>,
   <<"MaskAll", "OpReceiver", "Sleep">>, <<"OpReceiver", "Sleep">>}

RxScripts == {<<"IrqsRx", "Receive">>, <<"Receive">>}

TxScripts ==
  {<<"ModemLora", "StbyIfAsleep", "WriteFifo", "IrqsTx", "Transmit">>,
   <<"StbyIfAsleep", "WriteFifo", "IrqsTx", "Transmit">>,
   <<"WriteFifo", "IrqsTx", "Transmit">>, <<"IrqsTx", "Transmit">>, <<"Transmit">>}

Rests == opMode \in {"SLEEP", "STDBY"}
LoraSet == booted /\ chipModem = "LORA" /\ ModemSet = "LORA"
NoPacket == sending = NoFrame /\ airings = 0

\* Between a restart and the reset of the chip: it may be doing anything.
Unsettled == "Restart" \in Ops /\ (~booted \/ (script # <<>> /\ Head(script) = "Reset"))

Unsettles ==
  /\ Unsettled
  /\ NoPacket
  /\ State = "IDLE"
  /\ at = "main"
  /\ script # <<>> =>
       script = <<"Reset", "OpSleep", "ModemFsk", "ModemLora", "Idle", "Sleep">>

\* Nothing is sent or listened for.  An edge from before the reset may be left;
\* it finds no branch in the handler.
Calm ==
  /\ NoPacket
  /\ State = "IDLE"
  /\ irqFlags = {}
  /\ \/ at = "main" /\ IF LoraSet THEN script \in SetupScripts \cup CalmScripts
                                ELSE ~booted \/ script \in SetupScripts
     \/ LoraSet /\ at = "dispatch" /\ script = <<>> /\ cur_event # "TxDone"
  /\ Rests \/ (opMode = "RX" /\ script = <<"Sleep">>)
  /\ script = <<"OpReceiver", "Sleep">> \/ opMode = "RX" => irqMask = {}

\* Send runs, with the packet to transmit.
Sends ==
  /\ LoraSet
  /\ at = "main"
  /\ sending # NoFrame
  /\ airings = 0
  /\ txBuf = sending
  /\ State = "IDLE"
  /\ irqFlags = {}
  /\ events = <<>>
  /\ Rests
  /\ script \in TxScripts
  /\ Head(script) \in {"WriteFifo", "IrqsTx", "Transmit"} => opMode = "STDBY"
  /\ Head(script) \in {"IrqsTx", "Transmit"} => fifo = sending
  /\ script = <<"Transmit">> => ArmedTx

\* The packet is on the air, or has been and DIO0 says so.
OnAir ==
  /\ LoraSet
  /\ at = "main"
  /\ script = <<>>
  /\ State = "TX"
  /\ sending # NoFrame
  /\ ArmedTx
  /\ \/ /\ opMode = "TX"
        /\ airings = 0
        /\ irqFlags = {}
        /\ events = <<>>
        /\ fifo = sending
     \/ /\ opMode = "STDBY"
        /\ airings = 1
        /\ irqFlags = {"TX_DONE"}
        /\ events = <<"DIO0">>

\* The event is handled: the client is about to be told.
TellsTxDone ==
  /\ LoraSet
  /\ sending # NoFrame
  /\ airings = 1
  /\ Rests
  /\ events = <<>>
  /\ \/ /\ at = "dispatch"
        /\ State = "TX"
        /\ \/ script = <<"ClearTxDone", "TxDone">> /\ irqFlags = {"TX_DONE"}
           \/ script = <<"TxDone">> /\ irqFlags = {}
     \/ /\ at = "dispatch"
        /\ script = <<>>
        /\ State = "IDLE"
        /\ cur_event = "TxDone"
        /\ irqFlags = {}
     \/ /\ at = "txdone"
        /\ script \in {<<"Sleep">>, <<>>}
        /\ State = "IDLE"
        /\ irqFlags = {}

\* longfi_rx is about to listen.
Opens ==
  /\ LoraSet
  /\ NoPacket
  /\ at = "main"
  /\ State = "IDLE"
  /\ irqFlags = {}
  /\ events = <<>>
  /\ Rests
  /\ script \in RxScripts
  /\ script = <<"Receive">> => ArmedRx

\* It listens, or a reception has ended; only RxDone reaches DIO0.
Listens ==
  /\ LoraSet
  /\ NoPacket
  /\ at = "main"
  /\ script = <<>>
  /\ State = "RX"
  /\ ArmedRx
  /\ \/ opMode = "RX_SINGLE" /\ irqFlags = {} /\ events = <<>>
     \/ opMode = "STDBY" /\ irqFlags \subseteq {"RX_TIMEOUT"} /\ events = <<>>
     \/ /\ opMode = "STDBY"
        /\ events = <<"DIO0">>
        /\ \/ irqFlags = {"RX_DONE"} /\ fifo \in RxFrames
           \/ irqFlags = {"RX_DONE", "CRC_ERROR"}

\* The frame received is looked at.
Reads ==
  /\ LoraSet
  /\ NoPacket
  /\ at = "dispatch"
  /\ State = "RX"
  /\ opMode = "STDBY"
  /\ cur_event = "None"
  /\ events = <<>>
  /\ \/ /\ script = <<"ClearRxDone", "CrcError", "RxDone">>
        /\ \/ irqFlags = {"RX_DONE"} /\ fifo \in RxFrames
           \/ irqFlags = {"RX_DONE", "CRC_ERROR"}
     \/ /\ script = <<"CrcError", "RxDone">>
        /\ irqFlags = {"CRC_ERROR"} \/ (irqFlags = {} /\ fifo \in RxFrames)
     \/ script = <<"RxDone">> /\ irqFlags = {} /\ fifo \in RxFrames

\* Where a device can be whose calls are heeded.
PhaseInv ==
  /\ continuous = {}
  /\ \/ Unsettles
     \/ ~Unsettled /\ (Calm \/ Sends \/ OnAir \/ TellsTxDone \/ Opens \/ Listens \/ Reads)

\* It never listens, and every event at rest has been dispatched.
UplinkInv ==
  /\ script \notin RxScripts
  /\ State # "RX"
  /\ State = "IDLE" => events = <<>>

\* What is announced is another station's, cut to the buffer: the strengthening
\* of PacketWasReceived, which Fits completes.
GenuineInv ==
  Announced /\ rx_len > 0 => bufFrame \in RxFrames /\ rx_len = LenOfRx(bufFrame)

-----------------------------------------------------------------------------
(* What the steps of longfi.c's calls do to a chip that has nothing to say.  *)

\* With only DIO0 wired, flags that DIO0 does not show raise no event.
LEMMA QuietLines ==
  ASSUME Wired = {"DIO0"}, events \in Seq(Wired), NEW m, NEW f, NEW map,
         SetLines(m, f, map), f \subseteq {"CRC_ERROR", "RX_TIMEOUT"}
  PROVE  chipModem' = m /\ irqFlags' = f /\ dio0' = map /\ events' = events
<1>1. ~High("DIO0", m, f, map)
  BY DEF High, FskIrqs
<1>2. \A rises : Captured("DIO1", rises) = <<>> /\ Captured("DIO3", rises) = <<>>
  BY DEF Captured
<1>3. Captured("DIO0", FALSE) = <<>>
  BY DEF Captured
<1>4. events \o <<>> \o <<>> \o <<>> = events
  BY ConcatEmptySeq
<1> QED
  BY <1>1, <1>2, <1>3, <1>4 DEF SetLines

\* A flag that DIO0 shows, and did not show before, is one event.
LEMMA RisingLine ==
  ASSUME Wired = {"DIO0"}, events = <<>>, NEW m, NEW f, NEW map, SetLines(m, f, map),
         ~High("DIO0", chipModem, irqFlags, dio0), High("DIO0", m, f, map)
  PROVE  chipModem' = m /\ irqFlags' = f /\ dio0' = map /\ events' = <<"DIO0">>
<1>1. \A rises : Captured("DIO1", rises) = <<>> /\ Captured("DIO3", rises) = <<>>
  BY DEF Captured
<1>2. Captured("DIO0", TRUE) = <<"DIO0">>
  BY DEF Captured
<1>3. <<>> \o <<"DIO0">> \o <<>> \o <<>> = <<"DIO0">>
  OBVIOUS
<1> QED
  BY <1>1, <1>2, <1>3 DEF SetLines

\* A step is the one its name says.
LEMMA StepNames ==
  /\ Reset => Head(script) = "Reset"
  /\ OpSleep => Head(script) = "OpSleep"
  /\ OpReceiver => Head(script) = "OpReceiver"
  /\ Sleep => Head(script) = "Sleep"
  /\ Standby => Head(script) = "Standby"
  /\ StbyIfAsleep => Head(script) = "StbyIfAsleep"
  /\ ModemFsk => Head(script) = "ModemFsk"
  /\ ModemLora => Head(script) = "ModemLora"
  /\ Idle => Head(script) = "Idle"
  /\ MaskAll => Head(script) = "MaskAll"
  /\ PacketMode => Head(script) = "PacketMode"
  /\ WaveMode => Head(script) = "WaveMode"
  /\ WriteFifo => Head(script) = "WriteFifo"
  /\ IrqsTx => Head(script) = "IrqsTx"
  /\ DiosTx => Head(script) = "DiosTx"
  /\ Transmit => Head(script) = "Transmit"
  /\ IrqsRx => Head(script) = "IrqsRx"
  /\ DiosRx => Head(script) = "DiosRx"
  /\ Receive => Head(script) = "Receive"
  /\ IrqsCad => Head(script) = "IrqsCad"
  /\ Cad => Head(script) = "Cad"
  /\ ClearRxDone => Head(script) = "ClearRxDone"
  /\ ClearTxDone => Head(script) = "ClearTxDone"
  /\ IrqCrcOk => Head(script) \in {"CrcError", "FskCrcError"}
  /\ IrqCrcError => Head(script) = "CrcError"
  /\ IrqRxDone => Head(script) = "RxDone"
  /\ IrqTxDone => Head(script) = "TxDone"
BY DEF Do, Reset, OpSleep, OpReceiver, Sleep, Standby, StbyIfAsleep, ModemFsk, ModemLora,
   Idle, MaskAll, PacketMode, WaveMode, WriteFifo, IrqsTx, DiosTx, Transmit, IrqsRx, DiosRx,
   Receive, IrqsCad, Cad, ClearRxDone, ClearTxDone, IrqCrcOk, IrqRxDone, IrqTxDone,
   IrqCrcError, SetOpMode, SetModem, SetIrqs, SetDataMode, Branch, Abort

\* So the first step of the script is the one that is taken.
LEMMA NextStep ==
  ASSUME RunStep \/ RunCallback
  PROVE  /\ script # <<>>
         /\ Head(script) = "Reset" => RunStep /\ Reset
         /\ Head(script) = "OpSleep" => RunStep /\ OpSleep
         /\ Head(script) = "OpReceiver" => RunStep /\ OpReceiver
         /\ Head(script) = "Sleep" => RunStep /\ Sleep
         /\ Head(script) = "StbyIfAsleep" => RunStep /\ StbyIfAsleep
         /\ Head(script) = "ModemFsk" => RunStep /\ ModemFsk
         /\ Head(script) = "ModemLora" => RunStep /\ ModemLora
         /\ Head(script) = "Idle" => RunStep /\ Idle
         /\ Head(script) = "MaskAll" => RunStep /\ MaskAll
         /\ Head(script) = "WriteFifo" => RunStep /\ WriteFifo
         /\ Head(script) = "IrqsTx" => RunStep /\ IrqsTx
         /\ Head(script) = "Transmit" => RunStep /\ Transmit
         /\ Head(script) = "IrqsRx" => RunStep /\ IrqsRx
         /\ Head(script) = "Receive" => RunStep /\ Receive
         /\ Head(script) = "ClearRxDone" => RunStep /\ ClearRxDone
         /\ Head(script) = "ClearTxDone" => RunStep /\ ClearTxDone
         /\ Head(script) = "CrcError" =>
              (RunStep /\ IrqCrcOk) \/ (RunCallback /\ IrqCrcError /\ OnRxError)
         /\ Head(script) = "RxDone" => RunCallback /\ IrqRxDone /\ OnRxDone(fifo)
         /\ Head(script) = "TxDone" => RunCallback /\ IrqTxDone /\ OnTxDone
<1>1. script # <<>>
  BY CommandPops DEF RunStep, RunCallback, Command, Callback
<1>2. CASE RunStep
  BY <1>1, <1>2, StepNames DEF RunStep, Issue
<1>3. CASE RunCallback
  BY <1>1, <1>3, StepNames DEF RunCallback
<1> QED
  BY <1>2, <1>3

\* What a step leaves alone, whatever it does to the chip.
Aside == UNCHANGED <<continuous, chip, txBuf, booted, irqFlags, events>>

\* SetOpMode raises no event; sleep loses the payload.
LEMMA QuietMode ==
  ASSUME Wired = {"DIO0"}, DriverTypeOK, irqFlags = {},
         NEW c, NEW mode, NEW state, SetOpMode(c, mode, state)
  PROVE  /\ opMode' = mode
         /\ State' = state
         /\ fifo' = IF mode = "SLEEP" THEN NoFrame ELSE fifo
         /\ script' = Tail(script)
         /\ Aside
         /\ UNCHANGED <<chipModem, ModemSet, irqMask, dio0>>
<1>1. PICK kept : SetFlags(FlagsEntering(mode) \cap (kept \cup FskIrqs))
  BY DEF SetOpMode, EnterMode
<1>2. FlagsEntering(mode) \cap (kept \cup FskIrqs) = {}
  BY DEF FlagsEntering
<1>3. SetLines(chipModem, {}, dio0)
  BY <1>1, <1>2 DEF SetFlags
<1>4. chipModem' = chipModem /\ irqFlags' = {} /\ dio0' = dio0 /\ events' = events
  BY <1>3, QuietLines DEF DriverTypeOK, ChipTypeOK
<1> QED
  BY <1>4 DEF SetOpMode, EnterMode, Do, hostVars, Aside

\* Neither does SetModem; a chip that changes its modem sleeps.
LEMMA QuietModem ==
  ASSUME Wired = {"DIO0"}, DriverTypeOK, irqFlags = {}, NEW c, NEW m, SetModem(c, m)
  PROVE  /\ chipModem' = m
         /\ ModemSet' = m
         /\ script' = Tail(script)
         /\ Aside
         /\ UNCHANGED <<State, irqMask>>
         /\ opMode' = "SLEEP" \/ (chipModem = m /\ UNCHANGED <<opMode, dio0, fifo>>)
<1>1. CASE chipModem = m
  BY <1>1 DEF SetModem, Do, chipVars, hostVars, Aside
<1>2. CASE chipModem # m
  <2>1. PICK kept : SetLines(m, irqFlags \cap kept, "00")
    BY <1>2 DEF SetModem
  <2>2. SetLines(m, {}, "00")
    BY <2>1
  <2>3. chipModem' = m /\ irqFlags' = {} /\ events' = events
    BY <2>2, QuietLines DEF DriverTypeOK, ChipTypeOK
  <2> QED
    BY <1>2, <2>3 DEF SetModem, Do, hostVars, Aside
<1> QED
  BY <1>1, <1>2

\* Neither do the mask and the mapping.
LEMMA QuietIrqs ==
  ASSUME Wired = {"DIO0"}, DriverTypeOK, irqFlags = {},
         NEW c, NEW irqs, NEW map, SetIrqs(c, irqs, map)
  PROVE  /\ irqMask' = irqs
         /\ dio0' = map
         /\ script' = Tail(script)
         /\ Aside
         /\ UNCHANGED <<opMode, fifo, chipModem, State, ModemSet>>
<1>1. SetLines(chipModem, {}, map)
  BY DEF SetIrqs
<1>2. chipModem' = chipModem /\ irqFlags' = {} /\ dio0' = map /\ events' = events
  BY <1>1, QuietLines DEF DriverTypeOK, ChipTypeOK
<1> QED
  BY <1>2 DEF SetIrqs, Do, hostVars, settings, Aside

\* The steps of longfi.c's calls, while no flag is set.
LEMMA QuietSteps ==
  ASSUME Wired = {"DIO0"}, DriverTypeOK, continuous = {}, irqFlags = {},
         RunStep \/ RunCallback,
         Head(script) \in
           {"Reset", "OpSleep", "OpReceiver", "Sleep", "StbyIfAsleep", "ModemFsk", "ModemLora",
            "Idle", "MaskAll", "WriteFifo", "IrqsTx", "Transmit", "IrqsRx", "Receive"}
  PROVE  /\ script' = Tail(script)
         /\ UNCHANGED longfiVars
         /\ Aside
         /\ Head(script) = "Reset" =>
              opMode' = "STDBY" /\ UNCHANGED State
         /\ Head(script) = "OpSleep" =>
              opMode' = "SLEEP" /\ UNCHANGED <<chipModem, ModemSet, State, irqMask>>
         /\ Head(script) = "OpReceiver" =>
              opMode' = "RX" /\ UNCHANGED <<chipModem, ModemSet, State, irqMask>>
         /\ Head(script) = "Sleep" =>
              opMode' = "SLEEP" /\ State' = "IDLE" /\ UNCHANGED <<chipModem, ModemSet, irqMask>>
         /\ Head(script) = "StbyIfAsleep" =>
              /\ opMode' = IF opMode = "SLEEP" THEN "STDBY" ELSE opMode
              /\ State' \in {State, "IDLE"}
              /\ UNCHANGED <<chipModem, ModemSet, irqMask, fifo>>
         /\ Head(script) = "ModemFsk" =>
              opMode' \in {opMode, "SLEEP"} /\ UNCHANGED <<State, irqMask>>
         /\ Head(script) = "ModemLora" =>
              /\ opMode' \in {opMode, "SLEEP"}
              /\ chipModem' = "LORA"
              /\ ModemSet' = "LORA"
              /\ UNCHANGED <<State, irqMask>>
         /\ Head(script) = "Idle" =>
              State' = "IDLE" /\ UNCHANGED <<opMode, chipModem, ModemSet, irqMask>>
         /\ Head(script) = "MaskAll" =>
              irqMask' = {} /\ UNCHANGED <<opMode, chipModem, ModemSet, State>>
         /\ Head(script) = "WriteFifo" =>
              /\ opMode = "STDBY" => fifo' = txBuf
              /\ UNCHANGED <<opMode, chipModem, ModemSet, State, irqMask, dio0>>
         /\ Head(script) = "IrqsTx" =>
              ArmedTx' /\ UNCHANGED <<opMode, chipModem, ModemSet, State, fifo>>
         /\ Head(script) = "Transmit" =>
              /\ opMode' = "TX"
              /\ State' = "TX"
              /\ UNCHANGED <<chipModem, ModemSet, fifo, irqMask, dio0>>
         /\ Head(script) = "IrqsRx" =>
              ArmedRx' /\ UNCHANGED <<opMode, chipModem, ModemSet, State>>
         /\ Head(script) = "Receive" =>
              /\ opMode' \in {"RX", "RX_SINGLE"}
              /\ ModemSet = "LORA" => opMode' = "RX_SINGLE"
              /\ State' = "RX"
              /\ UNCHANGED <<chipModem, ModemSet, irqMask, dio0>>
<1>0. UNCHANGED longfiVars
  BY NextStep DEF RunStep
<1>1. CASE Head(script) = "Reset"
  <2>1. Reset
    BY <1>1, NextStep
  <2>2. SetLines("FSK", {}, "00")
    BY <2>1 DEF Reset, PowerOn
  <2>3. irqFlags' = {} /\ events' = events
    BY <2>2, QuietLines DEF DriverTypeOK, ChipTypeOK
  <2> QED
    BY <1>0, <1>1, <2>1, <2>3 DEF Reset, Do, PowerOn, hostVars, settings, Aside
<1>2. CASE Head(script) \in {"OpSleep", "OpReceiver", "Sleep"}
  BY <1>0, <1>2, NextStep, QuietMode DEF OpSleep, OpReceiver, Sleep
<1>3. CASE Head(script) \in {"Transmit", "Receive"}
  BY <1>0, <1>3, NextStep, QuietMode DEF Transmit, Receive
<1>4. CASE Head(script) = "StbyIfAsleep"
  <2>1. CASE opMode = "SLEEP"
    BY <1>0, <1>4, <2>1, NextStep, QuietMode DEF StbyIfAsleep
  <2>2. CASE opMode # "SLEEP"
    BY <1>0, <1>4, <2>2, NextStep DEF StbyIfAsleep, Do, chipVars, hostVars, settings, Aside
  <2> QED
    BY <2>1, <2>2
<1>5. CASE Head(script) \in {"ModemFsk", "ModemLora"}
  BY <1>0, <1>5, NextStep, QuietModem DEF ModemFsk, ModemLora
<1>6. CASE Head(script) = "Idle"
  BY <1>0, <1>6, NextStep DEF Idle, Do, chipVars, hostVars, Aside
<1>7. CASE Head(script) \in {"MaskAll", "IrqsTx", "IrqsRx"}
  BY <1>0, <1>7, NextStep, QuietIrqs DEF MaskAll, IrqsTx, IrqsRx, ArmedTx, ArmedRx
<1>8. CASE Head(script) = "WriteFifo"
  BY <1>0, <1>8, NextStep DEF WriteFifo, Do, hostVars, settings, Aside
<1> QED
  BY <1>1, <1>2, <1>3, <1>4, <1>5, <1>6, <1>7, <1>8

-----------------------------------------------------------------------------
(* The library runs.                                                       *)

\* Once the chip is reset longfi_init goes on as after a first start.
LEMMA RunUnsettled ==
  ASSUME WiredDevice, DriverInv, Unsettles, continuous = {}, RunStep \/ RunCallback
  PROVE  PhaseInv'
<1>1. /\ script = <<"Reset", "OpSleep", "ModemFsk", "ModemLora", "Idle", "Sleep">>
      /\ script # <<>>
  BY NextStep DEF Unsettles
<1>2. /\ Head(script) = "Reset"
      /\ Tail(script) = <<"OpSleep", "ModemFsk", "ModemLora", "Idle", "Sleep">>
  BY <1>1
<1>3. Reset /\ RunStep /\ booted
  BY <1>1, <1>2, NextStep DEF DriverInv
<1>4. SetLines("FSK", {}, "00")
  BY <1>3 DEF Reset, PowerOn
<1>5. irqFlags' = {}
  BY <1>4 DEF SetLines
<1>6. /\ script' = <<"OpSleep", "ModemFsk", "ModemLora", "Idle", "Sleep">>
      /\ opMode' = "STDBY"
      /\ UNCHANGED <<booted, State, continuous, longfiVars>>
  BY <1>2, <1>3 DEF Reset, RunStep, Do, PowerOn, hostVars, settings
<1>7. /\ script' # <<>> /\ Head(script') = "OpSleep"
      /\ script' # <<"OpReceiver", "Sleep">>
      /\ script' \in SetupScripts
  BY <1>6 DEF SetupScripts
<1>8. ~Unsettled'
  BY <1>3, <1>6, <1>7 DEF Unsettled
<1>9. Calm'
  BY <1>5, <1>6, <1>7 DEF Unsettles, Calm, NoPacket, Rests, longfiVars, clientVars
<1> QED
  BY <1>6, <1>8, <1>9 DEF PhaseInv

\* A call that neither sends nor listens ends as quietly as it began.
LEMMA RunCalm ==
  ASSUME WiredDevice, DriverInv, continuous = {}, ~Unsettled, Calm, RunStep \/ RunCallback
  PROVE  PhaseInv'
<1>1. /\ script # <<>> /\ booted /\ at = "main"
      /\ DriverTypeOK /\ irqFlags = {} /\ Wired = {"DIO0"}
      /\ script \in SetupScripts \cup CalmScripts
      /\ LoraSet \/ script \in SetupScripts
  BY NextStep DEF Calm, DriverInv, WiredDevice
<1>2. ASSUME Head(script) \in {"Reset", "OpSleep", "OpReceiver", "Sleep", "ModemFsk",
                               "ModemLora", "Idle", "MaskAll"},
             script' # <<>> => Head(script') # "Reset",
             opMode' \in {"SLEEP", "STDBY"} \/ (opMode' = "RX" /\ script' = <<"Sleep">>),
             script' = <<"OpReceiver", "Sleep">> \/ opMode' = "RX" => irqMask' = {},
             IF LoraSet' THEN script' \in SetupScripts \cup CalmScripts
                         ELSE script' \in SetupScripts
      PROVE  PhaseInv'
  <2>1. /\ UNCHANGED longfiVars /\ Aside
        /\ State' = State \/ State' = "IDLE"
    BY <1>1, <1>2, QuietSteps
  <2>2. ~Unsettled'
    BY <1>1, <1>2, <2>1 DEF Unsettled, Aside
  <2>3. Calm'
    BY <1>1, <1>2, <2>1
       DEF Calm, NoPacket, Rests, Aside, longfiVars, clientVars
  <2> QED
    BY <2>1, <2>2, <2>3 DEF PhaseInv, Aside
<1>3. CASE script = <<"Reset", "OpSleep", "ModemFsk", "ModemLora", "Idle", "Sleep">>
  <2>1. Head(script) = "Reset" /\ Tail(script) = <<"OpSleep", "ModemFsk", "ModemLora", "Idle", "Sleep">>
    BY <1>3
  <2>2. opMode' = "STDBY" /\ script' = Tail(script)
    BY <1>1, <2>1, QuietSteps
  <2>3. /\ script' # <<>>
        /\ Head(script') = "OpSleep"
        /\ script' # <<"OpReceiver", "Sleep">>
        /\ script' \in SetupScripts
    <3>1. script' = <<"OpSleep", "ModemFsk", "ModemLora", "Idle", "Sleep">>
      BY <2>1, <2>2
    <3>2. script' \in SetupScripts
      BY <3>1 DEF SetupScripts
    <3> QED
      BY <3>1, <3>2
  <2> QED
    BY <1>1, <1>2, <2>1, <2>2, <2>3
<1>4. CASE script = <<"OpSleep", "ModemFsk", "ModemLora", "Idle", "Sleep">>
  <2>1. Head(script) = "OpSleep" /\ Tail(script) = <<"ModemFsk", "ModemLora", "Idle", "Sleep">>
    BY <1>4
  <2>2. opMode' = "SLEEP" /\ script' = Tail(script)
    BY <1>1, <2>1, QuietSteps
  <2>3. /\ script' # <<>>
        /\ Head(script') = "ModemFsk"
        /\ script' # <<"OpReceiver", "Sleep">>
        /\ script' \in SetupScripts
    <3>1. script' = <<"ModemFsk", "ModemLora", "Idle", "Sleep">>
      BY <2>1, <2>2
    <3>2. script' \in SetupScripts
      BY <3>1 DEF SetupScripts
    <3> QED
      BY <3>1, <3>2
  <2> QED
    BY <1>1, <1>2, <2>1, <2>2, <2>3
<1>5. CASE script = <<"ModemFsk", "ModemLora", "Idle", "Sleep">>
  <2>1. Head(script) = "ModemFsk" /\ Tail(script) = <<"ModemLora", "Idle", "Sleep">>
    BY <1>5
  <2>2. opMode' \in {opMode, "SLEEP"} /\ script' = Tail(script)
    BY <1>1, <2>1, QuietSteps
  <2>3. /\ script' # <<>>
        /\ Head(script') = "ModemLora"
        /\ script' # <<"OpReceiver", "Sleep">>
        /\ script' \in SetupScripts
    <3>1. script' = <<"ModemLora", "Idle", "Sleep">>
      BY <2>1, <2>2
    <3>2. script' \in SetupScripts
      BY <3>1 DEF SetupScripts
    <3> QED
      BY <3>1, <3>2
  <2>5. opMode \in {"SLEEP", "STDBY"}
    BY <1>5 DEF Calm, Rests
  <2> QED
    BY <1>1, <1>2, <2>1, <2>2, <2>3, <2>5
<1>6. CASE script = <<"ModemLora", "Idle", "Sleep">>
  <2>1. Head(script) = "ModemLora" /\ Tail(script) = <<"Idle", "Sleep">>
    BY <1>6
  <2>2. opMode' \in {opMode, "SLEEP"} /\ LoraSet' /\ script' = Tail(script)
    BY <1>1, <2>1, QuietSteps DEF LoraSet, Aside
  <2>3. /\ script' # <<>>
        /\ Head(script') = "Idle"
        /\ script' # <<"OpReceiver", "Sleep">>
        /\ script' \in CalmScripts
    <3>1. script' = <<"Idle", "Sleep">>
      BY <2>1, <2>2
    <3>2. script' \in CalmScripts
      BY <3>1 DEF CalmScripts
    <3> QED
      BY <3>1, <3>2
  <2>5. opMode \in {"SLEEP", "STDBY"}
    BY <1>6 DEF Calm, Rests
  <2> QED
    BY <1>1, <1>2, <2>1, <2>2, <2>3, <2>5
<1>7. CASE script = <<"Idle", "Sleep">>
  <2>1. Head(script) = "Idle" /\ Tail(script) = <<"Sleep">>
    BY <1>7
  <2>2. opMode' \in {opMode, "SLEEP"} /\ (LoraSet => LoraSet') /\ script' = Tail(script)
    BY <1>1, <2>1, QuietSteps DEF LoraSet, Aside
  <2>3. /\ script' # <<>>
        /\ Head(script') = "Sleep"
        /\ script' # <<"OpReceiver", "Sleep">>
        /\ script' \in CalmScripts
    <3>1. script' = <<"Sleep">>
      BY <2>1, <2>2
    <3>2. script' \in CalmScripts
      BY <3>1 DEF CalmScripts
    <3> QED
      BY <3>1, <3>2
  <2>4. script \notin SetupScripts
    BY <1>7 DEF SetupScripts
  <2>5. opMode \in {"SLEEP", "STDBY"}
    BY <1>7 DEF Calm, Rests
  <2> QED
    BY <1>1, <1>2, <2>1, <2>2, <2>3, <2>4, <2>5
<1>8. CASE script = <<"Sleep">>
  <2>1. Head(script) = "Sleep" /\ Tail(script) = <<>>
    BY <1>8
  <2>2. opMode' = "SLEEP" /\ (LoraSet => LoraSet') /\ script' = Tail(script)
    BY <1>1, <2>1, QuietSteps DEF LoraSet, Aside
  <2>3. /\ script' # <<"OpReceiver", "Sleep">>
        /\ script' \in CalmScripts
    <3>1. script' = <<>>
      BY <2>1, <2>2
    <3>2. script' \in CalmScripts
      BY <3>1 DEF CalmScripts
    <3> QED
      BY <3>1, <3>2
  <2>4. script \notin SetupScripts
    BY <1>8 DEF SetupScripts
  <2> QED
    BY <1>1, <1>2, <2>1, <2>2, <2>3, <2>4
<1>9. CASE script = <<"ModemLora">>
  <2>1. Head(script) = "ModemLora" /\ Tail(script) = <<>>
    BY <1>9
  <2>2. opMode' \in {opMode, "SLEEP"} /\ LoraSet' /\ script' = Tail(script)
    BY <1>1, <2>1, QuietSteps DEF LoraSet, Aside
  <2>3. /\ script' # <<"OpReceiver", "Sleep">>
        /\ script' \in CalmScripts
    <3>1. script' = <<>>
      BY <2>1, <2>2
    <3>2. script' \in CalmScripts
      BY <3>1 DEF CalmScripts
    <3> QED
      BY <3>1, <3>2
  <2>4. script \notin SetupScripts
    BY <1>9 DEF SetupScripts
  <2>5. opMode \in {"SLEEP", "STDBY"}
    BY <1>9 DEF Calm, Rests
  <2> QED
    BY <1>1, <1>2, <2>1, <2>2, <2>3, <2>4, <2>5
<1>10. CASE script = <<"ModemLora", "MaskAll", "OpReceiver", "Sleep">>
  <2>1. Head(script) = "ModemLora" /\ Tail(script) = <<"MaskAll", "OpReceiver", "Sleep">>
    BY <1>10
  <2>2. opMode' \in {opMode, "SLEEP"} /\ LoraSet' /\ script' = Tail(script)
    BY <1>1, <2>1, QuietSteps DEF LoraSet, Aside
  <2>3. /\ script' # <<>>
        /\ Head(script') = "MaskAll"
        /\ script' # <<"OpReceiver", "Sleep">>
        /\ script' \in CalmScripts
    <3>1. script' = <<"MaskAll", "OpReceiver", "Sleep">>
      BY <2>1, <2>2
    <3>2. script' \in CalmScripts
      BY <3>1 DEF CalmScripts
    <3> QED
      BY <3>1, <3>2
  <2>4. script \notin SetupScripts
    BY <1>10 DEF SetupScripts
  <2>5. opMode \in {"SLEEP", "STDBY"}
    BY <1>10 DEF Calm, Rests
  <2> QED
    BY <1>1, <1>2, <2>1, <2>2, <2>3, <2>4, <2>5
<1>11. CASE script = <<"MaskAll", "OpReceiver", "Sleep">>
  <2>1. Head(script) = "MaskAll" /\ Tail(script) = <<"OpReceiver", "Sleep">>
    BY <1>11
  <2>2. opMode' = opMode /\ irqMask' = {} /\ (LoraSet => LoraSet') /\ script' = Tail(script)
    BY <1>1, <2>1, QuietSteps DEF LoraSet, Aside
  <2>3. /\ script' # <<>>
        /\ Head(script') = "OpReceiver"
        /\ script' \in CalmScripts
    <3>1. script' = <<"OpReceiver", "Sleep">>
      BY <2>1, <2>2
    <3>2. script' \in CalmScripts
      BY <3>1 DEF CalmScripts
    <3> QED
      BY <3>1, <3>2
  <2>4. script \notin SetupScripts
    BY <1>11 DEF SetupScripts
  <2>5. opMode \in {"SLEEP", "STDBY"}
    BY <1>11 DEF Calm, Rests
  <2> QED
    BY <1>1, <1>2, <2>1, <2>2, <2>3, <2>4, <2>5
<1>12. CASE script = <<"OpReceiver", "Sleep">>
  <2>1. Head(script) = "OpReceiver" /\ Tail(script) = <<"Sleep">>
    BY <1>12
  <2>2. opMode' = "RX" /\ irqMask' = irqMask /\ (LoraSet => LoraSet') /\ script' = Tail(script)
    BY <1>1, <2>1, QuietSteps DEF LoraSet, Aside
  <2>3. /\ script' # <<>>
        /\ Head(script') = "Sleep"
        /\ script' # <<"OpReceiver", "Sleep">>
        /\ script' \in CalmScripts
    <3>1. script' = <<"Sleep">>
      BY <2>1, <2>2
    <3>2. script' \in CalmScripts
      BY <3>1 DEF CalmScripts
    <3> QED
      BY <3>1, <3>2
  <2>4. script \notin SetupScripts
    BY <1>12 DEF SetupScripts
  <2>5. irqMask = {}
    BY <1>12 DEF Calm
  <2> QED
    BY <1>1, <1>2, <2>1, <2>2, <2>3, <2>4, <2>5
<1> QED
  BY <1>1, <1>3, <1>4, <1>5, <1>6, <1>7, <1>8, <1>9, <1>10, <1>11, <1>12 DEF SetupScripts, CalmScripts

\* Send ends with the packet on the air.
LEMMA RunSends ==
  ASSUME WiredDevice, DriverInv, continuous = {}, ~Unsettled, Sends, RunStep \/ RunCallback
  PROVE  PhaseInv'
<1>1. /\ script # <<>> /\ script \in TxScripts /\ LoraSet
      /\ DriverTypeOK /\ irqFlags = {} /\ Wired = {"DIO0"}
      /\ State = "IDLE" /\ Rests /\ txBuf = sending
  BY NextStep DEF Sends, DriverInv, WiredDevice
<1>2. ASSUME Head(script) \in {"ModemLora", "StbyIfAsleep", "WriteFifo", "IrqsTx"},
             Head(script') # "Reset", Rests', script' \in TxScripts,
             Head(script') \in {"WriteFifo", "IrqsTx", "Transmit"} => opMode' = "STDBY",
             Head(script') \in {"IrqsTx", "Transmit"} => fifo' = txBuf,
             script' = <<"Transmit">> => ArmedTx'
      PROVE  PhaseInv'
  <2>1. /\ UNCHANGED longfiVars /\ Aside
        /\ State' = "IDLE" /\ LoraSet'
    BY <1>1, <1>2, QuietSteps DEF LoraSet, Aside
  <2>2. ~Unsettled'
    BY <1>1, <1>2, <2>1 DEF Unsettled, LoraSet
  <2>3. Sends'
    BY <1>1, <1>2, <2>1 DEF Sends, Aside, longfiVars, clientVars
  <2> QED
    BY <2>1, <2>2, <2>3 DEF PhaseInv, Aside
<1>3. CASE script = <<"ModemLora", "StbyIfAsleep", "WriteFifo", "IrqsTx", "Transmit">>
  <2>1. Head(script) = "ModemLora" /\ Tail(script) = <<"StbyIfAsleep", "WriteFifo", "IrqsTx", "Transmit">>
    BY <1>3
  <2>2. opMode \in {"SLEEP", "STDBY"}
    BY <1>1, <2>1 DEF Sends, Rests
  <2>3. opMode' \in {opMode, "SLEEP"} /\ script' = Tail(script)
    BY <1>1, <2>1, <2>2, QuietSteps
  <2>4. script' = <<"StbyIfAsleep", "WriteFifo", "IrqsTx", "Transmit">>
    BY <2>1, <2>3
  <2>5. script' \in TxScripts
    BY <2>4 DEF TxScripts
  <2>6. Head(script') = "StbyIfAsleep" /\ script' # <<"Transmit">>
    BY <2>4
  <2> QED
    BY <1>2, <2>1, <2>2, <2>3, <2>5, <2>6 DEF Rests
<1>4. CASE script = <<"StbyIfAsleep", "WriteFifo", "IrqsTx", "Transmit">>
  <2>1. Head(script) = "StbyIfAsleep" /\ Tail(script) = <<"WriteFifo", "IrqsTx", "Transmit">>
    BY <1>4
  <2>2. opMode \in {"SLEEP", "STDBY"}
    BY <1>1, <2>1 DEF Sends, Rests
  <2>3. opMode' = "STDBY" /\ script' = Tail(script)
    BY <1>1, <2>1, <2>2, QuietSteps
  <2>4. script' = <<"WriteFifo", "IrqsTx", "Transmit">>
    BY <2>1, <2>3
  <2>5. script' \in TxScripts
    BY <2>4 DEF TxScripts
  <2>6. Head(script') = "WriteFifo" /\ script' # <<"Transmit">>
    BY <2>4
  <2> QED
    BY <1>2, <2>1, <2>2, <2>3, <2>5, <2>6 DEF Rests
<1>5. CASE script = <<"WriteFifo", "IrqsTx", "Transmit">>
  <2>1. Head(script) = "WriteFifo" /\ Tail(script) = <<"IrqsTx", "Transmit">>
    BY <1>5
  <2>2. opMode \in {"SLEEP", "STDBY"} /\ opMode = "STDBY"
    BY <1>1, <2>1 DEF Sends, Rests
  <2>3. opMode' = "STDBY" /\ fifo' = txBuf /\ script' = Tail(script)
    BY <1>1, <2>1, <2>2, QuietSteps
  <2>4. script' = <<"IrqsTx", "Transmit">>
    BY <2>1, <2>3
  <2>5. script' \in TxScripts
    BY <2>4 DEF TxScripts
  <2>6. Head(script') = "IrqsTx" /\ script' # <<"Transmit">>
    BY <2>4
  <2> QED
    BY <1>2, <2>1, <2>2, <2>3, <2>5, <2>6 DEF Rests
<1>6. CASE script = <<"IrqsTx", "Transmit">>
  <2>1. Head(script) = "IrqsTx" /\ Tail(script) = <<"Transmit">>
    BY <1>6
  <2>2. opMode \in {"SLEEP", "STDBY"} /\ opMode = "STDBY" /\ fifo = txBuf
    BY <1>1, <2>1 DEF Sends, Rests
  <2>3. opMode' = "STDBY" /\ fifo' = txBuf /\ ArmedTx' /\ script' = Tail(script)
    BY <1>1, <2>1, <2>2, QuietSteps
  <2>4. script' = <<"Transmit">>
    BY <2>1, <2>3
  <2>5. script' \in TxScripts
    BY <2>4 DEF TxScripts
  <2>6. Head(script') = "Transmit"
    BY <2>4
  <2> QED
    BY <1>2, <2>1, <2>2, <2>3, <2>5, <2>6 DEF Rests
<1>7. CASE script = <<"Transmit">>
  <2>1. Head(script) = "Transmit" /\ Tail(script) = <<>> /\ fifo = sending /\ ArmedTx
    BY <1>7 DEF Sends
  <2>2. /\ opMode' = "TX" /\ State' = "TX" /\ script' = <<>>
        /\ UNCHANGED <<longfiVars, chipModem, ModemSet, fifo, irqMask, dio0>> /\ Aside
    BY <1>1, <2>1, QuietSteps
  <2>3. LoraSet' /\ ArmedTx' /\ ~Unsettled'
    BY <1>1, <2>1, <2>2 DEF LoraSet, ArmedTx, Aside, Unsettled
  <2>4. OnAir'
    BY <2>1, <2>2, <2>3 DEF Sends, OnAir, Aside, longfiVars, clientVars
  <2> QED
    BY <2>2, <2>3, <2>4 DEF PhaseInv, Aside
<1> QED
  BY <1>1, <1>3, <1>4, <1>5, <1>6, <1>7 DEF TxScripts

\* longfi_rx ends with the chip listening for one frame.
LEMMA RunOpens ==
  ASSUME WiredDevice, DriverInv, continuous = {}, ~Unsettled, Opens, RunStep \/ RunCallback
  PROVE  PhaseInv'
<1>1. /\ script # <<>> /\ script \in RxScripts /\ LoraSet
      /\ DriverTypeOK /\ irqFlags = {} /\ Wired = {"DIO0"}
      /\ State = "IDLE"
  BY NextStep DEF Opens, DriverInv, WiredDevice
<1>2. CASE script = <<"IrqsRx", "Receive">>
  <2>1. Head(script) = "IrqsRx" /\ Tail(script) = <<"Receive">>
    BY <1>2
  <2>2. /\ ArmedRx' /\ script' = Tail(script) /\ Aside
        /\ UNCHANGED <<longfiVars, opMode, chipModem, ModemSet, State>>
    BY <1>1, <2>1, QuietSteps
  <2>3. script' # <<>> /\ Head(script') = "Receive"
    <3>1. script' = <<"Receive">>
      BY <2>1, <2>2
    <3> QED
      BY <3>1
  <2>4. script' \in RxScripts
    BY <2>1, <2>2 DEF RxScripts
  <2>5. LoraSet' /\ ~Unsettled'
    BY <1>1, <2>2, <2>3 DEF LoraSet, Aside, Unsettled
  <2>6. Opens'
    BY <2>2, <2>4, <2>5 DEF Opens, Aside, Rests, NoPacket, longfiVars, clientVars
  <2> QED
    BY <2>2, <2>5, <2>6 DEF PhaseInv, Aside
<1>3. CASE script = <<"Receive">>
  <2>1. Head(script) = "Receive" /\ Tail(script) = <<>> /\ ArmedRx /\ ModemSet = "LORA"
    BY <1>1, <1>3 DEF Opens, LoraSet
  <2>2. /\ opMode' = "RX_SINGLE" /\ State' = "RX" /\ script' = <<>>
        /\ UNCHANGED <<longfiVars, chipModem, ModemSet, irqMask, dio0>> /\ Aside
    BY <1>1, <2>1, QuietSteps
  <2>3. LoraSet' /\ ArmedRx' /\ ~Unsettled'
    BY <1>1, <2>1, <2>2 DEF LoraSet, ArmedRx, Aside, Unsettled
  <2>4. Listens'
    BY <2>1, <2>2, <2>3 DEF Opens, Listens, NoPacket, Aside, longfiVars, clientVars
  <2> QED
    BY <2>2, <2>3, <2>4 DEF PhaseInv, Aside
<1> QED
  BY <1>1, <1>2, <1>3 DEF RxScripts

\* A branch of the handler raises no event by the flags it clears.
LEMMA QuietBranch ==
  ASSUME Wired = {"DIO0"}, DriverTypeOK,
         NEW c, NEW cleared, NEW state, Branch(c, cleared, state),
         irqFlags \ cleared \subseteq {"CRC_ERROR", "RX_TIMEOUT"}
  PROVE  /\ irqFlags' = irqFlags \ cleared
         /\ State' = state
         /\ script' = Tail(script)
         /\ UNCHANGED <<opMode, chipModem, ModemSet, continuous, booted, irqMask, dio0, fifo,
                        events>>
<1>1. SetLines(chipModem, irqFlags \ cleared, dio0)
  BY DEF Branch, SetFlags
<1>2. /\ chipModem' = chipModem
      /\ irqFlags' = irqFlags \ cleared
      /\ dio0' = dio0
      /\ events' = events
  BY <1>1, QuietLines DEF DriverTypeOK, ChipTypeOK
<1> QED
  BY <1>2 DEF Branch, Do, hostVars

\* The handler of a completed transmission stores TxDone; then the radio is put
\* to sleep and the client is told.
LEMMA RunTells ==
  ASSUME WiredDevice, DriverInv, continuous = {}, ~Unsettled, TellsTxDone,
         RunStep \/ RunCallback
  PROVE  PhaseInv'
<1>1. /\ script # <<>> /\ LoraSet /\ Rests
      /\ DriverTypeOK /\ Wired = {"DIO0"}
  BY NextStep DEF TellsTxDone, DriverInv, WiredDevice
<1>2. CASE /\ at = "dispatch" /\ State = "TX"
           /\ script = <<"ClearTxDone", "TxDone">> /\ irqFlags = {"TX_DONE"}
  <2>1. Head(script) = "ClearTxDone" /\ Tail(script) = <<"TxDone">>
    BY <1>2
  <2>2. RunStep /\ ClearTxDone
    BY <2>1, NextStep
  <2>3. /\ irqFlags' = {} /\ State' = "TX" /\ script' = <<"TxDone">>
        /\ UNCHANGED <<opMode, chipModem, ModemSet, continuous, booted, events>>
    BY <1>1, <1>2, <2>1, <2>2, QuietBranch DEF ClearTxDone
  <2>4. script' # <<>> /\ Head(script') = "TxDone"
    BY <2>3
  <2>5. LoraSet' /\ ~Unsettled' /\ UNCHANGED longfiVars
    BY <1>1, <2>2, <2>3, <2>4 DEF LoraSet, Unsettled, RunStep
  <2>6. TellsTxDone'
    BY <1>2, <2>3, <2>5 DEF TellsTxDone, Rests, longfiVars, clientVars
  <2> QED
    BY <2>3, <2>5, <2>6 DEF PhaseInv
<1>3. CASE at = "dispatch" /\ State = "TX" /\ script = <<"TxDone">> /\ irqFlags = {}
  <2>1. Head(script) = "TxDone" /\ Tail(script) = <<>>
    BY <1>3
  <2>2. RunCallback /\ IrqTxDone /\ OnTxDone
    BY <2>1, NextStep
  <2>3. /\ irqFlags' = {} /\ State' = "IDLE" /\ script' = <<>>
        /\ UNCHANGED <<opMode, chipModem, ModemSet, continuous, booted, events>>
    BY <1>1, <1>3, <2>1, <2>2, QuietBranch DEF IrqTxDone
  <2>4. LoraSet' /\ ~Unsettled'
    BY <1>1, <2>3 DEF LoraSet, Unsettled
  <2>5. cur_event' = "TxDone" /\ UNCHANGED <<at, clientVars>>
    BY <2>2 DEF RunCallback, OnTxDone
  <2>6. TellsTxDone'
    BY <1>3, <2>3, <2>4, <2>5 DEF TellsTxDone, Rests, clientVars
  <2> QED
    BY <2>3, <2>4, <2>6 DEF PhaseInv
<1>4. CASE at = "txdone" /\ script = <<"Sleep">> /\ State = "IDLE" /\ irqFlags = {}
  <2>1. Head(script) = "Sleep" /\ Tail(script) = <<>>
    BY <1>4
  <2>2. /\ opMode' = "SLEEP" /\ State' = "IDLE" /\ script' = <<>>
        /\ UNCHANGED <<longfiVars, chipModem, ModemSet>> /\ Aside
    BY <1>1, <1>4, <2>1, QuietSteps
  <2>3. LoraSet' /\ ~Unsettled'
    BY <1>1, <2>2 DEF LoraSet, Aside, Unsettled
  <2>4. TellsTxDone'
    BY <1>4, <2>2, <2>3 DEF TellsTxDone, Rests, Aside, longfiVars, clientVars
  <2> QED
    BY <2>2, <2>3, <2>4 DEF PhaseInv, Aside
<1> QED
  BY <1>1, <1>2, <1>3, <1>4 DEF TellsTxDone

\* The handler of a received frame reports the wrong checksum, or the payload.
LEMMA RunReads ==
  ASSUME WiredDevice, DriverInv, continuous = {}, ~Unsettled, Reads, RunStep \/ RunCallback
  PROVE  PhaseInv'
<1>1. /\ script # <<>> /\ LoraSet /\ NoPacket /\ at = "dispatch" /\ State = "RX"
      /\ opMode = "STDBY" /\ events = <<>> /\ cur_event = "None"
      /\ DriverTypeOK /\ Wired = {"DIO0"}
  BY NextStep DEF Reads, DriverInv, WiredDevice
<1>2. ASSUME UNCHANGED <<opMode, chipModem, ModemSet, continuous, booted, events>>,
             irqFlags' = {}, State' = "IDLE", script' = <<>>,
             RunCallback, cur_event' \in {"RxDone", "RxTimeout"}
      PROVE  PhaseInv'
  <2>1. LoraSet' /\ ~Unsettled' /\ UNCHANGED <<at, clientVars>>
    BY <1>1, <1>2 DEF LoraSet, Unsettled, RunCallback
  <2>2. script' \in CalmScripts /\ script' # <<"Sleep">> /\ script' # <<"OpReceiver", "Sleep">>
    BY <1>2 DEF CalmScripts
  <2>3. Calm'
    BY <1>1, <1>2, <2>1, <2>2 DEF Calm, NoPacket, Rests, clientVars
  <2> QED
    BY <1>2, <2>1, <2>3 DEF PhaseInv
<1>3. CASE /\ script = <<"ClearRxDone", "CrcError", "RxDone">>
           /\ \/ irqFlags = {"RX_DONE"} /\ fifo \in RxFrames
              \/ irqFlags = {"RX_DONE", "CRC_ERROR"}
  <2>1. Head(script) = "ClearRxDone" /\ Tail(script) = <<"CrcError", "RxDone">>
    BY <1>3
  <2>2. RunStep /\ ClearRxDone
    BY <2>1, NextStep
  <2>3. /\ irqFlags' = irqFlags \ {"RX_DONE"} /\ State' = "RX"
        /\ script' = <<"CrcError", "RxDone">>
        /\ UNCHANGED <<opMode, chipModem, ModemSet, continuous, booted, events, fifo>>
    BY <1>1, <1>3, <2>1, <2>2, QuietBranch DEF ClearRxDone
  <2>4. script' # <<>> /\ Head(script') = "CrcError"
    BY <2>3
  <2>5. LoraSet' /\ ~Unsettled' /\ UNCHANGED longfiVars
    BY <1>1, <2>2, <2>3, <2>4 DEF LoraSet, Unsettled, RunStep
  <2>6. Reads'
    BY <1>1, <1>3, <2>3, <2>5 DEF Reads, NoPacket, longfiVars, clientVars
  <2> QED
    BY <2>3, <2>5, <2>6 DEF PhaseInv
<1>4. CASE /\ script = <<"CrcError", "RxDone">>
           /\ irqFlags = {"CRC_ERROR"} \/ (irqFlags = {} /\ fifo \in RxFrames)
  <2>1. Head(script) = "CrcError" /\ Tail(script) = <<"RxDone">>
    BY <1>4
  <2>2. CASE RunStep /\ IrqCrcOk
    <3>1. Do("CrcError") /\ "CRC_ERROR" \notin irqFlags
          /\ UNCHANGED <<chipVars, hostVars, settings, longfiVars>>
      BY <2>1, <2>2 DEF IrqCrcOk, Do, RunStep
    <3>2. script' = <<"RxDone">> /\ irqFlags = {} /\ fifo \in RxFrames
      BY <1>4, <2>1, <3>1 DEF Do
    <3>3. script' # <<>> /\ Head(script') = "RxDone"
      BY <3>2
    <3>4. LoraSet' /\ ~Unsettled' /\ continuous' = {}
      BY <1>1, <3>1, <3>3 DEF LoraSet, Unsettled, chipVars, hostVars, settings
    <3>5. Reads'
      BY <1>1, <3>1, <3>2, <3>4 DEF Reads, NoPacket, longfiVars, clientVars, chipVars, settings
    <3> QED
      BY <3>4, <3>5 DEF PhaseInv
  <2>3. CASE RunCallback /\ IrqCrcError /\ OnRxError
    <3>1. "CRC_ERROR" \in irqFlags /\ Abort("CrcError", {"CRC_ERROR"}, "LORA")
      BY <2>3 DEF IrqCrcError
    <3>2. SetLines(chipModem, {}, dio0)
      BY <1>4, <3>1 DEF Abort, SetFlags
    <3>3. irqFlags' = {} /\ chipModem' = chipModem /\ events' = events
      BY <1>1, <3>2, QuietLines DEF DriverTypeOK, ChipTypeOK
    <3>4. cur_event' = "RxTimeout"
      BY <2>3 DEF OnRxError
    <3> QED
      BY <1>2, <2>3, <3>1, <3>3, <3>4 DEF Abort, StateUnlessContinuous, hostVars
  <2> QED
    BY <2>1, <2>2, <2>3, NextStep
<1>5. CASE script = <<"RxDone">> /\ irqFlags = {} /\ fifo \in RxFrames
  <2>1. Head(script) = "RxDone" /\ Tail(script) = <<>>
    BY <1>5
  <2>2. RunCallback /\ IrqRxDone /\ OnRxDone(fifo)
    BY <2>1, NextStep
  <2>3. /\ irqFlags' = {} /\ State' = "IDLE" /\ script' = <<>>
        /\ UNCHANGED <<opMode, chipModem, ModemSet, continuous, booted, events>>
    BY <1>1, <1>5, <2>1, <2>2, QuietBranch DEF IrqRxDone, StateUnlessContinuous
  <2>4. cur_event' = "RxDone"
    BY <2>2 DEF OnRxDone
  <2> QED
    BY <1>2, <2>2, <2>3, <2>4
<1> QED
  BY <1>3, <1>4, <1>5 DEF Reads

\* In the other phases nothing is left to run.
LEMMA RunPolite ==
  ASSUME WiredDevice, DriverInv, PhaseInv, RunStep \/ RunCallback
  PROVE  PhaseInv'
<1>1. script # <<>>
  BY NextStep
<1> QED
  BY <1>1, RunUnsettled, RunCalm, RunSends, RunOpens, RunTells, RunReads
     DEF PhaseInv, OnAir, Listens

-----------------------------------------------------------------------------
(* The calls of the client.                                                *)

\* What the client and the library do without the radio moves nothing.
LEMMA PoliteStutter ==
  ASSUME PhaseInv, UNCHANGED radioVars, UNCHANGED <<at, cur_event, sending, airings>>
  PROVE  PhaseInv'
<1> USE DEF radioVars, chipVars, driverVars, settings
<1>1. Unsettled' = Unsettled /\ LoraSet' = LoraSet /\ NoPacket' = NoPacket /\ Rests' = Rests
  BY DEF Unsettled, LoraSet, NoPacket, Rests
<1>2. Unsettles => Unsettles'
  BY <1>1 DEF Unsettles
<1>3. Calm => Calm'
  BY <1>1 DEF Calm
<1>4. Sends => Sends'
  BY <1>1 DEF Sends, ArmedTx
<1>5. OnAir => OnAir'
  BY <1>1 DEF OnAir, ArmedTx
<1>6. TellsTxDone => TellsTxDone'
  BY <1>1 DEF TellsTxDone
<1>7. Opens => Opens'
  BY <1>1 DEF Opens, ArmedRx
<1>8. Listens => Listens'
  BY <1>1 DEF Listens, ArmedRx
<1>9. Reads => Reads'
  BY <1>1 DEF Reads
<1> QED
  BY <1>1, <1>2, <1>3, <1>4, <1>5, <1>6, <1>7, <1>8, <1>9 DEF PhaseInv

\* No phase that has a script is one without.
LEMMA ScriptsRun ==
  <<>> \notin SetupScripts /\ <<>> \notin TxScripts /\ <<>> \notin RxScripts
BY DEF SetupScripts, TxScripts, RxScripts

\* A call that is heeded finds a radio that rests.
LEMMA PoliteCalls ==
  ASSUME WiredDevice, Heeded, PhaseInv, MayCall, script = <<>>
  PROVE  /\ events = <<>> /\ at = "main" /\ State = "IDLE" /\ NoPacket
         /\ Unsettled => ~booted
         /\ ~Unsettled => Calm /\ Rests
         /\ booted => LoraSet
<1>1. events = <<>> /\ at = "main" /\ State = "IDLE" /\ sending = NoFrame
  BY DEF Heeded, MayCall, Free
<1>2. Unsettled => ~booted
  BY DEF Unsettled
<1>3. ASSUME ~Unsettled PROVE Calm
  BY <1>1, <1>3, ScriptsRun
     DEF PhaseInv, Unsettles, Sends, OnAir, TellsTxDone, Opens, Listens, Reads
<1>4. Calm => Rests /\ (booted => LoraSet)
  <2>1. script # <<"Sleep">>
    OBVIOUS
  <2> QED
    BY <1>1, <2>1, ScriptsRun DEF Calm
<1>5. NoPacket
  BY <1>1, <1>3 DEF PhaseInv, Unsettles, Calm
<1> QED
  BY <1>1, <1>2, <1>3, <1>4, <1>5

\* longfi_init, the first or another.
LEMMA InitPolite ==
  ASSUME WiredDevice, Heeded, DriverInv, PhaseInv, longfi_init
  PROVE  PhaseInv'
<1>1. /\ MayCall /\ script = <<>>
      /\ script' = InitScript \o SleepScript
      /\ booted'
      /\ UNCHANGED <<opMode, chipModem, irqFlags, irqMask, dio0, fifo, events, chip,
                     State, ModemSet, continuous, at, cur_event, sending, airings>>
  BY DEF longfi_init, Begin, Asks, chipVars, settings
<1>2. /\ at = "main" /\ State = "IDLE" /\ NoPacket
      /\ ~Unsettled => Calm /\ Rests
  BY <1>1, PoliteCalls
<1>3. /\ script' \in SetupScripts
      /\ script' # <<"OpReceiver", "Sleep">> /\ script' # <<"Sleep">>
  <2>1. CASE script' = <<"Reset", "OpSleep", "ModemFsk", "ModemLora", "Idle", "Sleep">>
    <3>1. script' \in SetupScripts
      BY <2>1 DEF SetupScripts
    <3> QED
      BY <2>1, <3>1
  <2>2. CASE script' = <<"OpSleep", "ModemFsk", "ModemLora", "Idle", "Sleep">>
    <3>1. script' \in SetupScripts
      BY <2>2 DEF SetupScripts
    <3> QED
      BY <2>2, <3>1
  <2> QED
    BY <1>1, <2>1, <2>2, InitJoined
<1>4. CASE "Restart" \in Ops
  <2>1. chip = "SX1276"
    BY <1>4 DEF WiredDevice, DriverInv, DriverTypeOK
  <2>2. /\ InitScript = <<"Reset", "OpSleep", "ModemFsk", "ModemLora", "Idle">>
        /\ SleepScript = <<"Sleep">>
    BY <2>1 DEF InitScript, SleepScript, Pick, D76!InitScript, D76!SetSleepScript
  <2>3. script' = <<"Reset", "OpSleep", "ModemFsk", "ModemLora", "Idle", "Sleep">>
    BY <1>1, <2>2, Concat51
  <2>4. script' # <<>> /\ Head(script') = "Reset"
    BY <2>3
  <2>5. Unsettled'
    BY <1>4, <2>4 DEF Unsettled
  <2>6. Unsettles'
    BY <1>1, <1>2, <2>3, <2>5 DEF Unsettles, NoPacket
  <2> QED
    BY <1>1, <2>6 DEF PhaseInv
<1>5. CASE "Restart" \notin Ops
  <2>1. ~Unsettled /\ ~Unsettled'
    BY <1>5 DEF Unsettled
  <2>2. Calm'
    BY <1>1, <1>2, <1>3, <2>1 DEF Calm, NoPacket, Rests
  <2> QED
    BY <1>1, <2>1, <2>2 DEF PhaseInv
<1> QED
  BY <1>4, <1>5

\* A call that neither sends nor listens.
LEMMA CalmStarts ==
  ASSUME WiredDevice, Heeded, PhaseInv, MayCall, booted, script = <<>>, booted' = booted,
         script' \in {<<"ModemLora">>, <<"ModemLora", "MaskAll", "OpReceiver", "Sleep">>},
         UNCHANGED <<opMode, chipModem, irqFlags, irqMask, State, ModemSet, at, cur_event,
                     sending, airings>>,
         continuous' = {}
  PROVE  PhaseInv'
<1>1. /\ at = "main" /\ State = "IDLE" /\ NoPacket /\ LoraSet
      /\ ~Unsettled /\ Calm /\ Rests
  BY PoliteCalls
<1>2. /\ Head(script') = "ModemLora"
      /\ script' \in CalmScripts
      /\ script' # <<"OpReceiver", "Sleep">>
  <2>1. CASE script' = <<"ModemLora">>
    <3>1. script' \in CalmScripts
      BY <2>1 DEF CalmScripts
    <3> QED
      BY <2>1, <3>1
  <2>2. CASE script' = <<"ModemLora", "MaskAll", "OpReceiver", "Sleep">>
    <3>1. script' \in CalmScripts
      BY <2>2 DEF CalmScripts
    <3> QED
      BY <2>2, <3>1
  <2> QED
    BY <2>1, <2>2
<1>3. ~Unsettled'
  BY <1>1, <1>2 DEF Unsettled
<1>4. LoraSet'
  BY <1>1 DEF LoraSet
<1>5. Calm'
  BY <1>1, <1>2, <1>4 DEF Calm, NoPacket, Rests
<1> QED
  BY <1>3, <1>5 DEF PhaseInv

\* longfi_rx goes to the LoRa modem, which is in use.
LEMMA RxPolite ==
  ASSUME WiredDevice, Heeded, DriverInv, PhaseInv, longfi_rx
  PROVE  PhaseInv'
<1>1. /\ MayCall /\ script = <<>> /\ booted
      /\ script' = RxScript(ModemSet)
      /\ UNCHANGED <<opMode, chipModem, irqFlags, irqMask, dio0, fifo, events, booted,
                     State, ModemSet, continuous, at, cur_event, sending, airings>>
  BY DEF longfi_rx, Simple, CallOk, Begin, Asks, chipVars, hostVars, settings
<1>2. /\ at = "main" /\ State = "IDLE" /\ NoPacket /\ LoraSet /\ events = <<>>
      /\ ~Unsettled /\ Calm /\ Rests
  BY <1>1, PoliteCalls
<1>3. script' = <<"IrqsRx", "Receive">>
  BY <1>1, <1>2 DEF LoraSet, RxScript, Pick, D76!SetRxScript, D72!SetRxScript
<1>4. script' \in RxScripts
  BY <1>3 DEF RxScripts
<1>5. Head(script') = "IrqsRx" /\ script' # <<"Receive">>
  BY <1>3
<1>6. ~Unsettled' /\ LoraSet'
  BY <1>1, <1>2, <1>5 DEF Unsettled, LoraSet
<1>7. Opens'
  BY <1>1, <1>2, <1>4, <1>5, <1>6 DEF Calm, Opens, NoPacket, Rests
<1> QED
  BY <1>1, <1>6, <1>7 DEF PhaseInv

\* The payload to transmit is the packet the client waits for.
LEMMA TransmitsPolite ==
  ASSUME WiredDevice, Heeded, DriverInv, PhaseInv, NEW op, NEW f \in TxFrames, Transmits(op, f)
  PROVE  PhaseInv'
<1>1. /\ MayCall /\ script = <<>> /\ booted
      /\ script' = TxConfigScript("LORA") \o SendScript("LORA")
      /\ txBuf' = f /\ sending' = f /\ airings' = 0
      /\ UNCHANGED <<opMode, chipModem, irqFlags, irqMask, dio0, fifo, events, booted,
                     State, ModemSet, continuous, at, cur_event>>
  BY DEF Transmits, SetsOut, CallOk, Begin, chipVars, settings
<1>2. /\ at = "main" /\ State = "IDLE" /\ NoPacket /\ LoraSet /\ events = <<>>
      /\ ~Unsettled /\ Calm /\ Rests
  BY <1>1, PoliteCalls
<1>3. script' = <<"ModemLora", "StbyIfAsleep", "WriteFifo", "IrqsTx", "Transmit">>
  <2>1. TxConfigScript("LORA") = <<"ModemLora">>
    BY DEF TxConfigScript, Pick, D76!SetTxConfigScript, D72!SetTxConfigScript
  <2>2. SendScript("LORA") = <<"StbyIfAsleep", "WriteFifo", "IrqsTx", "Transmit">>
    BY JoinedScripts
  <2> QED
    BY <1>1, <2>1, <2>2, Concat14
<1>4. script' \in TxScripts
  BY <1>3 DEF TxScripts
<1>5. Head(script') = "ModemLora" /\ script' # <<"Transmit">>
  BY <1>3
<1>6. ~Unsettled' /\ LoraSet'
  BY <1>1, <1>2, <1>5 DEF Unsettled, LoraSet
<1>7. f # NoFrame
  BY FramesAssumption
<1>8. Sends'
  BY <1>1, <1>2, <1>4, <1>5, <1>6, <1>7 DEF Calm, Sends, Rests
<1> QED
  BY <1>1, <1>6, <1>8 DEF PhaseInv

\* Every call of the client.
LEMMA ClientPolite ==
  ASSUME WiredDevice, Heeded, DriverInv, PhaseInv, ClientCall
  PROVE  PhaseInv'
<1>1. CASE longfi_init
  BY <1>1, InitPolite
<1>2. CASE longfi_get_rx \/ \E len \in BufferLens : longfi_set_buf(len)
  BY <1>2, PoliteStutter
     DEF longfi_get_rx, longfi_set_buf, FetchBuffer, LendBuffer, clientVars
<1>3. CASE longfi_rx
  BY <1>3, RxPolite
<1>4. CASE configure_rx
  <2>1. RxConfigScript("LORA") = <<"ModemLora">>
    BY DEF RxConfigScript, Pick, D76!SetRxConfigScript, D72!SetRxConfigScript
  <2>2. /\ MayCall /\ script = <<>> /\ booted
        /\ script' = <<"ModemLora">>
        /\ UNCHANGED <<opMode, chipModem, irqFlags, irqMask, booted, State, ModemSet, at,
                       cur_event, sending, airings>>
        /\ continuous' = continuous \ {"LORA"}
    BY <1>4, <2>1
       DEF configure_rx, SetRxConfig, CallOk, Begin, Asks, chipVars, hostVars
  <2>3. continuous' = {}
    BY <2>2 DEF PhaseInv
  <2> QED
    BY <2>2, <2>3, CalmStarts
<1>5. CASE longfi_get_random
  <2>1. RandomScript = <<"ModemLora", "MaskAll", "OpReceiver", "Sleep">>
    BY DEF RandomScript, Pick, D76!RandomScript, D72!RandomScript
  <2>2. /\ MayCall /\ script = <<>> /\ booted
        /\ script' = RandomScript
        /\ UNCHANGED <<opMode, chipModem, irqFlags, irqMask, booted, State, ModemSet, at,
                       continuous, cur_event, sending, airings>>
    BY <1>5
       DEF longfi_get_random, Simple, CallOk, Begin, Asks, chipVars, hostVars, settings
  <2>3. continuous' = {}
    BY <2>2 DEF PhaseInv
  <2> QED
    BY <2>1, <2>2, <2>3, CalmStarts
<1>6. CASE longfi_rf_test \/ \E f \in TxFrames \ {TestFrame} : longfi_send(f)
  BY <1>6, LongFiAssumption, TransmitsPolite DEF longfi_rf_test, longfi_send
<1> QED
  BY <1>1, <1>2, <1>3, <1>4, <1>5, <1>6 DEF ClientCall

-----------------------------------------------------------------------------
(* Events.                                                                 *)

\* An event finds the handler of the operation that has ended, or none.
LEMMA DispatchPolite ==
  ASSUME WiredDevice, DriverInv, PhaseInv, longfi_handle_event
  PROVE  PhaseInv'
<1>1. /\ events # <<>> /\ events' = Tail(events)
      /\ booted /\ script = <<>> /\ script' = HandlerScript(HandlerOf(Head(events)))
      /\ at = "main" /\ at' = "dispatch" /\ cur_event' = "None"
      /\ UNCHANGED <<opMode, chipModem, irqFlags, irqMask, dio0, fifo, booted, State,
                     ModemSet, continuous, sending, airings>>
  BY DEF longfi_handle_event, Dispatch, Begin, Dispatches, hostVars, settings
<1>2. ~Unsettled
  BY <1>1 DEF Unsettled
<1>3. HandlerOf(Head(events)) = "DIO0"
  <2>1. events \in Seq({"DIO0"})
    BY DEF WiredDevice, DriverInv, DriverTypeOK, ChipTypeOK
  <2>2. Head(events) = "DIO0"
    BY <1>1, <2>1
  <2> QED
    BY <2>2 DEF HandlerOf
<1>4. script' = Pick(D76!Dio0Script(State, ModemSet), D72!Dio0Script(State, ModemSet))
  BY <1>1, <1>3 DEF HandlerScript
<1>5. CASE Calm
  <2>1. LoraSet /\ State = "IDLE" /\ Rests
    BY <1>1, <1>5, ScriptsRun DEF Calm
  <2>2. script' = <<>>
    BY <1>4, <2>1 DEF Pick, D76!Dio0Script, D72!Dio0Script
  <2>3. ~Unsettled' /\ LoraSet'
    BY <1>1, <1>2, <2>1, <2>2 DEF Unsettled, LoraSet
  <2>4. script' # <<"OpReceiver", "Sleep">>
    BY <2>2
  <2>5. Calm'
    BY <1>1, <1>5, <2>1, <2>2, <2>3, <2>4 DEF Calm, NoPacket, Rests
  <2> QED
    BY <1>1, <2>3, <2>5 DEF PhaseInv
<1>6. CASE OnAir
  <2>1. LoraSet /\ State = "TX" /\ opMode = "STDBY" /\ airings = 1 /\ irqFlags = {"TX_DONE"}
        /\ events = <<"DIO0">> /\ sending # NoFrame
    BY <1>1, <1>6 DEF OnAir
  <2>2. script' = <<"ClearTxDone", "TxDone">>
    BY <1>4, <2>1 DEF LoraSet, Pick, D76!Dio0Script, D72!Dio0Script
  <2>3. script' # <<>> /\ Head(script') = "ClearTxDone"
    BY <2>2
  <2>4. ~Unsettled' /\ LoraSet' /\ events' = <<>>
    BY <1>1, <1>2, <2>1, <2>3 DEF Unsettled, LoraSet
  <2>5. TellsTxDone'
    BY <1>1, <2>1, <2>2, <2>4 DEF TellsTxDone, Rests
  <2> QED
    BY <1>1, <2>4, <2>5 DEF PhaseInv
<1>7. CASE Listens
  <2>1. /\ LoraSet /\ NoPacket /\ State = "RX" /\ opMode = "STDBY" /\ events = <<"DIO0">>
        /\ \/ irqFlags = {"RX_DONE"} /\ fifo \in RxFrames
           \/ irqFlags = {"RX_DONE", "CRC_ERROR"}
    BY <1>1, <1>7 DEF Listens
  <2>2. script' = <<"ClearRxDone", "CrcError", "RxDone">>
    BY <1>4, <2>1 DEF LoraSet, Pick, D76!Dio0Script, D72!Dio0Script
  <2>3. script' # <<>> /\ Head(script') = "ClearRxDone"
    BY <2>2
  <2>4. ~Unsettled' /\ LoraSet' /\ events' = <<>>
    BY <1>1, <1>2, <2>1, <2>3 DEF Unsettled, LoraSet
  <2>5. Reads'
    BY <1>1, <2>1, <2>2, <2>4 DEF Reads, NoPacket
  <2> QED
    BY <1>1, <2>4, <2>5 DEF PhaseInv
<1> QED
  BY <1>1, <1>2, <1>5, <1>6, <1>7, ScriptsRun
     DEF PhaseInv, Unsettles, Sends, TellsTxDone, Opens, Reads

\* The library puts the radio to sleep, tells the client, and returns.
LEMMA ReturnPolite ==
  ASSUME WiredDevice, DriverInv, PhaseInv, HandleTxDone \/ HandleReturn
  PROVE  PhaseInv'
<1>1. script = <<>>
  BY DEF HandleTxDone, Begin, HandleReturn
<1>2. CASE HandleTxDone
  <2>1. /\ at = "dispatch" /\ cur_event = "TxDone" /\ at' = "txdone"
        /\ script' = SleepScript
        /\ UNCHANGED <<opMode, chipModem, irqFlags, events, booted, State, ModemSet, continuous,
                       sending, airings>>
    BY <1>2
       DEF HandleTxDone, FinishesTx, Begin, chipVars, hostVars, settings, clientVars
  <2>2. TellsTxDone /\ ~Unsettled
    BY <1>1, <2>1, ScriptsRun DEF PhaseInv, Unsettles, Calm, Sends, OnAir, Opens, Listens, Reads
  <2>3. script' = <<"Sleep">>
    BY <2>1 DEF SleepScript, Pick, D76!SetSleepScript, D72!SetSleepScript
  <2>4. script' # <<>> /\ Head(script') = "Sleep"
    BY <2>3
  <2>5. ~Unsettled' /\ LoraSet'
    BY <2>1, <2>2, <2>4 DEF Unsettled, LoraSet, TellsTxDone
  <2>6. State = "IDLE" /\ irqFlags = {}
    BY <1>1, <2>1, <2>2 DEF TellsTxDone
  <2>7. TellsTxDone'
    BY <2>1, <2>2, <2>3, <2>5, <2>6 DEF TellsTxDone, Rests
  <2> QED
    BY <2>1, <2>5, <2>7 DEF PhaseInv
<1>3. CASE HandleReturn
  <2>1. UNCHANGED <<opMode, chipModem, irqFlags, irqMask, script, events, booted, State,
                    ModemSet, continuous>>
    BY <1>3 DEF HandleReturn, radioVars, chipVars, driverVars, settings
  <2>2. \/ at = "txdone" /\ sending' = NoFrame /\ airings' = 0
        \/ at = "dispatch" /\ cur_event # "TxDone" /\ UNCHANGED <<sending, airings>>
    BY <1>3 DEF HandleReturn, ReturnsTxDone, ReturnsRx, ReturnsNone
  <2>3. at' = "main"
    BY <1>3 DEF HandleReturn, ReturnsTxDone, ReturnsRx, ReturnsNone
  <2>4. ~Unsettled /\ LoraSet /\ Rests /\ State = "IDLE" /\ irqFlags = {} /\ NoPacket'
    <3>1. ~Unsettled /\ (Calm \/ TellsTxDone \/ Reads)
      BY <2>2 DEF PhaseInv, Unsettles, Sends, OnAir, Opens, Listens
    <3>2. CASE Calm
      <4>1. script # <<"Sleep">>
        BY <1>1
      <4> QED
        BY <2>2, <3>1, <3>2, <4>1 DEF Calm, NoPacket
    <3>3. CASE TellsTxDone
      BY <1>1, <2>2, <3>1, <3>3 DEF TellsTxDone, NoPacket
    <3>4. CASE Reads
      BY <1>1, <3>4 DEF Reads
    <3> QED
      BY <3>1, <3>2, <3>3, <3>4
  <2>5. ~Unsettled' /\ LoraSet' /\ Rests'
    BY <2>1, <2>4 DEF Unsettled, LoraSet, Rests
  <2>6. script' \in CalmScripts
    BY <1>1, <2>1 DEF CalmScripts
  <2>7. script' # <<"OpReceiver", "Sleep">>
    BY <1>1, <2>1
  <2>8. Calm'
    BY <2>1, <2>3, <2>4, <2>5, <2>6, <2>7 DEF Calm, Rests
  <2> QED
    BY <2>1, <2>5, <2>8 DEF PhaseInv
<1> QED
  BY <1>2, <1>3

-----------------------------------------------------------------------------
(* The chip and the restart.                                               *)

\* The only transmission of a settled device is the client's packet; its end
\* raises DIO0.
LEMMA TransmittedPolite ==
  ASSUME WiredDevice, DriverInv, PhaseInv, Transmitted
  PROVE  PhaseInv'
<1>1. /\ opMode = "TX"
      /\ LoraTxDone \/ chipModem = "FSK"
      /\ UNCHANGED <<State, ModemSet, continuous, script, txBuf, booted, chipModem, irqMask, dio0,
                     at, cur_event, sending>>
      /\ IF sending = NoFrame THEN UNCHANGED airings
         ELSE airings' = IF airings < MaxAirings THEN airings + 1 ELSE airings
  BY ChipDoes DEF Transmitted, TxComplete, ChipSends, LoraTxDone, FskTxDone, Airs, driverVars,
     settings
<1>2. Unsettled' = Unsettled
  BY <1>1 DEF Unsettled
<1>3. CASE Unsettles
  <2>1. Unsettles'
    BY <1>1, <1>2, <1>3 DEF Unsettles, NoPacket
  <2> QED
    BY <1>1, <2>1 DEF PhaseInv
<1>4. CASE OnAir
  <2>1. /\ LoraSet /\ ArmedTx /\ airings = 0 /\ irqFlags = {} /\ events = <<>>
        /\ sending # NoFrame
    BY <1>1, <1>4 DEF OnAir
  <2>2. LoraTxDone
    BY <1>1, <2>1 DEF LoraSet
  <2>3. irqFlags \cup ({"TX_DONE"} \cap (irqMask \cup FskIrqs)) = {"TX_DONE"}
    BY <2>1 DEF ArmedTx
  <2>4. SetLines(chipModem, {"TX_DONE"}, dio0) /\ opMode' = "STDBY"
    BY <2>2, <2>3 DEF LoraTxDone, Latch, SetFlags
  <2>5. ~High("DIO0", chipModem, irqFlags, dio0) /\ High("DIO0", chipModem, {"TX_DONE"}, dio0)
    BY <2>1 DEF High, LoraSet, ArmedTx
  <2>6. irqFlags' = {"TX_DONE"} /\ events' = <<"DIO0">>
    BY <2>1, <2>4, <2>5, RisingLine DEF WiredDevice
  <2>7. airings' = 1
    BY <1>1, <2>1 DEF MaxAirings
  <2>8. LoraSet' /\ ArmedTx'
    BY <1>1, <2>1 DEF LoraSet, ArmedTx
  <2>9. OnAir'
    BY <1>1, <1>4, <2>4, <2>6, <2>7, <2>8 DEF OnAir
  <2>10. ~Unsettled
    BY <1>4, <2>1 DEF Unsettled, OnAir, LoraSet
  <2> QED
    BY <1>1, <1>2, <2>9, <2>10 DEF PhaseInv
<1> QED
  BY <1>1, <1>3, <1>4 DEF PhaseInv, Calm, Sends, TellsTxDone, Opens, Listens, Reads, Rests

\* A frame that longfi_get_random receives raises nothing.
LEMMA CalmHears ==
  ASSUME WiredDevice, DriverInv, Calm, ~Unsettled, Received
  PROVE  /\ opMode = "RX" /\ opMode' = "RX" /\ irqFlags' = {} /\ irqMask = {}
         /\ script = <<"Sleep">> /\ at = "main" /\ LoraSet
         /\ UNCHANGED <<State, events, script>>
<1>1. /\ UNCHANGED <<State, script>>
      /\ opMode \in {"RX", "RX_SINGLE", "CAD"}
  BY ChipDoes DEF Received, RxComplete, ChipReceives, LoraRxDone, FskRxDone, RxTimesOut, CadDone,
     driverVars, settings
<1>2. opMode = "RX" /\ script = <<"Sleep">> /\ irqMask = {} /\ irqFlags = {}
  BY <1>1 DEF Calm, Rests
<1>3. LoraSet /\ at = "main"
  <2>1. script \notin SetupScripts /\ script # <<>>
    BY <1>2 DEF SetupScripts
  <2> QED
    BY <2>1 DEF Calm, DriverInv
<1>4. PICK f \in RxFrames \cup {Garbled} : LoraRxDone(f)
  BY <1>2, <1>3 DEF Received, RxComplete, ChipReceives, FskRxDone, RxTimesOut, CadDone, LoraSet
<1>5. \A irqs \in {{"RX_DONE", "CRC_ERROR"}, {"RX_DONE"}} :
        irqFlags \cup (irqs \cap (irqMask \cup FskIrqs)) = {}
  BY <1>2 DEF FskIrqs
<1>6. SetLines(chipModem, {}, dio0) /\ opMode' = "RX"
  BY <1>2, <1>4, <1>5 DEF LoraRxDone, Latch, SetFlags
<1>7. irqFlags' = {} /\ events' = events
  BY <1>6, QuietLines DEF WiredDevice, DriverInv, DriverTypeOK, ChipTypeOK
<1> QED
  BY <1>1, <1>2, <1>3, <1>6, <1>7

\* A reception that longfi_rx asked for raises DIO0.
LEMMA ReceivedPolite ==
  ASSUME WiredDevice, DriverInv, PhaseInv, Received
  PROVE  PhaseInv'
<1>1. /\ UNCHANGED <<State, ModemSet, continuous, script, txBuf, booted, chipModem, irqMask, dio0,
                     at, cur_event, sending, airings>>
      /\ opMode \in {"RX", "RX_SINGLE", "CAD"}
  BY ChipDoes DEF Received, RxComplete, ChipReceives, LoraRxDone, FskRxDone, RxTimesOut, CadDone,
     driverVars, settings, longfiVars, clientVars
<1>2. Unsettled' = Unsettled
  BY <1>1 DEF Unsettled
<1>3. Wired = {"DIO0"} /\ events \in Seq(Wired)
  BY DEF WiredDevice, DriverInv, DriverTypeOK, ChipTypeOK
<1>4. CASE Unsettles
  <2>1. Unsettles'
    BY <1>1, <1>2, <1>4 DEF Unsettles, NoPacket
  <2> QED
    BY <1>1, <2>1 DEF PhaseInv
<1>5. CASE Calm /\ ~Unsettled
  <2>1. /\ opMode = "RX" /\ opMode' = "RX" /\ irqFlags' = {} /\ irqMask = {}
        /\ script = <<"Sleep">> /\ at = "main" /\ LoraSet
    BY <1>5, CalmHears
  <2>2. LoraSet'
    BY <1>1, <2>1 DEF LoraSet
  <2>3. Calm'
    BY <1>1, <1>5, <2>1, <2>2 DEF Calm, NoPacket
  <2> QED
    BY <1>1, <1>2, <1>5, <2>3 DEF PhaseInv
<1>6. CASE Listens /\ ~Unsettled
  <2>1. /\ LoraSet /\ NoPacket /\ ArmedRx
        /\ opMode = "RX_SINGLE" /\ irqFlags = {} /\ events = <<>>
    BY <1>1, <1>6 DEF Listens
  <2>2. LoraSet' /\ NoPacket' /\ ArmedRx'
    BY <1>1, <2>1 DEF LoraSet, NoPacket, ArmedRx
  <2>3. CASE RxTimesOut
    <3>1. PICK g \in {{}, {"RX_TIMEOUT"}} : SetLines(chipModem, g, dio0)
      BY <2>1, <2>3 DEF RxTimesOut, Latch, SetFlags, FskIrqs
    <3>2. irqFlags' \subseteq {"RX_TIMEOUT"} /\ events' = <<>> /\ opMode' = "STDBY"
      BY <1>3, <2>1, <2>3, <3>1, QuietLines DEF RxTimesOut
    <3>3. Listens'
      BY <1>1, <1>6, <2>2, <3>2 DEF Listens
    <3> QED
      BY <1>1, <1>2, <1>6, <3>3 DEF PhaseInv
  <2>4. ASSUME NEW f \in RxFrames \cup {Garbled}, LoraRxDone(f)
        PROVE  PhaseInv'
    <3> DEFINE g == IF f = Garbled THEN {"RX_DONE", "CRC_ERROR"} ELSE {"RX_DONE"}
    <3>1. irqFlags \cup (g \cap (irqMask \cup FskIrqs)) = g
      BY <2>1 DEF ArmedRx
    <3>2. SetLines(chipModem, g, dio0) /\ opMode' = "STDBY" /\ fifo' = f
      BY <2>1, <2>4, <3>1 DEF LoraRxDone, Latch, SetFlags
    <3>3. ~High("DIO0", chipModem, irqFlags, dio0) /\ High("DIO0", chipModem, g, dio0)
      BY <2>1 DEF High, LoraSet, ArmedRx
    <3>4. irqFlags' = g /\ events' = <<"DIO0">>
      BY <1>3, <2>1, <3>2, <3>3, RisingLine
    <3>5. Listens'
      BY <1>1, <1>6, <2>2, <3>2, <3>4 DEF Listens
    <3> QED
      BY <1>1, <1>2, <1>6, <3>5 DEF PhaseInv
  <2> QED
    BY <2>1, <2>3, <2>4
       DEF Received, RxComplete, ChipReceives, FskRxDone, CadDone, LoraSet
<1> QED
  BY <1>1, <1>4, <1>5, <1>6 DEF PhaseInv, Sends, OnAir, TellsTxDone, Opens, Reads, Rests

\* A restart forgets the packet, and waits for the reset.
LEMMA RestartPolite ==
  ASSUME PhaseInv, Restart
  PROVE  PhaseInv'
BY DEF Restart, Restart127x, Forgets, Statics, PhaseInv, Unsettles, Unsettled, NoPacket

\* Every step of a device whose calls are heeded.
LEMMA StepPolite ==
  ASSUME WiredDevice, Heeded, DriverInv, PhaseInv, [Next]_vars
  PROVE  PhaseInv'
<1>1. CASE UNCHANGED vars
  BY <1>1, PoliteStutter DEF vars, longfiVars, clientVars
<1> QED
  BY <1>1, ClientPolite, DispatchPolite, RunPolite, ReturnPolite, TransmittedPolite,
     ReceivedPolite, RestartPolite DEF Next, Library

\* At power on the chip rests, or, for what a restart will not know, may not.
LEMMA InitIsPolite == Init => PhaseInv
<1> SUFFICES ASSUME Init PROVE PhaseInv
  OBVIOUS
<1>1. /\ State = "IDLE" /\ continuous = {} /\ script = <<>> /\ ~booted
      /\ irqFlags = {} /\ opMode = "STDBY" /\ at = "main" /\ NoPacket
  BY DEF Init, DriverInit, ChipInit, LibraryInit, Statics, PowerOn, NoPacket
<1>2. script # <<"OpReceiver", "Sleep">> /\ ~LoraSet
  BY <1>1 DEF LoraSet
<1> QED
  BY <1>1, <1>2 DEF PhaseInv, Unsettles, Unsettled, Calm, Rests

-----------------------------------------------------------------------------
(* The client that never listens.                                          *)

\* While its packet is out the device is busy with it.
LEMMA BusyPhases ==
  ASSUME PhaseInv', sending' # NoFrame
  PROVE  UplinkInv'
<1>1. <<>> \notin RxScripts
  BY ScriptsRun
<1>2. \A s \in TxScripts : s \notin RxScripts
  BY DEF TxScripts, RxScripts
<1>3. {<<"ClearTxDone", "TxDone">>, <<"TxDone">>, <<"Sleep">>} \cap RxScripts = {}
  BY DEF RxScripts
<1> QED
  BY <1>1, <1>2, <1>3 DEF PhaseInv, UplinkInv, Unsettles, Calm, Opens, Listens, Reads, NoPacket,
     Sends, OnAir, TellsTxDone

\* Else it is at rest, with nothing to dispatch.
LEMMA IdlePhase ==
  ASSUME UplinkDevice, PhaseInv, UplinkInv, sending = NoFrame
  PROVE  Calm /\ ~Unsettled /\ State = "IDLE" /\ events = <<>>
<1>1. ~Unsettled
  BY DEF UplinkDevice, Unsettled
<1>2. Calm
  BY <1>1 DEF PhaseInv, UplinkInv, Unsettles, Sends, OnAir, TellsTxDone, Opens, Listens, Reads
<1> QED
  BY <1>1, <1>2 DEF Calm, UplinkInv

LEMMA UplinkHeeds ==
  ASSUME UplinkDevice, PhaseInv, UplinkInv
  PROVE  Heeded
BY IdlePhase DEF Heeded, MayCall, Free

\* No step of a quiet call starts to listen.
LEMMA CalmTails ==
  \A s \in SetupScripts \cup CalmScripts :
    s # <<>> => /\ Head(s) \in {"Reset", "OpSleep", "OpReceiver", "Sleep", "ModemFsk",
                                "ModemLora", "Idle", "MaskAll"}
                /\ Tail(s) \notin RxScripts
<1>1. \A s \in SetupScripts \cup CalmScripts :
        s # <<>> => Head(s) \in {"Reset", "OpSleep", "OpReceiver", "Sleep", "ModemFsk",
                                 "ModemLora", "Idle", "MaskAll"}
  <2>1. \A s \in SetupScripts : Head(s) \in {"Reset", "OpSleep", "ModemFsk", "ModemLora"}
    BY DEF SetupScripts
  <2>2. \A s \in CalmScripts :
          s # <<>> => Head(s) \in {"Idle", "Sleep", "ModemLora", "MaskAll", "OpReceiver"}
    BY DEF CalmScripts
  <2> QED
    BY <2>1, <2>2
<1>2. \A s \in SetupScripts \cup CalmScripts :
        s # <<>> => Len(Tail(s)) = 0 \/ Tail(s)[1] \notin {"IrqsRx", "Receive"}
  <2>1. \A s \in SetupScripts : Tail(s)[1] \notin {"IrqsRx", "Receive"}
    BY DEF SetupScripts
  <2>2. \A s \in CalmScripts :
          s # <<>> => Len(Tail(s)) = 0 \/ Tail(s)[1] \notin {"IrqsRx", "Receive"}
    BY DEF CalmScripts
  <2> QED
    BY <2>1, <2>2
<1>3. \A t \in RxScripts : Len(t) # 0 /\ t[1] \in {"IrqsRx", "Receive"}
  BY DEF RxScripts
<1> QED
  BY <1>1, <1>2, <1>3

\* Every step of its device, whenever it calls.
LEMMA StepUplink ==
  ASSUME UplinkDevice, DriverInv, PhaseInv, UplinkInv, [Next]_vars
  PROVE  PhaseInv' /\ UplinkInv'
<1>1. PhaseInv'
  BY UplinkHeeds, StepPolite DEF UplinkDevice
<1>2. CASE sending' # NoFrame
  BY <1>1, <1>2, BusyPhases
<1>3. CASE sending' = NoFrame
  <2> SUFFICES UplinkInv'
    BY <1>1
  <2>1. ASSUME UNCHANGED <<State, events>>, script' \notin RxScripts
        PROVE  UplinkInv'
    BY <2>1 DEF UplinkInv
  <2>2. CASE RunStep \/ RunCallback
    <3>1. sending = NoFrame
      BY <1>3, <2>2, CommandDoes DEF RunStep, RunCallback, longfiVars, clientVars
    <3>2. Calm /\ events = <<>> /\ State = "IDLE" /\ script # <<>> /\ continuous = {}
      BY <2>2, <3>1, IdlePhase, NextStep DEF PhaseInv
    <3>3. script \in SetupScripts \cup CalmScripts
      BY <2>2, <3>2, NextStep DEF Calm, DriverInv
    <3>4. script' = Tail(script) /\ Aside /\ State' = State
      BY <2>2, <3>2, <3>3, CalmTails, QuietSteps DEF DriverInv, UplinkDevice, WiredDevice, Calm
    <3> QED
      BY <2>1, <3>2, <3>3, <3>4, CalmTails DEF Aside
  <2>3. CASE longfi_init
    <3>1. script' = InitScript \o SleepScript
      BY <2>3 DEF longfi_init, Begin
    <3>2. script' \notin RxScripts
      BY <3>1, InitJoined DEF RxScripts
    <3> QED
      BY <2>1, <2>3, <3>2 DEF longfi_init, chipVars, settings
  <2>4. CASE longfi_get_random \/ configure_rx
    <3>1. script' \in {RandomScript, RxConfigScript("LORA")}
      BY <2>4 DEF longfi_get_random, configure_rx, Simple, SetRxConfig, Begin
    <3>2. script' \notin RxScripts
      BY <3>1 DEF RxScripts, RandomScript, RxConfigScript, Pick, D76!RandomScript,
                  D72!RandomScript, D76!SetRxConfigScript, D72!SetRxConfigScript
    <3> QED
      BY <2>1, <2>4, <3>2
         DEF longfi_get_random, configure_rx, Simple, SetRxConfig, chipVars, settings
  <2>5. CASE longfi_get_rx \/ (\E len \in BufferLens : longfi_set_buf(len)) \/ HandleReturn
             \/ UNCHANGED vars
    BY <2>1, <2>5 DEF UplinkInv, longfi_get_rx, longfi_set_buf, HandleReturn, vars, radioVars,
                      chipVars, driverVars, settings
  <2>6. CASE HandleTxDone
    <3>1. script' \notin RxScripts
      BY <2>6 DEF HandleTxDone, Begin, RxScripts, SleepScript, Pick, D76!SetSleepScript,
                  D72!SetSleepScript
    <3> QED
      BY <2>1, <2>6, <3>1 DEF HandleTxDone, chipVars, settings
  <2>7. CASE longfi_rx \/ Restart
    BY <2>7 DEF longfi_rx, Simple, CallOk, Restart, Restart127x, UplinkDevice
  <2>8. ASSUME NEW op, NEW f \in TxFrames, Transmits(op, f)
        PROVE  UplinkInv'
    BY <1>3, <2>8, FramesAssumption DEF Transmits, SetsOut
  <2>9. CASE longfi_handle_event
    <3>1. sending = NoFrame /\ events # <<>>
      BY <1>3, <2>9 DEF longfi_handle_event, Dispatches
    <3> QED
      BY <3>1, IdlePhase
  <2>10. CASE Transmitted
    <3>1. sending = NoFrame /\ opMode = "TX"
      BY <1>3, <2>10
         DEF Transmitted, Airs, TxComplete, ChipSends, LoraTxDone, FskTxDone
    <3> QED
      BY <3>1, IdlePhase DEF Calm, Rests
  <2>11. CASE Received
    <3>1. sending = NoFrame
      BY <1>3, <2>11 DEF Received, longfiVars, clientVars
    <3> QED
      BY <2>1, <2>11, <3>1, IdlePhase, CalmHears DEF UplinkInv, UplinkDevice
  <2> QED
    BY <2>2, <2>3, <2>4, <2>5, <2>6, <2>7, <2>8, <2>9, <2>10, <2>11, LongFiAssumption
       DEF Next, ClientCall, Library, longfi_send, longfi_rf_test
<1> QED
  BY <1>1, <1>2, <1>3

-----------------------------------------------------------------------------
(* What is received.                                                       *)

\* The payload is copied only after its checksum was found right.
LEMMA CopiesGenuine ==
  ASSUME DriverInv, PhaseInv, script # <<>>, Head(script) = "RxDone"
  PROVE  fifo \in RxFrames
<1>1. \A s \in SetupScripts \cup TxScripts \cup RxScripts : Head(s) # "RxDone"
  <2>1. \A s \in SetupScripts : Head(s) # "RxDone"
    BY DEF SetupScripts
  <2>2. \A s \in TxScripts : Head(s) # "RxDone"
    BY DEF TxScripts
  <2>3. \A s \in RxScripts : Head(s) # "RxDone"
    BY DEF RxScripts
  <2> QED
    BY <2>1, <2>2, <2>3
<1>2. \A s \in CalmScripts : s # <<>> => Head(s) # "RxDone"
  BY DEF CalmScripts
<1>3. ~Unsettles
  <2>1. script # <<"Reset", "OpSleep", "ModemFsk", "ModemLora", "Idle", "Sleep">>
    OBVIOUS
  <2> QED
    BY <2>1 DEF Unsettles
<1>4. ~Calm
  <2>1. script \notin SetupScripts \cup CalmScripts
    BY <1>1, <1>2
  <2> QED
    BY <2>1 DEF Calm, DriverInv
<1>5. ~Sends /\ ~OnAir /\ ~Opens /\ ~Listens
  BY <1>1 DEF Sends, OnAir, Opens, Listens
<1>6. ~TellsTxDone
  <2>1. script \notin {<<"ClearTxDone", "TxDone">>, <<"TxDone">>, <<"Sleep">>, <<>>}
    OBVIOUS
  <2> QED
    BY <2>1 DEF TellsTxDone
<1>7. script # <<"ClearRxDone", "CrcError", "RxDone">> /\ script # <<"CrcError", "RxDone">>
  OBVIOUS
<1> QED
  BY <1>3, <1>4, <1>5, <1>6, <1>7 DEF PhaseInv, Reads

\* What is announced was copied so, and stays until it is fetched.
LEMMA StepGenuine ==
  ASSUME PromptClient, DriverInv, PhaseInv, LibraryInv, GenuineInv, [Next]_vars
  PROVE  GenuineInv'
<1> USE DEF GenuineInv, Announced, LenOfRx, bufferVars, clientVars
<1>1. CASE ClientCall
  <2>1. ASSUME NEW len, LendBuffer(len)
        PROVE  GenuineInv'
    <3>1. Announced => rx_len <= 0
      BY <2>1 DEF LibraryInv, Fits, LendBuffer
    <3>2. rx_len \in Nat
      BY DEF LibraryInv, LibraryTypeOK
    <3> QED
      BY <2>1, <3>1, <3>2 DEF LendBuffer
  <2>2. CASE FetchBuffer
    <3>1. rxEvents' = 0 /\ at' = "main"
      BY <2>2 DEF LibraryInv, LibraryTypeOK, Fits, FetchBuffer
    <3> QED
      BY <3>1
  <2>3. CASE \E what : Asks(what)
    BY <2>3 DEF Asks
  <2>4. CASE \E f : SetsOut(f)
    BY <2>4 DEF SetsOut
  <2> QED
    BY <1>1, <2>1, <2>2, <2>3, <2>4
       DEF ClientCall, longfi_init, longfi_set_buf, longfi_rx, configure_rx, longfi_get_random,
           longfi_send, longfi_rf_test, Transmits, longfi_get_rx
<1>2. CASE longfi_handle_event
  BY <1>2 DEF longfi_handle_event, Dispatches, LibraryInv, LibraryTypeOK
<1>3. CASE RunStep \/ UNCHANGED vars \/ Received
  BY <1>3 DEF RunStep, vars, Received, longfiVars
<1>4. CASE RunCallback
  <2>1. CASE IrqRxDone /\ OnRxDone(fifo)
    <3>1. fifo \in RxFrames
      BY <1>4, <2>1, CopiesGenuine, StepNames, NextStep
    <3>2. CASE LenOfRx(fifo) = 0
      BY <2>1, <3>2 DEF OnRxDone
    <3>3. CASE LenOfRx(fifo) # 0
      BY <2>1, <3>1, <3>3 DEF OnRxDone
    <3> QED
      BY <3>2, <3>3
  <2>2. CASE OnTxDone \/ OnRxError
    BY <1>4, <2>2 DEF RunCallback, OnTxDone, OnRxError
  <2> QED
    BY <1>4, <2>1, <2>2 DEF RunCallback
<1>5. CASE HandleTxDone \/ HandleReturn
  BY <1>5 DEF HandleTxDone, HandleReturn, FinishesTx, ReturnsTxDone, ReturnsRx, ReturnsNone,
              LibraryInv, LibraryTypeOK
<1>6. CASE Transmitted
  BY <1>6 DEF Transmitted, Airs
<1>7. CASE Restart
  BY <1>7 DEF Restart, Forgets
<1> QED
  BY <1>1, <1>2, <1>3, <1>4, <1>5, <1>6, <1>7 DEF Next, Library

-----------------------------------------------------------------------------
(* The service.                                                            *)

\* The states of the service, one by one.
LEMMA Statuses ==
  /\ ~booted => StatusOf(booted) = "off"
  /\ booted /\ sending = NoFrame => StatusOf(booted) = "ready"
  /\ booted /\ sending # NoFrame /\ airings = 0 => StatusOf(booted) = "sending"
  /\ booted /\ sending # NoFrame /\ airings = 1 => StatusOf(booted) = "aired"
BY DEF StatusOf

\* A step that changes nothing the client can see.
LEMMA ServiceUnchanged ==
  ASSUME UNCHANGED <<booted, sending, airings, heard>>
  PROVE  UNCHANGED Service!serviceVars
<1>1. StatusOf(booted)' = StatusOf(booted)
  BY DEF StatusOf
<1> QED
  BY <1>1 DEF Service!serviceVars

\* A packet completes its transmission once, as it was sent, and its client is
\* told once.
LEMMA PoliteEnds ==
  ASSUME PhaseInv
  PROVE  /\ opMode = "TX" /\ sending # NoFrame => booted /\ airings = 0 /\ fifo = sending
         /\ at = "txdone" => booted /\ sending # NoFrame /\ airings = 1
<1>1. opMode = "TX" /\ sending # NoFrame => OnAir
  BY DEF PhaseInv, Unsettles, Calm, Sends, TellsTxDone, Opens, Listens, Reads, Rests, NoPacket
<1>2. at = "txdone" => TellsTxDone
  BY DEF PhaseInv, Unsettles, Calm, Sends, OnAir, Opens, Listens, Reads
<1> QED
  BY <1>1, <1>2 DEF OnAir, TellsTxDone, LoraSet

\* Every step of such a device is a step of the service, or one the
\* client does not see.
LEMMA StepServes ==
  ASSUME DriverTypeOK, PhaseInv, [Next]_vars
  PROVE  [Service!Next]_(Service!serviceVars)
<1>1. CASE RunStep \/ RunCallback
  <2>1. UNCHANGED booted /\ UNCHANGED clientVars
    BY <1>1, CommandDoes DEF RunStep, RunCallback, Command, Callback, longfiVars
  <2> QED
    BY <2>1, ServiceUnchanged DEF clientVars
<1>2. CASE longfi_init
  <2>1. booted' /\ sending = NoFrame /\ UNCHANGED <<sending, airings, heard>>
    BY <1>2 DEF longfi_init, Asks, MayCall, Free
  <2>2. StatusOf(booted)' = "ready"
    BY <2>1 DEF StatusOf
  <2>3. CASE booted
    <3>1. booted' = booted
      BY <1>2, <2>3 DEF longfi_init
    <3> QED
      BY <2>1, <3>1, ServiceUnchanged
  <2>4. CASE ~booted
    BY <2>1, <2>2, <2>4, Statuses DEF Service!Boot, Service!Next
  <2> QED
    BY <2>3, <2>4
<1>3. ASSUME NEW op, NEW f \in TxFrames, Transmits(op, f)
      PROVE  [Service!Next]_(Service!serviceVars)
  <2>1. /\ booted /\ booted' /\ sending = NoFrame
        /\ sending' = f /\ airings' = 0 /\ UNCHANGED heard /\ f # NoFrame
    BY <1>3, FramesAssumption DEF Transmits, MayCall, Free, CallOk, SetsOut
  <2>2. StatusOf(booted)' = "sending"
    BY <2>1 DEF StatusOf
  <2>3. Service!Send(f)
    BY <2>1, <2>2, Statuses DEF Service!Send
  <2> QED
    BY <2>3 DEF Service!Next
<1>4. ASSUME NEW len, longfi_set_buf(len)
      PROVE  [Service!Next]_(Service!serviceVars)
  BY <1>4, ServiceUnchanged DEF longfi_set_buf, LendBuffer, clientVars, radioVars, driverVars
<1>5. CASE longfi_rx \/ longfi_get_random \/ configure_rx
  BY <1>5, ServiceUnchanged
     DEF longfi_rx, longfi_get_random, configure_rx, Simple, SetRxConfig, Asks, hostVars
<1>6. CASE longfi_get_rx \/ longfi_handle_event
  BY <1>6, ServiceUnchanged
     DEF longfi_get_rx, longfi_handle_event, FetchBuffer, Dispatch, Dispatches, hostVars,
         radioVars, driverVars
<1>7. CASE HandleTxDone
  BY <1>7, ServiceUnchanged DEF HandleTxDone, FinishesTx, clientVars, hostVars
<1>8. CASE HandleReturn
  <2>1. UNCHANGED booted
    BY <1>8 DEF HandleReturn, radioVars, driverVars
  <2>2. CASE ReturnsTxDone
    <3>1. at = "txdone" /\ sending' = NoFrame /\ UNCHANGED heard
      BY <2>2 DEF ReturnsTxDone
    <3>2. booted /\ sending # NoFrame /\ airings = 1
      BY <3>1, PoliteEnds
    <3>3. StatusOf(booted)' = "ready"
      BY <2>1, <3>1, <3>2 DEF StatusOf
    <3>4. Service!TxDone
      BY <3>1, <3>2, <3>3, Statuses DEF Service!TxDone
    <3> QED
      BY <3>4 DEF Service!Next
  <2>3. CASE ReturnsRx \/ ReturnsNone
    BY <2>1, <2>3, ServiceUnchanged DEF ReturnsRx, ReturnsNone
  <2> QED
    BY <1>8, <2>2, <2>3 DEF HandleReturn
<1>9. CASE Transmitted
  <2>1. /\ opMode = "TX" /\ UNCHANGED <<booted, sending>>
        /\ IF sending = NoFrame THEN UNCHANGED <<airings, heard>>
           ELSE /\ airings' = IF airings < MaxAirings THEN airings + 1 ELSE airings
                /\ heard' = fifo
    BY <1>9 DEF Transmitted, TxComplete, ChipSends, LoraTxDone, FskTxDone, Airs, driverVars
  <2>2. CASE sending = NoFrame
    BY <2>1, <2>2, ServiceUnchanged
  <2>3. CASE sending # NoFrame
    <3>1. booted /\ airings = 0 /\ fifo = sending
      BY <2>1, <2>3, PoliteEnds
    <3>2. airings' = 1
      BY <2>1, <2>3, <3>1 DEF MaxAirings
    <3>3. StatusOf(booted)' = "aired"
      BY <2>1, <2>3, <3>1, <3>2 DEF StatusOf
    <3>4. Service!Air
      BY <2>1, <2>3, <3>1, <3>3, Statuses DEF Service!Air
    <3> QED
      BY <3>4 DEF Service!Next
  <2> QED
    BY <2>2, <2>3
<1>10. CASE Received \/ UNCHANGED vars
  BY <1>10, ServiceUnchanged
     DEF Received, RxComplete, vars, longfiVars, clientVars, radioVars, driverVars
<1>11. CASE Restart
  <2>1. ~booted' /\ sending' = NoFrame /\ UNCHANGED heard
    BY <1>11 DEF Restart, Restart127x, Forgets
  <2>2. StatusOf(booted)' = "off"
    BY <2>1 DEF StatusOf
  <2> QED
    BY <2>1, <2>2 DEF Service!Restart, Service!Next
<1> QED
  BY <1>1, <1>2, <1>3, <1>4, <1>5, <1>6, <1>7, <1>8, <1>9, <1>10, <1>11, LongFiAssumption
     DEF Next, ClientCall, Library, longfi_send, longfi_rf_test

\* At power on the service is off.
LEMMA InitServes == Init => Service!Init
BY Statuses DEF Init, DriverInit, LibraryInit, Service!Init

-----------------------------------------------------------------------------
(* How far a packet is.                                                    *)

\* While a packet is out: before its transmission, after it, and in the handler.
LEMMA PacketPhases ==
  ASSUME DriverInv, PhaseInv, sending # NoFrame
  PROVE  /\ Len(script) \in Nat /\ PacketSteps \in Nat /\ booted /\ continuous = {}
         /\ \/ Sends /\ PacketSteps = 6 + Len(script)
            \/ OnAir /\ opMode = "TX" /\ airings = 0 /\ PacketSteps = 6 /\ ~Unsettled
            \/ OnAir /\ opMode = "STDBY" /\ PacketSteps = 5 /\ ~Unsettled
            \/ TellsTxDone /\ at = "dispatch" /\ PacketSteps = 2 + Len(script)
            \/ TellsTxDone /\ at = "txdone" /\ PacketSteps = Len(script)
<1>1. script \in Seq(Commands) /\ Len(script) \in Nat
  BY DEF DriverInv, DriverTypeOK
<1>2. ~Unsettles /\ ~Unsettled /\ (Sends \/ OnAir \/ TellsTxDone)
  BY DEF PhaseInv, Unsettles, Calm, Opens, Listens, Reads, NoPacket
<1> QED
  BY <1>1, <1>2 DEF PhaseInv, Sends, OnAir, TellsTxDone, PacketSteps, StepsLeft, LoraSet

\* A step of the driver shortens the call.
LEMMA RunProgresses ==
  ASSUME DriverInv, PhaseInv, sending # NoFrame, RunStep \/ RunCallback
  PROVE  PacketSteps' \in Nat /\ PacketSteps' < PacketSteps
<1>1. script # <<>> /\ (Sends \/ TellsTxDone)
  BY NextStep, PacketPhases DEF OnAir
<1>2. Head(script) # "CrcError"
  <2>1. \A s \in TxScripts : Head(s) # "CrcError"
    BY DEF TxScripts
  <2>2. \A s \in {<<"ClearTxDone", "TxDone">>, <<"TxDone">>, <<"Sleep">>} : Head(s) # "CrcError"
    OBVIOUS
  <2> QED
    BY <1>1, <2>1, <2>2 DEF Sends, TellsTxDone
<1>3. script' = Tail(script)
  <2>1. Head(script) # "FskCrcError"
    <3>1. \A s \in TxScripts : Head(s) # "FskCrcError"
      BY DEF TxScripts
    <3>2. \A s \in {<<"ClearTxDone", "TxDone">>, <<"TxDone">>, <<"Sleep">>} :
            Head(s) # "FskCrcError"
      OBVIOUS
    <3> QED
      BY <1>1, <3>1, <3>2 DEF Sends, TellsTxDone
  <2> QED
    BY <1>2, <2>1, CommandPops DEF RunStep, RunCallback, Command, Callback
<1>4. UNCHANGED <<at, airings>>
  BY DEF RunStep, RunCallback, longfiVars, clientVars
<1>5. Len(script') = Len(script) - 1 /\ Len(script) \in Nat
  BY <1>1, <1>3 DEF DriverInv, DriverTypeOK
<1> QED
  BY <1>1, <1>4, <1>5 DEF PacketSteps, StepsLeft, Sends, TellsTxDone

\* So does every other step of the device; the rest leaves the packet where it is.
LEMMA StepProgresses ==
  ASSUME DriverInv, PhaseInv, sending # NoFrame, sending' = sending, Next
  PROVE  /\ PacketSteps' \leq PacketSteps
         /\ Library \/ longfi_handle_event \/ Transmitted => PacketSteps' < PacketSteps
<1>1. PacketSteps \in Nat
  BY PacketPhases
<1>2. ASSUME RunStep \/ RunCallback PROVE PacketSteps' \in Nat /\ PacketSteps' < PacketSteps
  BY <1>2, RunProgresses
<1>3. ASSUME HandleTxDone PROVE PacketSteps' \in Nat /\ PacketSteps' < PacketSteps
  <2>1. /\ at = "dispatch" /\ at' = "txdone" /\ airings' = airings /\ script = <<>>
        /\ script' = <<"Sleep">>
    BY <1>3 DEF HandleTxDone, FinishesTx, Begin, clientVars, SleepScript, Pick,
                D76!SetSleepScript, D72!SetSleepScript
  <2>2. airings = 1 /\ PacketSteps = 2
    BY <2>1, PacketPhases DEF Sends, OnAir, TellsTxDone
  <2> QED
    BY <2>1, <2>2 DEF PacketSteps, StepsLeft
<1>4. ASSUME HandleReturn PROVE PacketSteps' \in Nat /\ PacketSteps' < PacketSteps
  <2>1. at = "dispatch" /\ script = <<>> /\ cur_event # "TxDone"
    BY <1>4 DEF HandleReturn, ReturnsTxDone, ReturnsRx, ReturnsNone
  <2> QED
    BY <2>1, PacketPhases DEF Sends, OnAir, TellsTxDone
<1>5. ASSUME longfi_handle_event PROVE PacketSteps' \in Nat /\ PacketSteps' < PacketSteps
  <2>1. /\ events # <<>> /\ at' = "dispatch" /\ airings' = airings
        /\ UNCHANGED <<State, ModemSet>>
        /\ script' = HandlerScript(HandlerOf(Head(events)))
    BY <1>5 DEF longfi_handle_event, Dispatch, Begin, Dispatches, settings
  <2>2. OnAir /\ opMode = "STDBY" /\ PacketSteps = 5 /\ airings = 1
    BY <2>1, PacketPhases DEF Sends, OnAir, TellsTxDone
  <2>3. HandlerOf(Head(events)) = "DIO0" /\ State = "TX" /\ ModemSet = "LORA"
    BY <2>2 DEF OnAir, HandlerOf, LoraSet
  <2>4. script' = <<"ClearTxDone", "TxDone">>
    BY <2>1, <2>3 DEF HandlerScript, Pick, D76!Dio0Script, D72!Dio0Script
  <2>5. Len(script') = 2
    BY <2>4
  <2>6. airings' = 1 /\ at' = "dispatch"
    BY <2>1, <2>2
  <2>7. PacketSteps' = 4
    BY <2>5, <2>6 DEF PacketSteps, StepsLeft
  <2> QED
    BY <2>2, <2>7
<1>6. ASSUME Transmitted PROVE PacketSteps' \in Nat /\ PacketSteps' < PacketSteps
  <2>1. opMode = "TX" /\ UNCHANGED <<at, script>>
        /\ airings' = IF airings < MaxAirings THEN airings + 1 ELSE airings
    BY <1>6 DEF Transmitted, TxComplete, ChipSends, LoraTxDone, FskTxDone, Airs, driverVars
  <2>2. PacketSteps = 6 /\ airings = 0 /\ at = "main"
    BY <2>1, PacketPhases DEF Sends, OnAir, TellsTxDone, Rests
  <2> QED
    BY <2>1, <2>2 DEF PacketSteps, StepsLeft, MaxAirings
<1>7. CASE Received
  <2>1. opMode \in {"RX", "RX_SINGLE", "CAD"}
    BY <1>7 DEF Received, RxComplete, ChipReceives, LoraRxDone, FskRxDone, RxTimesOut, CadDone
  <2> QED
    BY <2>1, PacketPhases DEF Sends, OnAir, TellsTxDone, Rests
<1>8. ASSUME longfi_get_rx \/ \E len \in BufferLens : longfi_set_buf(len)
      PROVE  PacketSteps' = PacketSteps
  <2>1. UNCHANGED <<at, airings, script>>
    BY <1>8 DEF longfi_get_rx, longfi_set_buf, FetchBuffer, LendBuffer, clientVars, radioVars,
                driverVars
  <2> QED
    BY <2>1 DEF PacketSteps, StepsLeft
<1>9. CASE longfi_init \/ longfi_rx \/ configure_rx \/ longfi_get_random \/ longfi_rf_test
             \/ \E f \in TxFrames \ {TestFrame} : longfi_send(f)
  BY <1>9 DEF longfi_init, longfi_rx, configure_rx, longfi_get_random, longfi_rf_test,
              longfi_send, Transmits, MayCall, Free
<1>10. CASE Restart
  BY <1>10 DEF Restart, Forgets
<1> QED
  BY <1>1, <1>2, <1>3, <1>4, <1>5, <1>6, <1>7, <1>8, <1>9, <1>10 DEF Next, ClientCall, Library

-----------------------------------------------------------------------------
(* Theorems about the polite client, and the client that never listens.    *)

\* The device of a polite client is always in one of the phases above, whatever
\* it sends and receives and whenever it restarts.
THEOREM LongFi127xPoliteInvariant ==
  ASSUME PoliteDevice
  PROVE  Spec => []PhaseInv
<1>1. Heeded
  BY DEF PoliteDevice, Heeded, MayCall
<1>2. LongFiInv /\ PhaseInv /\ [Next]_vars => PhaseInv'
  BY <1>1, StepPolite DEF LongFiInv, PoliteDevice
<1> QED
  BY <1>2, InitIsPolite, LongFi127xInvariant, PTL DEF Spec

\* So is that of a client that never listens, without asking the radio for its
\* status or waiting until every event is dispatched: nothing is ever left to
\* dispatch but the end of its own transmission.
THEOREM LongFi127xUplinkInvariant ==
  ASSUME UplinkDevice
  PROVE  Spec => [](PhaseInv /\ UplinkInv)
<1>1. Init => PhaseInv /\ UplinkInv
  <2>1. Init => UplinkInv
    BY ScriptsRun
       DEF UplinkInv, Init, DriverInit, ChipInit, LibraryInit, Statics, PowerOn
  <2> QED
    BY <2>1, InitIsPolite
<1>2. LongFiInv /\ PhaseInv /\ UplinkInv /\ [Next]_vars => PhaseInv' /\ UplinkInv'
  BY StepUplink DEF LongFiInv
<1> QED
  BY <1>1, <1>2, LongFi127xInvariant, PTL DEF Spec

LEMMA Phases ==
  ASSUME PoliteDevice \/ UplinkDevice
  PROVE  Spec => []PhaseInv
<1>1. CASE PoliteDevice
  BY <1>1, LongFi127xPoliteInvariant
<1>2. CASE UplinkDevice
  <2>1. Spec => [](PhaseInv /\ UplinkInv)
    BY <1>2, LongFi127xUplinkInvariant
  <2> QED
    BY <2>1, PTL
<1> QED
  BY <1>1, <1>2

\* While such a client waits for TxDone with nothing to dispatch, the chip
\* still transmits: the end of a transmission is never lost.
THEOREM LongFi127xTxDoneNotLost ==
  ASSUME PoliteDevice \/ UplinkDevice
  PROVE  Spec => []TxDoneNotLost
<1>1. ASSUME PhaseInv PROVE TxDoneNotLost
  <2> SUFFICES ASSUME Drained, sending # NoFrame PROVE opMode = "TX"
    BY DEF TxDoneNotLost
  <2> QED
    BY <1>1, ScriptsRun
       DEF Drained, PhaseInv, Unsettles, Calm, NoPacket, Sends, OnAir, TellsTxDone, Opens,
           Listens, Reads
<1> QED
  BY <1>1, Phases, PTL

\* What its chip transmits is the packet of its last longfi_send,
\* though receptions use the same buffer.
THEOREM LongFi127xTransmitsThePacket ==
  ASSUME PoliteDevice \/ UplinkDevice
  PROVE  Spec => []TransmitsThePacket
<1>1. ASSUME PhaseInv PROVE TransmitsThePacket
  <2> SUFFICES ASSUME InitDone, opMode = "TX" PROVE chipModem = "LORA" /\ fifo = sending
    BY DEF TransmitsThePacket
  <2>1. ~Unsettles
    <3> SUFFICES ASSUME Unsettles PROVE FALSE
      OBVIOUS
    <3>1. booted /\ script = <<"Reset", "OpSleep", "ModemFsk", "ModemLora", "Idle", "Sleep">>
      BY DEF InitDone, Unsettles, Unsettled
    <3>2. script[5] = "Idle" /\ 5 \in DOMAIN script
      BY <3>1
    <3> QED
      BY <3>2 DEF InitDone, Remaining
  <2> QED
    BY <1>1, <2>1 DEF PhaseInv, Calm, Sends, OnAir, TellsTxDone, Opens, Listens, Reads, Rests,
                      LoraSet
<1> QED
  BY <1>1, Phases, PTL

\* It is told of a completed transmission only after one.
THEOREM LongFi127xTxDoneEarned ==
  ASSUME PoliteDevice \/ UplinkDevice
  PROVE  Spec => []TxDoneEarned
<1>1. PhaseInv => TxDoneEarned
  BY PoliteEnds DEF TxDoneEarned
<1> QED
  BY <1>1, Phases, PTL

\* The bytes of an announced packet are another station's, all of them if the
\* buffer has room: a frame with a wrong checksum or the device's own packet is
\* never taken for one.
THEOREM LongFi127xPacketWasReceived ==
  ASSUME PoliteDevice \/ UplinkDevice, PromptClient
  PROVE  Spec => []PacketWasReceived
<1>1. Init => GenuineInv
  BY DEF Init, LibraryInit, GenuineInv, Announced
<1>2. LongFiInv /\ PhaseInv /\ GenuineInv /\ [Next]_vars => GenuineInv'
  BY StepGenuine DEF LongFiInv
<1>3. LongFiInv /\ GenuineInv => PacketWasReceived
  <2>1. LongFiInv => LibraryTypeOK /\ FrameLen \in [Frames -> Nat]
    BY LongFiAssumption DEF LongFiInv, LibraryInv
  <2> QED
    BY <2>1 DEF GenuineInv, Announced, PacketWasReceived, LibraryTypeOK, LenOfRx
<1> QED
  BY <1>1, <1>2, <1>3, LongFi127xInvariant, Phases, PTL DEF Spec

\* The device of such a client implements the safety part of LongFiService:
\* every packet is put on the air as it is, at most once, before its one
\* ClientEvent_TxDone.
THEOREM LongFi127xImplementsService ==
  ASSUME PoliteDevice \/ UplinkDevice
  PROVE  Spec => Service!Spec
<1>1. LongFiInv /\ PhaseInv /\ [Next]_vars => [Service!Next]_(Service!serviceVars)
  BY StepServes DEF LongFiInv, DriverInv
<1> QED
  BY <1>1, InitServes, LongFi127xInvariant, Phases, PTL
     DEF Spec, Service!Spec

\* A packet that is out comes nearer to its ClientEvent_TxDone with every step
\* the device takes, and no other step takes it back: eleven of them, at most,
\* are left when longfi_send returns.
THEOREM LongFi127xPacketProgresses ==
  ASSUME PoliteDevice \/ UplinkDevice
  PROVE  Spec => PacketProgresses
<1>1. ASSUME LongFiInv, PhaseInv, [Next]_vars
      PROVE  [sending # NoFrame /\ sending' = sending =>
                /\ PacketSteps' \leq PacketSteps
                /\ Library \/ longfi_handle_event \/ Transmitted => PacketSteps' < PacketSteps]_vars
  BY <1>1, StepProgresses DEF LongFiInv
<1> QED
  BY <1>1, LongFi127xInvariant, Phases, PTL DEF Spec, PacketProgresses
=============================================================================
