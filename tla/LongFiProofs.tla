---------------------------- MODULE LongFiProofs ----------------------------
(***************************************************************************)
(* The library of LongFi on the driver, for every set of packets, buffers  *)
(* and calls, however long events wait: its variables keep their types, no *)
(* command waits for a sleeping chip, and DIO1 is never lost.              *)
(*                                                                         *)
(* A step of the library is a command, a step of the chip, the start of a  *)
(* call, a restart, or one that leaves the radio alone; the first four are *)
(* covered by the lemmas of SX126xProofs.                                  *)
(***************************************************************************)
EXTENDS LongFi, SX126xProofs, LongFiLibraryProofs

\* The driver's invariant beside the library's.
LongFiInv == DriverInv /\ LibraryInv

\* What longfi.c sends as one call, and what longfi_init runs.
LEMMA LongFiScripts ==
  /\ Startable(InitScript \o SleepScript)
  /\ Startable(SetTxConfigScript("LORA") \o SetChannelScript \o SendScript)
<1>1. /\ InitScript # <<>>
      /\ SetTxConfigScript("LORA") # <<>>
      /\ SetTxConfigScript("LORA") \o SetChannelScript # <<>>
  BY DEF InitScript, SetTxConfigScript, SetChannelScript
<1> QED
  BY <1>1, ScriptsStartable, ConcatStartable

-----------------------------------------------------------------------------
(* The driver's invariant.                                                 *)

\* The start of a call that leaves the interrupts alone.
LEMMA QuietStart ==
  ASSUME DriverInv, NEW s, Startable(s), Begin(s),
         UNCHANGED <<chipMode, chipIrq, irqMask, pending, OperatingMode, booted>>
  PROVE  Awake' /\ EdgeNotLost'
BY CallStarts DEF DriverInv, Begin

\* Every call of the client keeps the driver's invariant.
LEMMA ClientKeepsAwake ==
  ASSUME DriverInv, ClientCall \/ longfi_handle_event
  PROVE  Awake' /\ EdgeNotLost'
<1> USE DEF chipVars, callVars
<1>1. CASE longfi_init
  <2>1. script' = InitScript \o SleepScript
    BY <1>1 DEF longfi_init, Begin
  <2>2. script'[1] = "Reset" /\ 1 \in DOMAIN script'
    BY <2>1 DEF InitScript, SleepScript
  <2>3. "Reset" \in Remaining'
    BY <2>2 DEF Remaining
  <2> QED
    BY <1>1, <2>1, <2>3, CallStarts, LongFiScripts DEF longfi_init, Begin, DriverInv
<1>2. ASSUME NEW len, longfi_set_buf(len)
      PROVE  Awake' /\ EdgeNotLost'
  BY <1>2, DriverStutter DEF longfi_set_buf, DriverInv
<1>3. CASE longfi_rx
  BY <1>3, QuietStart, ScriptsStartable DEF longfi_rx, Simple
<1>4. ASSUME NEW continuous, configure_rx(continuous)
      PROVE  Awake' /\ EdgeNotLost'
  BY <1>4, QuietStart, ScriptsStartable DEF configure_rx, SetRxConfig
<1>5. CASE longfi_get_random
  BY <1>5, QuietStart, ScriptsStartable DEF longfi_get_random, Simple
<1>6. ASSUME NEW op, NEW f, Transmit(op, f)
      PROVE  Awake' /\ EdgeNotLost'
  BY <1>6, QuietStart, LongFiScripts DEF Transmit
<1>7. CASE longfi_get_rx
  BY <1>7, DriverStutter DEF longfi_get_rx, DriverInv
<1>8. CASE longfi_handle_event
  <2>1. RadioCall
    BY <1>8 DEF longfi_handle_event, RadioCall
  <2> QED
    BY <2>1, CallKeepsInv
<1> QED
  BY <1>1, <1>2, <1>3, <1>4, <1>5, <1>6, <1>7, <1>8 DEF ClientCall, longfi_send, longfi_rf_test

\* So does every other step of the library and of the world around it.
LEMMA StepKeepsAwake ==
  ASSUME DriverInv, [Next]_vars
  PROVE  Awake' /\ EdgeNotLost'
<1> USE DEF DriverInv
<1>1. CASE ClientCall \/ longfi_handle_event
  BY <1>1, ClientKeepsAwake
<1>2. CASE RunCommand \/ RunCallback
  <2>1. Command
    BY <1>2 DEF RunCommand, RunCallback, Command, Callback
  <2> QED
    BY <2>1, CommandAwake, CommandEdge
<1>3. CASE HandleTxDone
  BY <1>3, QuietStart, ScriptsStartable DEF HandleTxDone, chipVars, callVars
<1>4. CASE HandleReturn \/ UNCHANGED vars
  BY <1>4, DriverStutter DEF HandleReturn, vars
<1>5. CASE Transmitted \/ Received
  BY <1>5, ChipAwake, ChipEdge DEF Transmitted, Received
<1>6. CASE Restart
  BY <1>6, RestartStarts DEF Restart
<1> QED
  BY <1>1, <1>2, <1>3, <1>4, <1>5, <1>6 DEF Next, Library

-----------------------------------------------------------------------------
(* Types.                                                                  *)

\* The driver's part of every step.
LEMMA StepKeepsDriverTypes ==
  ASSUME DriverTypeOK, [Next]_vars
  PROVE  DriverTypeOK'
<1>1. ASSUME NEW s, Startable(s), Begin(s),
             UNCHANGED <<chipVars, OperatingMode, PacketType, rxConfig, netCurrent,
                         netPrevious, irqRegs, antSw>>,
             paramsPkt' \in PktTypes, txBuf' \in Frames, booted' \in BOOLEAN
      PROVE  DriverTypeOK'
  BY <1>1 DEF DriverTypeOK, ChipTypeOK, chipVars, rxConfig, Begin, Startable, WellFormed
<1>2. UNCHANGED radioVars => DriverTypeOK'
  BY DEF DriverTypeOK, ChipTypeOK, radioVars, chipVars, driverVars
<1> USE LongFiScripts, ScriptsStartable DEF DriverTypeOK
<1> HIDE DEF DriverTypeOK
<1>3. CASE longfi_init
  BY <1>1, <1>3 DEF longfi_init, DriverTypeOK
<1>4. ASSUME NEW op, NEW s, Startable(s), Simple(op, s)
      PROVE  DriverTypeOK'
  BY <1>1, <1>4 DEF Simple, DriverTypeOK, callVars
<1>5. CASE longfi_rx \/ longfi_get_random
  BY <1>4, <1>5 DEF longfi_rx, longfi_get_random
<1>6. ASSUME NEW continuous \in BOOLEAN, configure_rx(continuous)
      PROVE  DriverTypeOK'
  <2>1. RadioCall
    BY <1>6 DEF configure_rx, RadioCall, PktTypes
  <2> QED
    BY <2>1, CallTypes
<1>7. ASSUME NEW op, NEW f \in TxFrames, Transmit(op, f)
      PROVE  DriverTypeOK'
  BY <1>1, <1>7 DEF Transmit, DriverTypeOK, Frames, PktTypes
<1>8. CASE longfi_handle_event
  <2>1. RadioCall
    BY <1>8 DEF longfi_handle_event, RadioCall
  <2> QED
    BY <2>1, CallTypes
<1>9. CASE RunCommand \/ RunCallback
  <2>1. Command
    BY <1>9 DEF RunCommand, RunCallback, Command, Callback
  <2> QED
    BY <2>1, CommandTypes
<1>10. CASE HandleTxDone
  BY <1>1, <1>10 DEF HandleTxDone, callVars, DriverTypeOK
<1>11. CASE Transmitted \/ Received
  BY <1>11, ChipTypes DEF Transmitted, Received
<1>12. CASE Restart
  BY <1>12, RestartTypes DEF Restart
<1>13. ASSUME NEW len, longfi_set_buf(len)
       PROVE  DriverTypeOK'
  BY <1>2, <1>13 DEF longfi_set_buf
<1>14. CASE longfi_get_rx \/ HandleReturn \/ UNCHANGED vars
  BY <1>2, <1>14 DEF longfi_get_rx, HandleReturn, vars
<1> QED
  BY <1>3, <1>5, <1>6, <1>7, <1>8, <1>9, <1>10, <1>11, <1>12, <1>13, <1>14, LongFiAssumption
     DEF Next, ClientCall, Library, longfi_send, longfi_rf_test

\* The library's part of every step is one of its functions.
LEMMA StepIsLibraryStep ==
  ASSUME DriverTypeOK, [Next]_vars
  PROVE  LibraryStep
<1>1. fifo \in Frames
  BY DEF DriverTypeOK, ChipTypeOK
<1>2. CASE ClientCall \/ longfi_handle_event
  BY <1>2, LongFiAssumption
     DEF LibraryStep, ClientCall, longfi_handle_event, longfi_init, longfi_set_buf,
         longfi_rx, configure_rx, longfi_get_random, longfi_send, longfi_rf_test,
         Transmit, longfi_get_rx
<1>3. CASE Library
  BY <1>1, <1>3
     DEF LibraryStep, Library, RunCommand, RunCallback, HandleTxDone, HandleReturn
<1>4. CASE Transmitted \/ Received \/ Restart \/ UNCHANGED vars
  BY <1>1, <1>4 DEF LibraryStep, Transmitted, Received, Restart, vars
<1> QED
  BY <1>2, <1>3, <1>4 DEF Next

-----------------------------------------------------------------------------
(* Theorems.                                                               *)

\* The invariant holds at power on.
LEMMA InitLongFiInv == Init => LongFiInv
BY DriverInitInv, LibraryInitInv DEF Init, LongFiInv

\* It holds after every step.
LEMMA StepLongFiInv == LongFiInv /\ [Next]_vars => LongFiInv'
<1> SUFFICES ASSUME LongFiInv, [Next]_vars PROVE LongFiInv'
  OBVIOUS
<1>1. DriverInv /\ DriverTypeOK /\ LibraryInv
  BY DEF LongFiInv, DriverInv
<1>2. DriverTypeOK'
  BY <1>1, StepKeepsDriverTypes
<1>3. LibraryInv'
  BY <1>1, StepIsLibraryStep, LibraryStepInv
<1>4. Awake' /\ EdgeNotLost'
  BY <1>1, StepKeepsAwake
<1> QED
  BY <1>2, <1>3, <1>4 DEF LongFiInv, DriverInv

\* No sequence of calls, events, receptions and restarts brings the library out
\* of its invariant.
THEOREM LongFiInvariant == Spec => []LongFiInv
BY InitLongFiInv, StepLongFiInv, PTL DEF Spec

\* The library's state and the client's stay within their types; in particular
\* there is never an announced packet too many.
THEOREM LongFiTypeCorrect == Spec => []TypeOK
<1>1. LongFiInv => TypeOK
  BY DEF LongFiInv, DriverInv, LibraryInv, TypeOK
<1> QED
  BY <1>1, LongFiInvariant, PTL

\* No call of the library hangs on a sleeping chip, whatever restarts and
\* whichever events are dispatched late.
THEOREM LongFiNeverStuck == Spec => []NeverStuck
<1>1. LongFiInv => NeverStuck
  BY AwakeNeverStuck DEF LongFiInv
<1> QED
  BY <1>1, LongFiInvariant, PTL

\* While DIO1 is high the client has an event to dispatch or the library has
\* yet to clear the interrupts: the radio can always interrupt again.
THEOREM LongFiEdgeNotLost == Spec => []EdgeNotLost
BY LongFiInvariant, PTL DEF LongFiInv, DriverInv

\* A packet announced to a client that fetches it before it dispatches again
\* lies in the client's buffer, whatever arrives and however late the event is
\* dispatched; a client that does not may be given the length of another one.
THEOREM LongFiPacketFits == Spec => [](PromptClient => PacketFits)
<1>1. LongFiInv => (PromptClient => PacketFits)
  BY LibraryInvFits DEF LongFiInv
<1> QED
  BY <1>1, LongFiInvariant, PTL
=============================================================================
