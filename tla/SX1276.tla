------------------------------- MODULE SX1276 -------------------------------
(***************************************************************************)
(* What sx1276.c does, call by call: each function as the sequence of its  *)
(* steps that change the chip or Settings.  SX127x says what a step does.  *)
(***************************************************************************)
EXTENDS Integers, Sequences

-----------------------------------------------------------------------------
(* The calls of Radio_t.  SetModem is a command of its own, ModemFsk or      *)
(* ModemLora; where a function looks at Settings.Modem, modem is its value.  *)

Modem(modem) == IF modem = "LORA" THEN "ModemLora" ELSE "ModemFsk"

\* RadioRegsInit goes through the FSK registers first, then the LoRa ones.
InitScript == <<"Reset", "OpSleep", "ModemFsk", "ModemLora", "Idle">>

IsChannelFreeScript(modem, sense) ==
  <<Modem(modem), "OpReceiver">>
  \o (IF sense THEN <<"CarrierSense">> ELSE <<>>) \o <<"Sleep">>

RandomScript == <<"ModemLora", "MaskAll", "OpReceiver", "Sleep">>

SetRxConfigScript(modem) ==
  IF modem = "FSK" THEN <<"ModemFsk", "PacketMode">> ELSE <<"ModemLora">>

SetTxConfigScript(modem) ==
  IF modem = "FSK" THEN <<"ModemFsk", "PacketMode">> ELSE <<"ModemLora">>

SetTxScript(modem) ==
  <<IF modem = "LORA" THEN "IrqsTx" ELSE "DiosTx", "Transmit">>

\* Mutant: the payload is written to a chip that may be asleep.
SendAsleep(modem) == <<"WriteFifo">> \o SetTxScript(modem)
\* Mutant: the transmission starts before its payload is written.
SendBeforeWrite(modem) == SetTxScript(modem) \o <<"WriteFifo">>
SendScript(modem) ==
  (IF modem = "LORA" THEN <<"StbyIfAsleep", "WriteFifo">> ELSE <<"WriteFifo">>)
  \o SetTxScript(modem)

SetSleepScript == <<"Sleep">>

SetStbyScript == <<"Standby">>

\* Mutant: reception starts with the interrupts of the last transmission.
SetRxUnmasked(modem) == <<"Receive">>
SetRxScript(modem) ==
  <<IF modem = "LORA" THEN "IrqsRx" ELSE "DiosRx", "Receive">>

StartCadScript(modem) == IF modem = "LORA" THEN <<"IrqsCad", "Cad">> ELSE <<>>

ContinuousWaveScript == SetTxConfigScript("FSK") \o <<"WaveMode", "Transmit">>

SetModemScript(modem) == <<Modem(modem)>>

SetMaxPayloadScript(modem) == <<Modem(modem)>>

SetPublicNetworkScript == <<"ModemLora">>

-----------------------------------------------------------------------------
(* The interrupt handlers, by Settings.State and Settings.Modem.             *)

\* Mutant: TxDone is not cleared.
Dio0Latched(state, modem) ==
  CASE state = "RX" /\ modem = "LORA" -> <<"ClearRxDone", "CrcError", "RxDone">>
    [] state = "RX" /\ modem = "FSK"  -> <<"FskCrcError", "FskRxDone">>
    [] state = "TX"                   -> <<"TxDone">>
    [] state \in {"IDLE", "CAD"}      -> <<>>
\* Mutant: a LoRa checksum error goes unnoticed.
Dio0Unchecked(state, modem) ==
  CASE state = "RX" /\ modem = "LORA" -> <<"ClearRxDone", "RxDone">>
    [] state = "RX" /\ modem = "FSK"  -> <<"FskCrcError", "FskRxDone">>
    [] state = "TX" /\ modem = "LORA" -> <<"ClearTxDone", "TxDone">>
    [] state = "TX" /\ modem = "FSK"  -> <<"TxDone">>
    [] state \in {"IDLE", "CAD"}      -> <<>>
\* Mutant: the case of a reception falls through to that of a transmission.
Dio0FallsThrough(state, modem) ==
  CASE state = "RX" /\ modem = "LORA" ->
         <<"ClearRxDone", "CrcError", "RxDone", "ClearTxDone", "TxDone">>
    [] state = "RX" /\ modem = "FSK"  -> <<"FskCrcError", "FskRxDone">>
    [] state = "TX" /\ modem = "LORA" -> <<"ClearTxDone", "TxDone">>
    [] state = "TX" /\ modem = "FSK"  -> <<"TxDone">>
    [] state \in {"IDLE", "CAD"}      -> <<>>
Dio0Script(state, modem) ==
  CASE state = "RX" /\ modem = "LORA" -> <<"ClearRxDone", "CrcError", "RxDone">>
    [] state = "RX" /\ modem = "FSK"  -> <<"FskCrcError", "FskRxDone">>
    [] state = "TX" /\ modem = "LORA" -> <<"ClearTxDone", "TxDone">>
    [] state = "TX" /\ modem = "FSK"  -> <<"TxDone">>
    [] state \in {"IDLE", "CAD"}      -> <<>>

\* The FSK branches move bytes between the FIFO and RxTxBuffer: see FskPacket.
Dio1Script(state, modem) ==
  IF state = "RX" /\ modem = "LORA" THEN <<"RxTimeout">> ELSE <<>>

Dio3Script(modem) == IF modem = "LORA" THEN <<"CadDone">> ELSE <<>>

-----------------------------------------------------------------------------
(* The LoRa signal: what the calls leave in Settings (s) and in the registers *)
(* (r), as SX127xConfig keeps them, for the arguments p of a configuration.   *)

\* Mutant: the register's numbers are off by one.
BandwidthOffByOne(bandwidth) == bandwidth + 8
\* Mutant: the rule of the SX1272, whose register has only three bandwidths.
BandwidthRaw(bandwidth) == bandwidth
\* The register's number of the bandwidths 0, 1 and 2 of Radio_t.
BandwidthCode(bandwidth) == bandwidth + 7

\* Mutant: the rule of the SX1272, whose register numbers bandwidths from 0.
LowRateUnported(code, sf) == (code = 0 /\ sf \in {11, 12}) \/ (code = 1 /\ sf = 12)
LowDatarateOptimize(code, sf) ==
  (code = 7 /\ sf \in {11, 12}) \/ (code = 8 /\ sf = 12)

Clamped(datarate) ==
  IF datarate > 12 THEN 12 ELSE IF datarate < 6 THEN 6 ELSE datarate

\* Settings keep the spreading factor asked for, registers one of 6 to 12.
ConfigSettings(s, p) ==
  [s EXCEPT !.Bandwidth = BandwidthCode(p.bandwidth), !.Datarate = p.datarate,
            !.Coderate = p.coderate, !.PreambleLen = p.preambleLen,
            !.FixLen = p.fixLen, !.CrcOn = p.crcOn,
            !.LowDatarateOptimize =
               LowDatarateOptimize(BandwidthCode(p.bandwidth), Clamped(p.datarate))]

ConfigRegs(r, p) ==
  [r EXCEPT !.bw = BandwidthCode(p.bandwidth), !.sf = Clamped(p.datarate),
            !.cr = p.coderate, !.preamble = p.preambleLen, !.implicit = p.fixLen,
            !.crc = p.crcOn, !.detectSf6 = Clamped(p.datarate) = 6,
            !.ldro = LowDatarateOptimize(BandwidthCode(p.bandwidth), Clamped(p.datarate))]

\* Init resets the chip; the calibration ends with the channel of the reset.
InitRegs(r, reset) == reset
InitSettings(s, reset) == [s EXCEPT !.Channel = reset.frf]

\* Errata 2.3.  Bandwidth 0 stands for 7.8 kHz here, which no configuration can
\* choose: it is what Settings hold before the first one.
IfFreq1(code) == CASE code = 0 -> 72 [] code \in 1..5 -> 68 [] OTHER -> 64
IfShift(code) ==
  IF code < 6 THEN <<7810, 10420, 15620, 20830, 31250, 41670>>[code + 1] ELSE 0

\* The shift goes through SetChannel, so Settings keep it too.
RxSettings(s) == [s EXCEPT !.Channel = @ + IfShift(s.Bandwidth)]

Tunes(r, s, automatic) ==
  IF automatic
    THEN [r EXCEPT !.autoIf = TRUE]
    ELSE [r EXCEPT !.autoIf = FALSE, !.ifFreq1 = IfFreq1(s.Bandwidth),
                   !.frf = IF s.Bandwidth < 6 THEN RxSettings(s).Channel ELSE @]
\* Mutant: 250 kHz taken for 500 kHz.
RxRegsOffByOne(r, s) == Tunes(r, s, s.Bandwidth >= 8)
RxRegs(r, s) == Tunes(r, s, s.Bandwidth >= 9)

\* A quarter of a symbol in microseconds.
QuarterSymbol(s) ==
  (2^s.Datarate * (CASE s.Bandwidth = 8 -> 2 [] s.Bandwidth = 9 -> 1 [] OTHER -> 4)) \div 2

\* A quarter of the sum that is rounded up, as a 32-bit number without sign.
BitsLeft(s, pktLen) ==
  (2 * pktLen - s.Datarate + 7 + (IF s.CrcOn THEN 4 ELSE 0) - (IF s.FixLen THEN 5 ELSE 0))
    % 2^30

\* Mutant: the low data rate is forgotten.
BitsPerSymbolFull(s) == s.Datarate
BitsPerSymbol(s) == s.Datarate - (IF s.LowDatarateOptimize THEN 2 ELSE 0)

\* In ms.  A sum that wraps gives an absurd number, absurd.
TimeOnAir(s, pktLen, absurd) ==
  LET tmp == ((BitsLeft(s, pktLen) + BitsPerSymbol(s) - 1) \div BitsPerSymbol(s))
             * (s.Coderate + 4)
      quarters == 4 * s.PreambleLen + 17 + 4 * (8 + tmp)
  IN  IF BitsLeft(s, pktLen) >= 2^29
        THEN absurd
        ELSE (quarters * QuarterSymbol(s) + 999) \div 1000
=============================================================================
