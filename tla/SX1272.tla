------------------------------- MODULE SX1272 -------------------------------
(***************************************************************************)
(* What sx1272.c does, call by call, in the steps of SX127x.  The file is  *)
(* a variant of sx1276.c; the board's reset does not reach the chip.       *)
(***************************************************************************)
EXTENDS Integers, Sequences

-----------------------------------------------------------------------------
(* The calls of Radio_t.  SetModem is a command of its own, ModemFsk or      *)
(* ModemLora; where a function looks at Settings.Modem, modem is its value.  *)

Modem(modem) == IF modem = "LORA" THEN "ModemLora" ELSE "ModemFsk"

\* SX1272Reset only waits: its GPIO calls are commented out.
\* Mutant: Init counts on the reset and sets up no modem.
InitTrustsReset == <<"OpSleep", "Idle">>
InitScript == <<"OpSleep", "ModemFsk", "ModemLora", "Idle">>

IsChannelFreeScript(modem, sense) ==
  <<Modem(modem), "OpReceiver">>
  \o (IF sense THEN <<"CarrierSense">> ELSE <<>>) \o <<"Sleep">>

RandomScript == <<"ModemLora", "MaskAll", "OpReceiver", "Sleep">>

SetRxConfigScript(modem) ==
  IF modem = "FSK" THEN <<"ModemFsk", "PacketMode">> ELSE <<"ModemLora">>

SetTxConfigScript(modem) ==
  IF modem = "FSK" THEN <<"ModemFsk", "PacketMode">> ELSE <<"ModemLora">>

SetTxScript(modem) ==
  <<IF modem = "LORA" THEN "IrqsTx" ELSE "DiosTx", "Transmit">>

SendScript(modem) ==
  (IF modem = "LORA" THEN <<"StbyIfAsleep", "WriteFifo">> ELSE <<"WriteFifo">>)
  \o SetTxScript(modem)

SetSleepScript == <<"Sleep">>

SetStbyScript == <<"Standby">>

SetRxScript(modem) ==
  <<IF modem = "LORA" THEN "IrqsRx" ELSE "DiosRx", "Receive">>

StartCadScript(modem) == IF modem = "LORA" THEN <<"IrqsCad", "Cad">> ELSE <<>>

ContinuousWaveScript == SetTxConfigScript("FSK") \o <<"WaveMode", "Transmit">>

SetModemScript(modem) == <<Modem(modem)>>

SetMaxPayloadScript(modem) == <<Modem(modem)>>

SetPublicNetworkScript == <<"ModemLora">>

-----------------------------------------------------------------------------
(* The interrupt handlers, by Settings.State and Settings.Modem.             *)

Dio0Script(state, modem) ==
  CASE state = "RX" /\ modem = "LORA" -> <<"ClearRxDone", "CrcError", "RxDone">>
    [] state = "RX" /\ modem = "FSK"  -> <<"FskCrcError", "FskRxDone">>
    [] state = "TX" /\ modem = "LORA" -> <<"ClearTxDone", "TxDone">>
    [] state = "TX" /\ modem = "FSK"  -> <<"TxDone">>
    [] state \in {"IDLE", "CAD"}      -> <<>>

\* The FSK branches move bytes between the FIFO and RxTxBuffer: see FskPacket.
Dio1Script(state, modem) ==
  IF state = "RX" /\ modem = "LORA" THEN <<"RxTimeout">> ELSE <<>>

Dio3Script(modem) == IF modem = "LORA" THEN <<"CadDone">> ELSE <<>>

-----------------------------------------------------------------------------
(* The LoRa signal: what the calls leave in Settings (s) and in the registers *)
(* (r), as SX127xConfig keeps them, for the arguments p of a configuration.   *)

\* The register's number of the bandwidths 0, 1 and 2 of Radio_t.
BandwidthCode(bandwidth) == bandwidth

LowDatarateOptimize(code, sf) ==
  (code = 0 /\ sf \in {11, 12}) \/ (code = 1 /\ sf = 12)

Clamped(datarate) ==
  IF datarate > 12 THEN 12 ELSE IF datarate < 6 THEN 6 ELSE datarate

\* Settings keep the spreading factor asked for, registers one of 6 to 12.
ConfigSettings(s, p) ==
  [s EXCEPT !.Bandwidth = BandwidthCode(p.bandwidth), !.Datarate = p.datarate,
            !.Coderate = p.coderate, !.PreambleLen = p.preambleLen,
            !.FixLen = p.fixLen, !.CrcOn = p.crcOn,
            !.LowDatarateOptimize =
               LowDatarateOptimize(BandwidthCode(p.bandwidth), Clamped(p.datarate))]

ConfigRegs(r, p) ==
  [r EXCEPT !.bw = BandwidthCode(p.bandwidth), !.sf = Clamped(p.datarate),
            !.cr = p.coderate, !.preamble = p.preambleLen, !.implicit = p.fixLen,
            !.crc = p.crcOn, !.detectSf6 = Clamped(p.datarate) = 6,
            !.ldro = LowDatarateOptimize(BandwidthCode(p.bandwidth), Clamped(p.datarate))]

\* Init resets nothing; the table of registers holds RegDetectOptimize.
InitRegs(r, reset) == [r EXCEPT !.detectSf6 = FALSE]
InitSettings(s, reset) == s

\* There is no erratum to work around.
RxSettings(s) == s
RxRegs(r, s) == r

\* A quarter of a symbol in microseconds.
QuarterSymbol(s) ==
  (2^s.Datarate * (CASE s.Bandwidth = 1 -> 2 [] s.Bandwidth = 2 -> 1 [] OTHER -> 4)) \div 2

\* A quarter of the sum that is rounded up, as a 32-bit number without sign.
BitsLeft(s, pktLen) ==
  (2 * pktLen - s.Datarate + 7 + (IF s.CrcOn THEN 4 ELSE 0) - (IF s.FixLen THEN 5 ELSE 0))
    % 2^30

BitsPerSymbol(s) == s.Datarate - (IF s.LowDatarateOptimize THEN 2 ELSE 0)

\* In ms.  A sum that wraps gives an absurd number, absurd.
TimeOnAir(s, pktLen, absurd) ==
  LET tmp == ((BitsLeft(s, pktLen) + BitsPerSymbol(s) - 1) \div BitsPerSymbol(s))
             * (s.Coderate + 4)
      quarters == 4 * s.PreambleLen + 17 + 4 * (8 + tmp)
  IN  IF BitsLeft(s, pktLen) >= 2^29
        THEN absurd
        ELSE (quarters * QuarterSymbol(s) + 999) \div 1000
=============================================================================
