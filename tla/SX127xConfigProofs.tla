------------------------- MODULE SX127xConfigProofs -------------------------
(***************************************************************************)
(* The registers of SX127xConfig, for every set of channels, of payload    *)
(* lengths and of configurations that Radio_t admits: their types, a low   *)
(* data rate that fits the symbol, an intermediate frequency that fits the *)
(* bandwidth, a time on air that is the chip's, and, for a client that     *)
(* configures before it listens, the channel it asked for.                 *)
(***************************************************************************)
EXTENDS SX127xConfig, TLAPS

\* The registers' number of a bandwidth of 125 kHz.
Narrow == Pick(7, 0)

\* The copy in Settings of what the low data rate and the erratum depend on is
\* true as soon as a configuration has been made.
Mirrored ==
  configured => /\ settings.Bandwidth = regs.bw
                /\ settings.Bandwidth \in Narrow..(Narrow + 2)
                /\ settings.Datarate = regs.sf
                /\ settings.Coderate \in 1..4

-----------------------------------------------------------------------------
(* What the drivers compute.                                               *)

\* The powers of two that occur.
LEMMA Powers ==
  /\ 2^0 = 1 /\ 2^1 = 2 /\ 2^2 = 4
  /\ 2^6 = 64 /\ 2^7 = 128 /\ 2^8 = 256 /\ 2^9 = 512 /\ 2^10 = 1024
  /\ 2^11 = 2048 /\ 2^12 = 4096
OBVIOUS

\* A symbol lasts longer than 16 ms.
LongSymbol(chips, width) == chips * 8 > 16000 * width

\* A symbol lasts longer than 16 ms exactly where both drivers say so.
LEMMA LowRateExact ==
  ASSUME NEW sf \in 6..12, NEW b \in 0..2
  PROVE  /\ D76!LowDatarateOptimize(b + 7, sf) <=> LongSymbol(2^sf, 2^b)
         /\ D72!LowDatarateOptimize(b, sf) <=> LongSymbol(2^sf, 2^b)
<1> DEFINE Symbol(p) == /\ sf = 6 => p = 64
                        /\ sf = 7 => p = 128
                        /\ sf = 8 => p = 256
                        /\ sf = 9 => p = 512
                        /\ sf = 10 => p = 1024
                        /\ sf = 11 => p = 2048
                        /\ sf = 12 => p = 4096
<1> DEFINE Band(w) == (b = 0 => w = 1) /\ (b = 1 => w = 2) /\ (b = 2 => w = 4)
<1>1. ASSUME NEW p, NEW w, Symbol(p), Band(w)
      PROVE  /\ D76!LowDatarateOptimize(b + 7, sf) <=> LongSymbol(p, w)
             /\ D72!LowDatarateOptimize(b, sf) <=> LongSymbol(p, w)
  BY <1>1 DEF LongSymbol, D76!LowDatarateOptimize, D72!LowDatarateOptimize
<1>2. Symbol(2^sf)
  <2>1. sf = 6 => 2^sf = 64
    BY Powers
  <2>2. sf = 7 => 2^sf = 128
    BY Powers
  <2>3. sf = 8 => 2^sf = 256
    BY Powers
  <2>4. sf = 9 => 2^sf = 512
    BY Powers
  <2>5. sf = 10 => 2^sf = 1024
    BY Powers
  <2>6. sf = 11 => 2^sf = 2048
    BY Powers
  <2>7. sf = 12 => 2^sf = 4096
    BY Powers
  <2> QED
    BY <2>1, <2>2, <2>3, <2>4, <2>5, <2>6, <2>7
<1>3. Band(2^b)
  <2>1. b = 0 => 2^b = 1
    BY Powers
  <2>2. b = 1 => 2^b = 2
    BY Powers
  <2>3. b = 2 => 2^b = 4
    BY Powers
  <2> QED
    BY <2>1, <2>2, <2>3
<1> HIDE DEF Symbol, Band
<1> QED
  BY <1>1, <1>2, <1>3

-----------------------------------------------------------------------------
(* What a call changes.                                                    *)

\* The settings and the registers have their types, whatever the answers.
SettingsType ==
  [Channel : Nat, Bandwidth : 0..9, Datarate : {0} \cup 6..12, Coderate : 0..4,
   PreambleLen : Nat, FixLen : BOOLEAN, CrcOn : BOOLEAN,
   LowDatarateOptimize : BOOLEAN]
RegsType ==
  [frf : Nat, bw : 0..9, sf : 6..12, cr : 1..4, preamble : Nat, implicit : BOOLEAN,
   crc : BOOLEAN, ldro : BOOLEAN, detectSf6 : BOOLEAN, autoIf : BOOLEAN,
   ifFreq1 : {32, 64, 68, 72}]
Flags == booted \in BOOLEAN /\ configured \in BOOLEAN
Known == chip \in Chips /\ tuned \in Nat /\ call \in Calls
RegsTypes == Flags /\ Known /\ settings \in SettingsType /\ regs \in RegsType

KeptInv == ~RxAnyTime => ChannelKept
SignalInv == RegsTypes /\ Mirrored /\ SignalConsistent /\ SpursAvoided /\ KeptInv

\* The registers before the first call.
LEMMA SignalInitInv == Init => SignalInv
<1> SUFFICES ASSUME Init
             PROVE  SignalInv
  OBVIOUS
<1>1. Flags
  BY Zenon DEF Init, Flags
<1>2. Known
  BY SMT DEF Init, Known, Calls
<1>3. settings \in SettingsType
  BY SMT DEF Init, Statics, SettingsType
<1>4. regs \in RegsType
  BY SMT DEF Init, Reset, Pick, RegsType
<1>5. Mirrored /\ SignalConsistent /\ SpursAvoided /\ KeptInv
  BY SMT DEF Init, Mirrored, SignalConsistent, SpursAvoided, KeptInv, ChannelKept
<1> QED
  BY <1>1, <1>2, <1>3, <1>4, <1>5 DEF SignalInv, RegsTypes

\* Init of either driver forgets every configuration.
LEMMA InitKeeps == SignalInv /\ Init127x => SignalInv'
<1> SUFFICES ASSUME SignalInv, Init127x
             PROVE  SignalInv'
  OBVIOUS
<1> USE DEF SignalInv, RegsTypes
<1>1. Flags'
  BY Zenon DEF Init127x, Flags
<1>2. Known'
  BY SMT DEF Init127x, Known, Calls
<1>3. settings' \in SettingsType
  BY SMT DEF Init127x, Reset, Pick, SettingsType, D76!InitSettings, D72!InitSettings
<1>4. regs' \in RegsType
  <2>1. Reset \in RegsType
    BY SMT DEF Reset, Pick, RegsType
  <2>2. [regs EXCEPT !.detectSf6 = FALSE] \in RegsType
    BY Zenon DEF RegsType
  <2> QED
    BY <2>1, <2>2, Zenon DEF Init127x, Pick, D76!InitRegs, D72!InitRegs
<1>5. Mirrored' /\ SignalConsistent' /\ SpursAvoided' /\ KeptInv'
  BY SMT DEF Init127x, Mirrored, SignalConsistent, SpursAvoided, KeptInv, ChannelKept
<1> QED
  BY <1>1, <1>2, <1>3, <1>4, <1>5

\* A restart loses the settings and leaves the registers.
LEMMA RestartKeeps == SignalInv /\ Restart => SignalInv'
<1> SUFFICES ASSUME SignalInv, Restart
             PROVE  SignalInv'
  OBVIOUS
<1> USE DEF SignalInv, RegsTypes
<1>1. Flags'
  BY Zenon DEF Restart, Flags
<1>2. Known'
  BY SMT DEF Restart, Known, Calls
<1>3. settings' \in SettingsType /\ regs' \in RegsType
  BY SMT DEF Restart, Statics, SettingsType
<1>4. Mirrored' /\ SignalConsistent' /\ SpursAvoided' /\ KeptInv'
  BY SMT DEF Restart, Mirrored, SignalConsistent, SpursAvoided, KeptInv, ChannelKept
<1> QED
  BY <1>1, <1>2, <1>3, <1>4

\* Tuning touches the channel and nothing of the signal.
LEMMA SetChannelKeeps ==
  ASSUME NEW freq \in Channels, SignalInv, SetChannel(freq)
  PROVE  SignalInv'
<1>1. freq \in Nat
  BY ConfigAssumption
<1> USE DEF SignalInv, RegsTypes
<1>2. /\ settings' \in SettingsType /\ regs' \in RegsType
      /\ settings'.Bandwidth = settings.Bandwidth
      /\ settings'.Datarate = settings.Datarate
      /\ settings'.Coderate = settings.Coderate
      /\ settings'.Channel = freq
      /\ regs' = [regs EXCEPT !.frf = freq]
  BY <1>1, SMT DEF SetChannel, SettingsType, RegsType
<1>3. /\ regs'.frf = freq /\ regs'.bw = regs.bw /\ regs'.sf = regs.sf
      /\ regs'.ldro = regs.ldro /\ regs'.detectSf6 = regs.detectSf6
  BY <1>1, <1>2, SMT DEF RegsType
<1>4. Flags'
  BY Zenon DEF SetChannel, Flags
<1>5. Known'
  BY <1>1, SMT DEF SetChannel, Known, Calls
<1>6. Mirrored' /\ SignalConsistent' /\ SpursAvoided' /\ KeptInv'
  BY <1>2, <1>3, SMT DEF SetChannel, Mirrored, SignalConsistent, SpursAvoided, KeptInv,
                         ChannelKept, Width, Narrow, Pick
<1> QED
  BY <1>2, <1>4, <1>5, <1>6

\* GetTimeOnAir reads.
LEMMA GetTimeOnAirKeeps ==
  ASSUME NEW pktLen \in PktLens, SignalInv, GetTimeOnAir(pktLen)
  PROVE  SignalInv'
<1>1. /\ UNCHANGED <<chip, booted, configured, settings, regs, tuned>>
      /\ call' = "GetTimeOnAir"
  BY DEF GetTimeOnAir
<1>2. Known'
  BY <1>1, SMT DEF SignalInv, RegsTypes, Known, Calls
<1>3. Flags' /\ settings' \in SettingsType /\ regs' \in RegsType
  BY <1>1, Zenon DEF SignalInv, RegsTypes, Flags
<1>4. Mirrored' /\ SignalConsistent' /\ KeptInv'
  BY <1>1, SMT DEF SignalInv, Mirrored, SignalConsistent, Width, KeptInv, ChannelKept,
                   Narrow, Pick
<1>5. SpursAvoided'
  BY <1>1, SMT DEF SpursAvoided
<1> QED
  BY <1>2, <1>3, <1>4, <1>5 DEF SignalInv, RegsTypes

\* A configuration writes the same bandwidth, spreading factor and low data
\* rate to the registers and to Settings.
LEMMA ConfigureKeeps ==
  ASSUME NEW p \in Configs, SignalInv, Configure(p)
  PROVE  SignalInv'
<1>1. p \in Arguments
  BY ConfigAssumption
<1>2. D76!Clamped(p.datarate) = p.datarate /\ D72!Clamped(p.datarate) = p.datarate
  BY <1>1, SMT DEF Arguments, D76!Clamped, D72!Clamped
<1> DEFINE rate == Pick(D76!LowDatarateOptimize(p.bandwidth + 7, p.datarate),
                      D72!LowDatarateOptimize(p.bandwidth, p.datarate))
           code == p.bandwidth + Narrow
<1>3. code \in 0..9 /\ code \in Narrow..(Narrow + 2)
  BY <1>1, SMT DEF Arguments, Narrow, Pick
<1>4. rate \in BOOLEAN
  BY Zenon DEF Pick, D76!LowDatarateOptimize, D72!LowDatarateOptimize
<1>5. /\ settings' = [settings EXCEPT !.Bandwidth = code, !.Datarate = p.datarate,
                        !.Coderate = p.coderate, !.PreambleLen = p.preambleLen,
                        !.FixLen = p.fixLen, !.CrcOn = p.crcOn,
                        !.LowDatarateOptimize = rate]
      /\ regs' = [regs EXCEPT !.bw = code, !.sf = p.datarate, !.cr = p.coderate,
                        !.preamble = p.preambleLen, !.implicit = p.fixLen,
                        !.crc = p.crcOn, !.detectSf6 = (p.datarate = 6), !.ldro = rate]
  <2>1. CASE chip = "SX1276"
    BY <1>2, <2>1, Zenon
    DEF Configure, Pick, Narrow, D76!ConfigRegs, D76!ConfigSettings, D76!BandwidthCode
  <2>2. CASE chip # "SX1276"
    <3>1. D72!BandwidthCode(p.bandwidth) = p.bandwidth + 0
      BY <1>1, SMT DEF Arguments, D72!BandwidthCode
    <3>2. D72!BandwidthCode(p.bandwidth) = p.bandwidth
      BY DEF D72!BandwidthCode
    <3> QED
      BY <1>2, <2>2, <3>1, <3>2, Zenon
      DEF Configure, Pick, Narrow, D72!ConfigRegs, D72!ConfigSettings
  <2> QED
    BY <2>1, <2>2
<1>6. settings' \in SettingsType /\ regs' \in RegsType
  <2>1. /\ p.datarate \in 6..12 /\ p.coderate \in 1..4 /\ p.preambleLen \in Nat
        /\ p.fixLen \in BOOLEAN /\ p.crcOn \in BOOLEAN
        /\ p.datarate \in {0} \cup 6..12 /\ p.coderate \in 0..4
        /\ (p.datarate = 6) \in BOOLEAN
    <3>1. /\ p.datarate \in 6..12 /\ p.coderate \in 1..4 /\ p.preambleLen \in Nat
          /\ p.fixLen \in BOOLEAN /\ p.crcOn \in BOOLEAN
      BY <1>1, Zenon DEF Arguments
    <3>2. p.coderate \in 0..4
      BY <3>1, SMT
    <3> QED
      BY <3>1, <3>2, Zenon
  <2>2. settings \in SettingsType /\ regs \in RegsType
    BY DEF SignalInv, RegsTypes
  <2> HIDE DEF rate, code
  <2>3. settings' \in SettingsType
    BY <1>3, <1>4, <1>5, <2>1, <2>2, Zenon DEF SettingsType
  <2>4. regs' \in RegsType
    BY <1>3, <1>4, <1>5, <2>1, <2>2, Zenon DEF RegsType
  <2> QED
    BY <2>3, <2>4
<1>7. /\ UNCHANGED <<chip, booted, tuned>>
      /\ configured' = TRUE
      /\ call' = "Config"
  BY DEF Configure
<1>8. /\ settings'.Bandwidth = code /\ settings'.Datarate = p.datarate
      /\ settings'.Coderate = p.coderate
      /\ settings'.Channel = settings.Channel
      /\ regs'.bw = code /\ regs'.sf = p.datarate
      /\ regs'.detectSf6 = (p.datarate = 6)
      /\ regs'.ldro = rate
      /\ regs'.frf = regs.frf
  BY <1>5, Zenon DEF SignalInv, RegsTypes, SettingsType, RegsType
<1>9. Mirrored'
  BY <1>1, <1>3, <1>8, <1>7, Zenon DEF Mirrored, Narrow, Pick, Arguments
<1>10. SignalConsistent'
  <2>1. Width' = 2^p.bandwidth
    <3>1. (regs.bw - Pick(7, 0))' = p.bandwidth
      BY <1>1, <1>8, <1>7, SMT DEF Narrow, Pick, Arguments
    <3> QED
      BY <3>1 DEF Width
  <2>2. p.datarate \in 6..12 /\ p.bandwidth \in 0..2
    BY <1>1 DEF Arguments
  <2>3. rate <=> LongSymbol(2^p.datarate, 2^p.bandwidth)
    BY <2>2, LowRateExact, Zenon DEF Pick
  <2>4. regs'.ldro <=> LongSymbol(2^regs'.sf, Width')
    BY <1>8, <2>1, <2>3, Zenon
  <2>5. regs'.detectSf6 <=> regs'.sf = 6
    BY <1>8, Zenon
  <2> QED
    <3>1. LongSymbol(2^regs'.sf, Width') <=> 2^regs'.sf * 8 > 16000 * Width'
      BY DEF LongSymbol
    <3>2. regs'.ldro <=> 2^regs'.sf * 8 > 16000 * Width'
      BY <2>4, <3>1
    <3> QED
      BY <2>5, <3>2 DEF SignalConsistent
<1>11. SpursAvoided' /\ KeptInv'
  BY <1>8, <1>7, SMT DEF SignalInv, SpursAvoided, KeptInv, ChannelKept
<1>12. Flags' /\ Known'
  <2>1. Flags'
    BY <1>7, Zenon DEF SignalInv, RegsTypes, Flags
  <2>2. Known'
    BY <1>7, SMT DEF SignalInv, RegsTypes, Known, Calls
  <2> QED
    BY <2>1, <2>2
<1> QED
  BY <1>6, <1>9, <1>10, <1>11, <1>12 DEF SignalInv, RegsTypes

\* Listening with a configured radio sets the intermediate frequency of the
\* bandwidth and moves no channel.
LEMMA SetRxKeeps == SignalInv /\ SetRx => SignalInv'
<1> SUFFICES ASSUME SignalInv, SetRx
             PROVE  SignalInv'
  OBVIOUS
<1>1. RegsTypes'
  <2>1. Flags'
    BY Zenon DEF SetRx, SignalInv, RegsTypes, Flags
  <2>2. Known'
    BY SMT DEF SetRx, SignalInv, RegsTypes, Known, Calls
  <2>3. settings.Channel + D76!IfShift(settings.Bandwidth) \in Nat
    BY SMT DEF SignalInv, RegsTypes, SettingsType, D76!IfShift
  <2>4. D76!RxSettings(settings) \in SettingsType
    BY <2>3, Zenon DEF SignalInv, RegsTypes, SettingsType, D76!RxSettings
  <2>5. D76!RxRegs(regs, settings) \in RegsType
    <3>1. D76!IfFreq1(settings.Bandwidth) \in {32, 64, 68, 72}
      BY SMT DEF D76!IfFreq1
    <3>2. D76!RxSettings(settings).Channel \in Nat
      BY <2>4, Zenon DEF SettingsType
    <3>3. (IF settings.Bandwidth < 6 THEN D76!RxSettings(settings).Channel
                                     ELSE regs.frf) \in Nat
      BY <3>2, Zenon DEF SignalInv, RegsTypes, RegsType
    <3>4. regs \in RegsType
      BY DEF SignalInv, RegsTypes
    <3>5. [regs EXCEPT !.autoIf = TRUE] \in RegsType
      BY <3>4, Zenon DEF RegsType
    <3>6. [regs EXCEPT !.autoIf = FALSE, !.ifFreq1 = D76!IfFreq1(settings.Bandwidth),
                       !.frf = IF settings.Bandwidth < 6
                                 THEN D76!RxSettings(settings).Channel ELSE @] \in RegsType
      <4> DEFINE freq == IF settings.Bandwidth < 6 THEN D76!RxSettings(settings).Channel
                                                   ELSE regs.frf
      <4>1. freq \in Nat
        BY <3>3
      <4> HIDE DEF freq
      <4>2. [regs EXCEPT !.autoIf = FALSE, !.ifFreq1 = D76!IfFreq1(settings.Bandwidth),
                         !.frf = freq] \in RegsType
        BY <3>1, <3>4, <4>1, Zenon DEF RegsType
      <4> QED
        BY <4>2, Zenon DEF freq
    <3> QED
      BY <3>5, <3>6, Zenon DEF D76!RxRegs, D76!Tunes
  <2> QED
    BY <2>1, <2>2, <2>4, <2>5, Zenon
    DEF SetRx, SignalInv, RegsTypes, Pick, D72!RxRegs, D72!RxSettings
<1>2. /\ regs'.bw = regs.bw /\ regs'.sf = regs.sf
      /\ regs'.ldro = regs.ldro /\ regs'.detectSf6 = regs.detectSf6
      /\ settings'.Bandwidth = settings.Bandwidth
      /\ settings'.Datarate = settings.Datarate
      /\ settings'.Coderate = settings.Coderate
      /\ UNCHANGED <<chip, configured, tuned>>
  BY SMT DEF SetRx, SignalInv, RegsTypes, Pick, D76!RxRegs, D72!RxRegs,
         D76!RxSettings, D72!RxSettings, D76!Tunes
<1>3. Mirrored'
  BY <1>2, SMT DEF SignalInv, Mirrored, Narrow, Pick
<1>4. SignalConsistent'
  BY <1>2, SMT DEF SignalInv, SignalConsistent, Width, Pick
<1>5. SpursAvoided'
  <2> SUFFICES ASSUME chip = "SX1276", configured
               PROVE  IF Width' = 4 THEN regs'.autoIf
                      ELSE ~regs'.autoIf /\ regs'.ifFreq1 = 64
    BY <1>2, SMT DEF SpursAvoided
  <2>1. settings.Bandwidth = regs.bw /\ regs.bw \in 7..9
    BY SMT DEF SignalInv, Mirrored, Narrow, Pick
  <2>2. /\ regs'.autoIf <=> regs.bw >= 9
        /\ regs.bw < 9 => regs'.ifFreq1 = 64
    BY <2>1, SMT DEF SetRx, SignalInv, RegsTypes, Pick, D76!RxRegs, D76!Tunes, D76!IfFreq1
  <2>3. Width' = 2^(regs.bw - 7)
    BY <1>2, SMT DEF Width, Pick
  <2>4. Width' = 4 <=> regs.bw = 9
    <3>1. CASE regs.bw = 7
      BY <2>3, <3>1, Powers, SMT
    <3>2. CASE regs.bw = 8
      BY <2>3, <3>2, Powers, SMT
    <3>3. CASE regs.bw = 9
      BY <2>3, <3>3, Powers, SMT
    <3> QED
      BY <2>1, <3>1, <3>2, <3>3, SMT
  <2> QED
    BY <2>1, <2>2, <2>4, SMT
<1>6. KeptInv'
  <2> SUFFICES ASSUME ~RxAnyTime
               PROVE  ChannelKept'
    BY SMT DEF KeptInv
  <2>1. configured /\ ChannelKept
    BY SMT DEF SetRx, SignalInv, KeptInv
  <2>2. chip = "SX1276" => settings.Bandwidth \in 7..9
    BY <2>1, SMT DEF SignalInv, Mirrored, Narrow, Pick
  <2>3. settings'.Channel = settings.Channel /\ regs'.frf = regs.frf
    <3>1. settings \in SettingsType /\ regs \in RegsType
      BY DEF SignalInv, RegsTypes
    <3>2. CASE chip = "SX1276"
      <4>1. D76!IfShift(settings.Bandwidth) = 0 /\ ~(settings.Bandwidth < 6)
        BY <2>2, <3>2, SMT DEF D76!IfShift
      <4>2. settings'.Channel = settings.Channel
        <5>1. settings'.Channel = settings.Channel + 0
          BY <3>1, <3>2, <4>1, Zenon DEF SetRx, Pick, D76!RxSettings, SettingsType
        <5> QED
          BY <3>1, <5>1, SMT DEF SettingsType
      <4>3. regs'.frf = regs.frf
        BY <3>1, <3>2, <4>1, Zenon DEF SetRx, Pick, D76!RxRegs, D76!Tunes, RegsType
      <4> QED
        BY <4>2, <4>3
    <3>3. CASE chip # "SX1276"
      BY <3>3, Zenon DEF SetRx, Pick, D72!RxRegs, D72!RxSettings
    <3> QED
      BY <3>2, <3>3
  <2> QED
    BY <1>2, <2>1, <2>3, SMT DEF ChannelKept
<1> QED
  BY <1>1, <1>3, <1>4, <1>5, <1>6, SMT DEF SignalInv

\* No call disturbs the invariant.
LEMMA SignalNextInv == SignalInv /\ [Next]_vars => SignalInv'
<1> SUFFICES ASSUME SignalInv, [Next]_vars
             PROVE  SignalInv'
  OBVIOUS
<1>1. CASE Next
  BY <1>1, InitKeeps, SetRxKeeps, RestartKeeps, SetChannelKeeps, ConfigureKeeps,
     GetTimeOnAirKeeps DEF Next
<1>2. CASE UNCHANGED vars
  <2>1. UNCHANGED <<chip, booted, configured, settings, regs, tuned, call>>
    BY <1>2 DEF vars
  <2>2. RegsTypes'
    BY <2>1, Zenon DEF SignalInv, RegsTypes, Flags, Known
  <2>3. Mirrored' /\ SignalConsistent' /\ KeptInv'
    BY <2>1, SMT DEF SignalInv, Mirrored, SignalConsistent, Width, KeptInv, ChannelKept,
                     Narrow, Pick
  <2>4. SpursAvoided'
    BY <2>1, SMT DEF SignalInv, SpursAvoided, Width, Pick
  <2> QED
    BY <2>2, <2>3, <2>4 DEF SignalInv
<1> QED
  BY <1>1, <1>2, SMT

-----------------------------------------------------------------------------
(* The answers of GetTimeOnAir.                                            *)

\* Powers of two are numbers, for every spreading factor.
LEMMA PowerNat == ASSUME NEW n \in {0} \cup 6..12 PROVE 2^n \in Nat
<1>8. n = 0 => 2^n \in Nat
  BY Powers
<1>1. n = 6 => 2^n \in Nat
  BY Powers
<1>2. n = 7 => 2^n \in Nat
  BY Powers
<1>3. n = 8 => 2^n \in Nat
  BY Powers
<1>4. n = 9 => 2^n \in Nat
  BY Powers
<1>5. n = 10 => 2^n \in Nat
  BY Powers
<1>6. n = 11 => 2^n \in Nat
  BY Powers
<1>7. n = 12 => 2^n \in Nat
  BY Powers
<1> QED
  BY <1>1, <1>2, <1>3, <1>4, <1>5, <1>6, <1>7, <1>8

\* The arithmetic of the time on air stays in the numbers.
LEMMA Arith ==
  /\ \A a \in Nat, b \in 4..12 : (a + b - 1) \div b \in Nat
  /\ \A a, b \in Nat : a * b \in Nat
  /\ \A a \in Int : a % 2^30 \in Nat
<1>1. \A a \in Nat, b \in 4..12 : (a + b - 1) \div b \in Nat
  OBVIOUS
<1>2. \A a, b \in Nat : a * b \in Nat
  OBVIOUS
<1>3. \A a \in Int : a % 2^30 \in Nat
  OBVIOUS
<1> QED
  BY <1>1, <1>2, <1>3

\* The SX1276's GetTimeOnAir answers with a number, or with none.
LEMMA TimeTyped76 ==
  ASSUME NEW s \in SettingsType, s.Datarate \in 6..12, NEW pktLen \in Nat
  PROVE  D76!TimeOnAir(s, pktLen, Absurd) \in Nat \cup {Absurd}
<1> DEFINE bits == D76!BitsLeft(s, pktLen)
           per  == D76!BitsPerSymbol(s)
           quarter == D76!QuarterSymbol(s)
           blocks == (bits + per - 1) \div per
           tmp == blocks * (s.Coderate + 4)
           quarters == 4 * s.PreambleLen + 17 + 4 * (8 + tmp)
<1>1. s.Coderate + 4 \in Nat /\ s.PreambleLen \in Nat
  BY SMT DEF SettingsType
<1>2. bits \in Nat
  <2>1. (2 * pktLen - s.Datarate + 7 + (IF s.CrcOn THEN 4 ELSE 0)
           - (IF s.FixLen THEN 5 ELSE 0)) \in Int
    BY SMT
  <2> QED
    BY <2>1, Arith, Zenon DEF D76!BitsLeft
<1>3. per \in 4..12
  BY SMT DEF D76!BitsPerSymbol
<1>4. quarter \in Nat
  <2>1. 2^s.Datarate \in Nat
    BY PowerNat, Zenon
  <2>2. (CASE s.Bandwidth = 8 -> 2 [] s.Bandwidth = 9 -> 1 [] OTHER -> 4) \in Nat
    BY SMT
  <2>3. (2^s.Datarate * (CASE s.Bandwidth = 8 -> 2 [] s.Bandwidth = 9 -> 1 [] OTHER -> 4)) \in Nat
    BY <2>1, <2>2, Arith, Zenon
  <2>4. \A a \in Nat : a \div 2 \in Nat
    OBVIOUS
  <2> QED
    BY <2>3, <2>4, Zenon DEF D76!QuarterSymbol
<1> HIDE DEF bits, per, quarter
<1>5. blocks \in Nat
  BY <1>2, <1>3, Arith, Zenon
<1>6. tmp \in Nat
  BY <1>1, <1>5, Arith, Zenon
<1> HIDE DEF tmp
<1>7. quarters \in Nat
  BY <1>1, <1>6, SMT
<1> HIDE DEF quarters
<1>8. (quarters * quarter + 999) \div 1000 \in Nat
  <2> DEFINE us == quarters * quarter
  <2>1. us \in Nat
    BY <1>4, <1>7, Arith, Zenon
  <2> HIDE DEF us
  <2>2. (us + 999) \div 1000 \in Nat
    BY <2>1, SMT
  <2> QED
    BY <2>2 DEF us
<1> DEFINE ms == (quarters * quarter + 999) \div 1000
<1>9. D76!TimeOnAir(s, pktLen, Absurd) = Absurd \/ D76!TimeOnAir(s, pktLen, Absurd) = ms
  BY DEF D76!TimeOnAir, bits, per, quarter, tmp, quarters
<1> QED
  BY <1>8, <1>9

\* So does the SX1272's.
LEMMA TimeTyped72 ==
  ASSUME NEW s \in SettingsType, s.Datarate \in 6..12, NEW pktLen \in Nat
  PROVE  D72!TimeOnAir(s, pktLen, Absurd) \in Nat \cup {Absurd}
<1> DEFINE bits == D72!BitsLeft(s, pktLen)
           per  == D72!BitsPerSymbol(s)
           quarter == D72!QuarterSymbol(s)
           blocks == (bits + per - 1) \div per
           tmp == blocks * (s.Coderate + 4)
           quarters == 4 * s.PreambleLen + 17 + 4 * (8 + tmp)
<1>1. s.Coderate + 4 \in Nat /\ s.PreambleLen \in Nat
  BY SMT DEF SettingsType
<1>2. bits \in Nat
  <2>1. (2 * pktLen - s.Datarate + 7 + (IF s.CrcOn THEN 4 ELSE 0)
           - (IF s.FixLen THEN 5 ELSE 0)) \in Int
    BY SMT
  <2> QED
    BY <2>1, Arith, Zenon DEF D72!BitsLeft
<1>3. per \in 4..12
  BY SMT DEF D72!BitsPerSymbol
<1>4. quarter \in Nat
  <2>1. 2^s.Datarate \in Nat
    BY PowerNat, Zenon
  <2>2. (CASE s.Bandwidth = 1 -> 2 [] s.Bandwidth = 2 -> 1 [] OTHER -> 4) \in Nat
    BY SMT
  <2>3. (2^s.Datarate * (CASE s.Bandwidth = 1 -> 2 [] s.Bandwidth = 2 -> 1 [] OTHER -> 4)) \in Nat
    BY <2>1, <2>2, Arith, Zenon
  <2>4. \A a \in Nat : a \div 2 \in Nat
    OBVIOUS
  <2> QED
    BY <2>3, <2>4, Zenon DEF D72!QuarterSymbol
<1> HIDE DEF bits, per, quarter
<1>5. blocks \in Nat
  BY <1>2, <1>3, Arith, Zenon
<1>6. tmp \in Nat
  BY <1>1, <1>5, Arith, Zenon
<1> HIDE DEF tmp
<1>7. quarters \in Nat
  BY <1>1, <1>6, SMT
<1> HIDE DEF quarters
<1>8. (quarters * quarter + 999) \div 1000 \in Nat
  <2> DEFINE us == quarters * quarter
  <2>1. us \in Nat
    BY <1>4, <1>7, Arith, Zenon
  <2> HIDE DEF us
  <2>2. (us + 999) \div 1000 \in Nat
    BY <2>1, SMT
  <2> QED
    BY <2>2 DEF us
<1> DEFINE ms == (quarters * quarter + 999) \div 1000
<1>9. D72!TimeOnAir(s, pktLen, Absurd) = Absurd \/ D72!TimeOnAir(s, pktLen, Absurd) = ms
  BY DEF D72!TimeOnAir, bits, per, quarter, tmp, quarters
<1> QED
  BY <1>8, <1>9

AnswerTyped == answer \in [len : Nat, ms : Nat \cup {Absurd}]

\* Every call but GetTimeOnAir forgets the answer or keeps it; GetTimeOnAir is
\* called of a configured radio, whose spreading factor is one.
LEMMA AnswerNextInv == SignalInv /\ AnswerTyped /\ [Next]_vars => AnswerTyped'
<1> SUFFICES ASSUME SignalInv, AnswerTyped, [Next]_vars
             PROVE  AnswerTyped'
  OBVIOUS
<1>1. NoAnswer \in [len : Nat, ms : Nat \cup {Absurd}]
  BY SMT DEF NoAnswer
<1>2. ASSUME NEW pktLen \in PktLens, GetTimeOnAir(pktLen)
      PROVE  AnswerTyped'
  <2>1. pktLen \in Nat
    BY ConfigAssumption
  <2>2. settings \in SettingsType /\ settings.Datarate \in 6..12
    <3>1. configured /\ regs.sf \in 6..12
      BY <1>2, Zenon DEF GetTimeOnAir, SignalInv, RegsTypes, RegsType
    <3> QED
      BY <3>1, Zenon DEF SignalInv, RegsTypes, Mirrored
  <2>3. /\ D76!TimeOnAir(settings, pktLen, Absurd) \in Nat \cup {Absurd}
        /\ D72!TimeOnAir(settings, pktLen, Absurd) \in Nat \cup {Absurd}
    BY <2>1, <2>2, TimeTyped76, TimeTyped72, Zenon
  <2> QED
    BY <1>2, <2>1, <2>3, Zenon DEF GetTimeOnAir, AnswerTyped, Pick
<1>3. CASE Next
  <2>1. ASSUME \/ Init127x \/ SetRx \/ Restart
               \/ \E freq \in Channels : SetChannel(freq)
               \/ \E p \in Configs : Configure(p)
        PROVE  answer' = NoAnswer
    BY <2>1, Zenon DEF Init127x, SetRx, Restart, SetChannel, Configure
  <2> QED
    BY <1>1, <1>2, <1>3, <2>1, Zenon DEF Next, AnswerTyped
<1>4. CASE UNCHANGED vars
  BY <1>4, Zenon DEF vars, AnswerTyped
<1> QED
  BY <1>3, <1>4

-----------------------------------------------------------------------------
(* What GetTimeOnAir computes.                                             *)

\* Rounded up, b / p is the fewest blocks that carry b.
LEMMA RoundedUp ==
  ASSUME NEW b \in 0..515, NEW p \in 6..12
  PROVE  LET n == (b + p - 1) \div p
         IN  n \in 0..100 /\ n * p >= b /\ (n - 1) * p < b
<1>1. p = 6 => LET n == (b + p - 1) \div p
               IN  n \in 0..100 /\ n * p >= b /\ (n - 1) * p < b
  OBVIOUS
<1>2. p = 7 => LET n == (b + p - 1) \div p
               IN  n \in 0..100 /\ n * p >= b /\ (n - 1) * p < b
  OBVIOUS
<1>3. p = 8 => LET n == (b + p - 1) \div p
               IN  n \in 0..100 /\ n * p >= b /\ (n - 1) * p < b
  OBVIOUS
<1>4. p = 9 => LET n == (b + p - 1) \div p
               IN  n \in 0..100 /\ n * p >= b /\ (n - 1) * p < b
  OBVIOUS
<1>5. p = 10 => LET n == (b + p - 1) \div p
                IN  n \in 0..100 /\ n * p >= b /\ (n - 1) * p < b
  OBVIOUS
<1>6. p = 11 => LET n == (b + p - 1) \div p
                IN  n \in 0..100 /\ n * p >= b /\ (n - 1) * p < b
  OBVIOUS
<1>7. p = 12 => LET n == (b + p - 1) \div p
                IN  n \in 0..100 /\ n * p >= b /\ (n - 1) * p < b
  OBVIOUS
<1> QED
  BY <1>1, <1>2, <1>3, <1>4, <1>5, <1>6, <1>7

\* Less blocks carry less.
LEMMA Fewer ==
  ASSUME NEW k \in Nat, NEW n \in Nat, k <= n, NEW p \in 6..12
  PROVE  k * p <= n * p
<1>1. n * p - k * p = (n - k) * p
  OBVIOUS
<1>2. \A a \in Nat : a * p \in Nat
  OBVIOUS
<1>3. (n - k) * p \in Nat /\ n * p \in Nat /\ k * p \in Nat
  BY <1>2
<1> QED
  BY <1>1, <1>3

\* ... and it is the only number that is.
LEMMA FewestBlocks ==
  ASSUME NEW b \in 0..515, NEW p \in 6..12
  PROVE  /\ (b + p - 1) \div p \in 0..100
         /\ (b + p - 1) \div p
              = CHOOSE n \in 0..100 : n * (4 * p) >= 4 * b /\ \A k \in 0..n-1 : k * (4 * p) < 4 * b
<1> DEFINE blocks == (b + p - 1) \div p
           Least(n) == n * (4 * p) >= 4 * b /\ \A k \in 0..n-1 : k * (4 * p) < 4 * b
<1>1. blocks \in 0..100 /\ blocks * p >= b /\ (blocks - 1) * p < b
  BY RoundedUp
<1>2. \A n \in Nat : n * (4 * p) = 4 * (n * p) /\ n * p \in Nat
  OBVIOUS
<1> HIDE DEF blocks
<1>3. Least(blocks)
  <2>1. ASSUME NEW k \in 0..blocks-1 PROVE k * (4 * p) < 4 * b
    <3>1. k \in Nat /\ blocks - 1 \in Nat /\ k <= blocks - 1
      BY <1>1
    <3>2. k * p <= (blocks - 1) * p /\ k * (4 * p) = 4 * (k * p) /\ k * p \in Nat /\ (blocks - 1) * p \in Nat
      BY <3>1, <1>2, Fewer
    <3> DEFINE kp == k * p
               bp == (blocks - 1) * p
    <3>3. kp \in Nat /\ bp \in Nat /\ kp <= bp /\ bp < b /\ k * (4 * p) = 4 * kp
      BY <3>2, <1>1
    <3> HIDE DEF kp, bp
    <3> QED
      BY <3>3
  <2>2. blocks * (4 * p) >= 4 * b
    <3> DEFINE bp == blocks * p
    <3>1. bp \in Nat /\ bp >= b /\ blocks * (4 * p) = 4 * bp
      BY <1>1, <1>2
    <3> HIDE DEF bp
    <3> QED
      BY <3>1
  <2> QED
    BY <2>1, <2>2
<1>4. ASSUME NEW n \in 0..100, Least(n) PROVE n = blocks
  <2>1. ~(n < blocks)
    <3> SUFFICES ASSUME n < blocks PROVE FALSE
      OBVIOUS
    <3>1. n \in 0..blocks-1
      BY <1>1
    <3>2. n * (4 * p) < 4 * b /\ n * (4 * p) >= 4 * b
      BY <3>1, <1>3, <1>4
    <3>3. n * (4 * p) \in Int
      OBVIOUS
    <3> QED
      BY <3>2, <3>3
  <2>2. ~(blocks < n)
    <3> SUFFICES ASSUME blocks < n PROVE FALSE
      OBVIOUS
    <3>1. blocks \in 0..n-1
      BY <1>1
    <3>2. blocks * (4 * p) < 4 * b /\ blocks * (4 * p) >= 4 * b
      BY <3>1, <1>3, <1>4
    <3>3. blocks * (4 * p) \in Int
      BY <1>1
    <3> QED
      BY <3>2, <3>3
  <2> QED
    BY <2>1, <2>2, <1>1
<1> HIDE DEF Least
<1>5. blocks = CHOOSE n \in 0..100 : Least(n)
  BY <1>1, <1>3, <1>4
<1> QED
  BY <1>1, <1>5 DEF Least, blocks

\* A quarter of a symbol is a whole number of microseconds: q of them last as long
\* as SX127xConfig says of a symbol.
LEMMA Micros ==
  ASSUME NEW q \in Nat, NEW sf \in 6..12
  PROVE  /\ (q * 2^sf * 2) \div 1 = q * ((2^sf * 4) \div 2)
         /\ (q * 2^sf * 2) \div 2 = q * ((2^sf * 2) \div 2)
         /\ (q * 2^sf * 2) \div 4 = q * ((2^sf * 1) \div 2)
         /\ (2^sf * 4) \div 2 \in Nat /\ (2^sf * 2) \div 2 \in Nat /\ (2^sf * 1) \div 2 \in Nat
<1>1. sf = 6 => 2^sf = 64
  BY Powers
<1>2. sf = 7 => 2^sf = 128
  BY Powers
<1>3. sf = 8 => 2^sf = 256
  BY Powers
<1>4. sf = 9 => 2^sf = 512
  BY Powers
<1>5. sf = 10 => 2^sf = 1024
  BY Powers
<1>6. sf = 11 => 2^sf = 2048
  BY Powers
<1>7. sf = 12 => 2^sf = 4096
  BY Powers
<1>8. 2^sf \in {64, 128, 256, 512, 1024, 2048, 4096}
  BY <1>1, <1>2, <1>3, <1>4, <1>5, <1>6, <1>7
<1>9. ASSUME NEW chips \in {64, 128, 256, 512, 1024, 2048, 4096}
      PROVE  /\ (q * chips * 2) \div 1 = q * ((chips * 4) \div 2)
             /\ (q * chips * 2) \div 2 = q * ((chips * 2) \div 2)
             /\ (q * chips * 2) \div 4 = q * ((chips * 1) \div 2)
             /\ (chips * 4) \div 2 \in Nat /\ (chips * 2) \div 2 \in Nat /\ (chips * 1) \div 2 \in Nat
  <2>1. CASE chips = 64
    BY <2>1
  <2>2. CASE chips = 128
    BY <2>2
  <2>3. CASE chips = 256
    BY <2>3
  <2>4. CASE chips = 512
    BY <2>4
  <2>5. CASE chips = 1024
    BY <2>5
  <2>6. CASE chips = 2048
    BY <2>6
  <2>7. CASE chips = 4096
    BY <2>7
  <2> QED
    BY <2>1, <2>2, <2>3, <2>4, <2>5, <2>6, <2>7
<1> DEFINE chips == 2^sf
<1> HIDE DEF chips
<1>10. chips \in {64, 128, 256, 512, 1024, 2048, 4096}
  BY <1>8 DEF chips
<1>11. /\ (q * chips * 2) \div 1 = q * ((chips * 4) \div 2)
       /\ (q * chips * 2) \div 2 = q * ((chips * 2) \div 2)
       /\ (q * chips * 2) \div 4 = q * ((chips * 1) \div 2)
       /\ (chips * 4) \div 2 \in Nat /\ (chips * 2) \div 2 \in Nat /\ (chips * 1) \div 2 \in Nat
  BY <1>9, <1>10
<1> QED
  BY <1>11 DEF chips

\* Rounded up to milliseconds.
LEMMA Millis ==
  ASSUME NEW us \in Nat
  PROVE  LET ms == (us + 999) \div 1000
         IN  ms \in Nat /\ (ms - 1) * 1000 < us /\ us <= ms * 1000
OBVIOUS

\* A sum that is negative wraps to an absurd one.
LEMMA Wrapped ==
  ASSUME NEW x \in (-50)..515
  PROVE  /\ x >= 0 => x % 2^30 = x /\ ~(x % 2^30 >= 2^29)
         /\ x < 0 => x % 2^30 >= 2^29
OBVIOUS

-----------------------------------------------------------------------------
(* The answers are those of the definition.                                *)

\* The rest of the copy: everything the time on air depends on.
Copied ==
  configured => /\ settings.Coderate = regs.cr
                /\ settings.PreambleLen = regs.preamble
                /\ settings.FixLen = regs.implicit
                /\ settings.CrcOn = regs.crc
                /\ settings.LowDatarateOptimize = regs.ldro

\* A quarter of the bits that the first 8 symbols leave of a payload of len bytes.
BitsOf(len) ==
  2 * len - regs.sf + 7 + (IF regs.crc THEN 4 ELSE 0) - (IF regs.implicit THEN 5 ELSE 0)

\* The first 8 symbols have room for more than the payload: the sum that the
\* drivers compute without sign wraps.
Wraps(len) == BitsOf(len) < 0

\* ms is the time of so many symbols, rounded up.
Rounds(ms, preamble, symbols, sf, width) ==
  LET quarters == 4 * (preamble + symbols) + 17
      us == (quarters * 2^sf * 2) \div width
  IN  ms # Absurd /\ (ms - 1) * 1000 < us /\ us <= ms * 1000

\* ms is the time that the chip takes for len bytes, rounded up.
TimeIs(len, ms) == Rounds(ms, regs.preamble, SymbolsOf(len), regs.sf, Width)

Answered(len, ms) == IF Wraps(len) THEN ms = Absurd ELSE TimeIs(len, ms)

\* A quarter of a symbol in microseconds is the chip's.
QuarterIs(quarter) == \A q \in Nat : (q * 2^regs.sf * 2) \div Width = q * quarter

PerSymbol == regs.sf - (IF regs.ldro THEN 2 ELSE 0)

\* What TimeOnAir makes of the bits left.
Millisecs(bits, per, preamble, cr, quarter) ==
  IF bits >= 2^29
    THEN Absurd
    ELSE ((4 * preamble + 17 + 4 * (8 + ((bits + per - 1) \div per) * (cr + 4)))
          * quarter + 999) \div 1000

\* The low data rate is for the two slowest spreading factors.
LEMMA LdroSlow ==
  ASSUME SignalInv, configured, regs.ldro
  PROVE  regs.sf \in 11..12
<1>1. regs.sf \in 6..12 /\ settings.Bandwidth = regs.bw /\ regs.bw \in Narrow..(Narrow + 2)
  BY DEF SignalInv, RegsTypes, RegsType, Mirrored
<1>2. 2^regs.sf * 8 > 16000 * Width
  BY DEF SignalInv, SignalConsistent
<1>3. PICK w \in 0..2 : regs.bw - Pick(7, 0) = w
  BY <1>1 DEF Narrow, Pick
<1>4. LongSymbol(2^regs.sf, 2^w)
  BY <1>2, <1>3 DEF Width, LongSymbol
<1>5. D72!LowDatarateOptimize(w, regs.sf)
  BY <1>1, <1>4, LowRateExact
<1> QED
  BY <1>5 DEF D72!LowDatarateOptimize

\* What both drivers compute, for a quarter of a symbol that is the chip's.
LEMMA Computed ==
  ASSUME SignalInv, configured, NEW len \in 0..255, NEW quarter \in Nat, NEW ms,
         QuarterIs(quarter), 
         ms = Millisecs(BitsOf(len) % 2^30, PerSymbol, regs.preamble, regs.cr, quarter)
  PROVE  Answered(len, ms)
<1> USE DEF QuarterIs, Millisecs, PerSymbol
<1> DEFINE b == BitsOf(len)
           p == regs.sf - (IF regs.ldro THEN 2 ELSE 0)
           blocks == (b + p - 1) \div p
           tmp == blocks * (regs.cr + 4)
           quarters == 4 * regs.preamble + 17 + 4 * (8 + tmp)
<1>1. /\ regs.sf \in 6..12 /\ regs.cr \in 1..4 /\ regs.preamble \in Nat
      /\ regs.ldro \in BOOLEAN /\ regs.crc \in BOOLEAN /\ regs.implicit \in BOOLEAN
  BY DEF SignalInv, RegsTypes, RegsType
<1>2. b \in (-50)..515
  <2> DEFINE crc == IF regs.crc THEN 4 ELSE 0
             header == IF regs.implicit THEN 5 ELSE 0
  <2>1. crc \in {0, 4} /\ header \in {0, 5}
    OBVIOUS
  <2>2. b = 2 * len - regs.sf + 7 + crc - header
    BY DEF BitsOf
  <2> HIDE DEF b, crc, header
  <2>3. regs.sf \in 6..12 /\ len \in 0..255
    BY <1>1
  <2>4. \A sf \in 6..12, n \in 0..255, c \in {0, 4}, h \in {0, 5} :
          2 * n - sf + 7 + c - h \in (-50)..515
    OBVIOUS
  <2> QED
    BY <2>1, <2>2, <2>3, <2>4
<1>3. p \in 6..12
  <2>1. regs.ldro => regs.sf \in 11..12
    BY LdroSlow
  <2> QED
    BY <1>1, <2>1
<1>4. CASE b < 0
  BY <1>2, <1>4, Wrapped DEF Wraps, Answered
<1>5. CASE b >= 0
  <2>1. b \in 0..515 /\ b % 2^30 = b /\ ~(b % 2^30 >= 2^29)
    BY <1>2, <1>5, Wrapped
  <2>2. /\ blocks \in 0..100
        /\ blocks = CHOOSE n \in 0..100 : n * (4 * p) >= 4 * b /\ \A k \in 0..n-1 : k * (4 * p) < 4 * b
    BY <1>3, <2>1, FewestBlocks
  <2>3. ms = (quarters * quarter + 999) \div 1000
    BY <2>1
  <2>4. SymbolsOf(len) = 8 + tmp
    <3> DEFINE bits == 8 * len - 4 * regs.sf + 28 + (IF regs.crc THEN 16 ELSE 0)
                                         - (IF regs.implicit THEN 20 ELSE 0)
               perBlock == 4 * (regs.sf - IF regs.ldro THEN 2 ELSE 0)
    <3>1. bits = 4 * b
      <4>1. CASE regs.crc /\ regs.implicit
        BY <1>1, <4>1 DEF BitsOf
      <4>2. CASE regs.crc /\ ~regs.implicit
        BY <1>1, <4>2 DEF BitsOf
      <4>3. CASE ~regs.crc /\ regs.implicit
        BY <1>1, <4>3 DEF BitsOf
      <4>4. CASE ~regs.crc /\ ~regs.implicit
        BY <1>1, <4>4 DEF BitsOf
      <4> HIDE DEF b, bits
      <4> QED
        BY <4>1, <4>2, <4>3, <4>4
    <3>2. perBlock = 4 * p
      OBVIOUS
    <3>3. SymbolsOf(len) = 8 + (CHOOSE n \in 0..100 : n * perBlock >= bits /\ \A k \in 0..n-1 : k * perBlock < bits)
                               * (regs.cr + 4)
      BY DEF SymbolsOf
    <3> HIDE DEF bits, perBlock, b, p, blocks
    <3> QED
      BY <2>2, <3>1, <3>2, <3>3
  <2>5. tmp \in Nat
    <3>1. \A x \in 0..100, y \in 5..8 : x * y \in Nat
      OBVIOUS
    <3>2. regs.cr + 4 \in 5..8
      BY <1>1
    <3> HIDE DEF blocks
    <3> QED
      BY <2>2, <3>1, <3>2
  <2> HIDE DEF tmp
  <2>6. quarters \in Nat /\ 4 * (regs.preamble + SymbolsOf(len)) + 17 = quarters
    BY <1>1, <2>4, <2>5
  <2> HIDE DEF quarters
  <2> DEFINE us == quarters * quarter
  <2>7. us \in Nat /\ (quarters * 2^regs.sf * 2) \div Width = us
    BY <2>6, Arith
  <2> HIDE DEF us
  <2>8. ms \in Nat /\ (ms - 1) * 1000 < us /\ us <= ms * 1000
    BY <2>3, <2>7, Millis DEF us
  <2>9. TimeIs(len, ms)
    BY <2>6, <2>7, <2>8, ConfigAssumption DEF TimeIs, Rounds
  <2> QED
    BY <1>5, <1>2, <2>9 DEF Answered, Wraps
<1> QED
  BY <1>2, <1>4, <1>5

\* GetTimeOnAir of the SX1276.
LEMMA Answer76 ==
  ASSUME SignalInv, Copied, configured, chip = "SX1276", NEW len \in 0..255
  PROVE  Answered(len, D76!TimeOnAir(settings, len, Absurd))
<1> DEFINE ms == D76!TimeOnAir(settings, len, Absurd)
           quarter == D76!QuarterSymbol(settings)
<1>1. /\ settings.Bandwidth = regs.bw /\ settings.Datarate = regs.sf
      /\ settings.Coderate = regs.cr /\ settings.PreambleLen = regs.preamble
      /\ settings.FixLen = regs.implicit /\ settings.CrcOn = regs.crc
      /\ settings.LowDatarateOptimize = regs.ldro
  BY DEF SignalInv, Mirrored, Copied
<1>2. regs.sf \in 6..12
  BY DEF SignalInv, RegsTypes, RegsType
<1>3. PICK w \in 0..2 : regs.bw = w + 7
  BY DEF SignalInv, Mirrored, Narrow, Pick
<1>4. Width = 2^w
  <2>1. regs.bw - Pick(7, 0) = w
    BY <1>3 DEF Pick
  <2> QED
    BY <2>1 DEF Width
<1>5. quarter \in Nat /\ QuarterIs(quarter)
  <2>1. CASE w = 0
    <3>1. Width = 1 /\ quarter = (2^regs.sf * 4) \div 2
      BY <1>1, <1>3, <1>4, <2>1, Powers DEF D76!QuarterSymbol
    <3> HIDE DEF quarter
    <3> QED
      BY <1>2, <3>1, Micros DEF QuarterIs
  <2>2. CASE w = 1
    <3>1. Width = 2 /\ quarter = (2^regs.sf * 2) \div 2
      BY <1>1, <1>3, <1>4, <2>2, Powers DEF D76!QuarterSymbol
    <3> HIDE DEF quarter
    <3> QED
      BY <1>2, <3>1, Micros DEF QuarterIs
  <2>3. CASE w = 2
    <3>1. Width = 4 /\ quarter = (2^regs.sf * 1) \div 2
      BY <1>1, <1>3, <1>4, <2>3, Powers DEF D76!QuarterSymbol
    <3> HIDE DEF quarter
    <3> QED
      BY <1>2, <3>1, Micros DEF QuarterIs
  <2> QED
    BY <2>1, <2>2, <2>3
<1>6. D76!BitsLeft(settings, len) = BitsOf(len) % 2^30
  <2>1. 2 * len - settings.Datarate + 7 + (IF settings.CrcOn THEN 4 ELSE 0)
          - (IF settings.FixLen THEN 5 ELSE 0) = BitsOf(len)
    BY <1>1, Zenon DEF BitsOf
  <2> QED
    BY <1>1, <2>1, Zenon DEF D76!BitsLeft
<1>7. D76!BitsPerSymbol(settings) = PerSymbol
  BY <1>1, Zenon DEF D76!BitsPerSymbol, PerSymbol
<1>8. ms = Millisecs(BitsOf(len) % 2^30, PerSymbol, regs.preamble, regs.cr, quarter)
  <2>1. ms = Millisecs(D76!BitsLeft(settings, len), D76!BitsPerSymbol(settings),
                       settings.PreambleLen, settings.Coderate, quarter)
    BY Zenon DEF D76!TimeOnAir, Millisecs
  <2> HIDE DEF ms, quarter
  <2> QED
    BY <1>1, <1>6, <1>7, <2>1, Zenon
<1> HIDE DEF quarter
<1> HIDE DEF ms
<1>9. Answered(len, ms)
  BY <1>5, <1>8, Computed
<1> QED
  BY <1>9 DEF ms

\* GetTimeOnAir of the SX1272.
LEMMA Answer72 ==
  ASSUME SignalInv, Copied, configured, chip = "SX1272", NEW len \in 0..255
  PROVE  Answered(len, D72!TimeOnAir(settings, len, Absurd))
<1> DEFINE ms == D72!TimeOnAir(settings, len, Absurd)
           quarter == D72!QuarterSymbol(settings)
<1>1. /\ settings.Bandwidth = regs.bw /\ settings.Datarate = regs.sf
      /\ settings.Coderate = regs.cr /\ settings.PreambleLen = regs.preamble
      /\ settings.FixLen = regs.implicit /\ settings.CrcOn = regs.crc
      /\ settings.LowDatarateOptimize = regs.ldro
  BY DEF SignalInv, Mirrored, Copied
<1>2. regs.sf \in 6..12
  BY DEF SignalInv, RegsTypes, RegsType
<1>3. PICK w \in 0..2 : regs.bw = w + 0
  BY DEF SignalInv, Mirrored, Narrow, Pick
<1>4. Width = 2^w
  <2>1. regs.bw - Pick(7, 0) = w
    BY <1>3 DEF Pick
  <2> QED
    BY <2>1 DEF Width
<1>5. quarter \in Nat /\ QuarterIs(quarter)
  <2>1. CASE w = 0
    <3>1. Width = 1 /\ quarter = (2^regs.sf * 4) \div 2
      BY <1>1, <1>3, <1>4, <2>1, Powers DEF D72!QuarterSymbol
    <3> HIDE DEF quarter
    <3> QED
      BY <1>2, <3>1, Micros DEF QuarterIs
  <2>2. CASE w = 1
    <3>1. Width = 2 /\ quarter = (2^regs.sf * 2) \div 2
      BY <1>1, <1>3, <1>4, <2>2, Powers DEF D72!QuarterSymbol
    <3> HIDE DEF quarter
    <3> QED
      BY <1>2, <3>1, Micros DEF QuarterIs
  <2>3. CASE w = 2
    <3>1. Width = 4 /\ quarter = (2^regs.sf * 1) \div 2
      BY <1>1, <1>3, <1>4, <2>3, Powers DEF D72!QuarterSymbol
    <3> HIDE DEF quarter
    <3> QED
      BY <1>2, <3>1, Micros DEF QuarterIs
  <2> QED
    BY <2>1, <2>2, <2>3
<1>6. D72!BitsLeft(settings, len) = BitsOf(len) % 2^30
  <2>1. 2 * len - settings.Datarate + 7 + (IF settings.CrcOn THEN 4 ELSE 0)
          - (IF settings.FixLen THEN 5 ELSE 0) = BitsOf(len)
    BY <1>1, Zenon DEF BitsOf
  <2> QED
    BY <1>1, <2>1, Zenon DEF D72!BitsLeft
<1>7. D72!BitsPerSymbol(settings) = PerSymbol
  BY <1>1, Zenon DEF D72!BitsPerSymbol, PerSymbol
<1>8. ms = Millisecs(BitsOf(len) % 2^30, PerSymbol, regs.preamble, regs.cr, quarter)
  <2>1. ms = Millisecs(D72!BitsLeft(settings, len), D72!BitsPerSymbol(settings),
                       settings.PreambleLen, settings.Coderate, quarter)
    BY Zenon DEF D72!TimeOnAir, Millisecs
  <2> HIDE DEF ms, quarter
  <2> QED
    BY <1>1, <1>6, <1>7, <2>1, Zenon
<1> HIDE DEF quarter
<1> HIDE DEF ms
<1>9. Answered(len, ms)
  BY <1>5, <1>8, Computed
<1> QED
  BY <1>9 DEF ms

\* Configurations copy all of it; nothing else changes it without forgetting that
\* there was one.
LEMMA CopiedNext == SignalInv /\ Copied /\ [Next]_vars => Copied'
<1> SUFFICES ASSUME SignalInv, Copied, [Next]_vars PROVE Copied'
  OBVIOUS
<1>1. /\ settings \in SettingsType /\ regs \in RegsType /\ chip \in {"SX1276", "SX1272"}
  BY ConfigAssumption DEF SignalInv, RegsTypes, Known
<1>2. CASE Init127x \/ Restart
  BY <1>2 DEF Init127x, Restart, Copied
<1>3. ASSUME NEW freq \in Channels, SetChannel(freq) PROVE Copied'
  BY <1>1, <1>3 DEF SetChannel, Copied, SettingsType, RegsType
<1>4. ASSUME NEW p \in Configs, Configure(p) PROVE Copied'
  <2>1. CASE chip = "SX1276"
    <3>1. settings' = D76!ConfigSettings(settings, p) /\ regs' = D76!ConfigRegs(regs, p)
      BY <1>4, <2>1 DEF Configure, Pick
    <3> QED
      BY <1>1, <3>1 DEF Copied, D76!ConfigSettings, D76!ConfigRegs, SettingsType, RegsType
  <2>2. CASE chip = "SX1272"
    <3>1. settings' = D72!ConfigSettings(settings, p) /\ regs' = D72!ConfigRegs(regs, p)
      BY <1>4, <2>2 DEF Configure, Pick
    <3> QED
      BY <1>1, <3>1 DEF Copied, D72!ConfigSettings, D72!ConfigRegs, SettingsType, RegsType
  <2> QED
    BY <1>1, <2>1, <2>2
<1>5. CASE SetRx
  <2>1. CASE chip = "SX1276"
    <3>1. settings' = D76!RxSettings(settings) /\ regs' = D76!RxRegs(regs, settings)
      BY <1>5, <2>1 DEF SetRx, Pick
    <3>2. UNCHANGED configured
      BY <1>5 DEF SetRx
    <3> QED
      BY <1>1, <3>1, <3>2 DEF Copied, D76!RxSettings, D76!RxRegs, D76!Tunes, SettingsType, RegsType
  <2>2. CASE chip = "SX1272"
    BY <1>5, <2>2 DEF SetRx, Pick, Copied, D72!RxSettings, D72!RxRegs
  <2> QED
    BY <1>1, <2>1, <2>2
<1>6. CASE (\E pktLen \in PktLens : GetTimeOnAir(pktLen)) \/ UNCHANGED vars
  BY <1>6 DEF GetTimeOnAir, vars, Copied
<1> QED
  BY <1>2, <1>3, <1>4, <1>5, <1>6 DEF Next

\* An answer is of the registers that are still there.
AnswerInv == call = "GetTimeOnAir" => configured /\ Answered(answer.len, answer.ms)

LEMMA SameAnswer ==
  ASSUME UNCHANGED <<chip, regs>>
  PROVE  \A len, ms : Answered(len, ms) => Answered(len, ms)'
<1> TAKE len, ms
<1>1. BitsOf(len)' = BitsOf(len)
  BY Zenon DEF BitsOf
<1>2. Width' = Width
  BY Zenon DEF Width, Pick
<1>3. SymbolsOf(len)' = SymbolsOf(len)
  BY Zenon DEF SymbolsOf
<1>4. TimeIs(len, ms)' <=> TimeIs(len, ms)
  BY <1>2, <1>3, Zenon DEF TimeIs
<1> QED
  BY <1>1, <1>4, Zenon DEF Answered, Wraps

LEMMA AnswerNext == SignalInv /\ Copied /\ AnswerInv /\ [Next]_vars => AnswerInv'
<1> SUFFICES ASSUME SignalInv, Copied, AnswerInv, [Next]_vars PROVE AnswerInv'
  OBVIOUS
<1>1. ASSUME NEW pktLen \in PktLens, GetTimeOnAir(pktLen) PROVE AnswerInv'
  <2>1. pktLen \in 0..255 /\ configured /\ chip \in {"SX1276", "SX1272"}
    BY <1>1, ConfigAssumption DEF GetTimeOnAir, SignalInv, RegsTypes, Known
  <2>2. PICK ms : ms = Pick(D76!TimeOnAir(settings, pktLen, Absurd),
                            D72!TimeOnAir(settings, pktLen, Absurd))
    OBVIOUS
  <2>3. Answered(pktLen, ms)
    BY <2>1, <2>2, Answer76, Answer72, Zenon DEF Pick
  <2>4. answer' = [len |-> pktLen, ms |-> ms] /\ UNCHANGED <<chip, configured, regs>>
    BY <1>1, <2>2, Zenon DEF GetTimeOnAir
  <2>5. answer'.len = pktLen /\ answer'.ms = ms
    BY <2>4
  <2>6. Answered(pktLen, ms)'
    BY <2>3, <2>4, SameAnswer
  <2>7. Answered(answer.len, answer.ms)'
    BY <2>5, <2>6, Zenon
  <2> QED
    BY <2>1, <2>4, <2>7, Zenon DEF AnswerInv
<1>2. CASE \/ Init127x \/ SetRx \/ Restart
           \/ \E freq \in Channels : SetChannel(freq)
           \/ \E p \in Configs : Configure(p)
  BY <1>2 DEF Init127x, SetRx, Restart, SetChannel, Configure, AnswerInv
<1>3. CASE UNCHANGED vars
  <2>1. UNCHANGED <<chip, regs, answer, call, configured>>
    BY <1>3 DEF vars
  <2>2. Answered(answer.len, answer.ms) => Answered(answer.len, answer.ms)'
    BY <2>1, SameAnswer
  <2> QED
    BY <2>1, <2>2 DEF AnswerInv
<1> QED
  BY <1>1, <1>2, <1>3 DEF Next

-----------------------------------------------------------------------------
(* Theorems.                                                               *)

\* The invariant holds of every behaviour of either driver.
THEOREM SignalInvariant == Spec => []SignalInv
  BY SignalInitInv, SignalNextInv, PTL DEF Spec

\* The settings, the registers and what GetTimeOnAir answers have their types,
\* through every order of calls, Init after Init and restarts included.
THEOREM ConfigTypeCorrect == Spec => []ConfigTypeOK
<1>1. Init => AnswerTyped
  BY SMT DEF Init, AnswerTyped, NoAnswer
<1>2. SignalInv /\ AnswerTyped => ConfigTypeOK
  BY Zenon DEF SignalInv, RegsTypes, Flags, Known, SettingsType, RegsType, AnswerTyped,
               ConfigTypeOK
<1> QED
  BY <1>1, <1>2, AnswerNextInv, SignalInvariant, PTL DEF Spec

\* The low data rate is told to the chip exactly when a symbol is longer than
\* 16 ms, and the detector of spreading factor 6 is on exactly then: Set*Config.
THEOREM ConfigSignalConsistent == Spec => []SignalConsistent
<1>1. SignalInv => SignalConsistent
  BY DEF SignalInv
<1> QED
  BY <1>1, SignalInvariant, PTL

\* A configured SX1276 listens with the intermediate frequency of its
\* bandwidth: SetRx's erratum.
THEOREM ConfigSpursAvoided == Spec => []SpursAvoided
<1>1. SignalInv => SpursAvoided
  BY DEF SignalInv
<1> QED
  BY <1>1, SignalInvariant, PTL

\* A client that configures before it listens keeps the channel it tuned to:
\* the shift of SetRx's erratum is for bandwidths that no configuration chooses.
THEOREM ConfigChannelKept == Spec => [](~RxAnyTime => ChannelKept)
<1>1. SignalInv => (~RxAnyTime => ChannelKept)
  BY DEF SignalInv, KeptInv
<1> QED
  BY <1>1, SignalInvariant, PTL

\* Every answer of GetTimeOnAir is the time that the chip takes for the length it
\* was asked for, rounded up, unless the unsigned sum of sx1276.c:769 wraps: then,
\* and only then, the answer is absurd.
THEOREM ConfigAirTimeInvariant ==
  Spec => [](call = "GetTimeOnAir" => Answered(answer.len, answer.ms))
<1>1. Init => Copied /\ AnswerInv
  BY DEF Init, Copied, AnswerInv
<1>2. SignalInv /\ Copied /\ AnswerInv /\ [Next]_vars => Copied' /\ AnswerInv'
  BY CopiedNext, AnswerNext
<1>3. AnswerInv => (call = "GetTimeOnAir" => Answered(answer.len, answer.ms))
  BY DEF AnswerInv
<1> QED
  BY <1>1, <1>2, <1>3, SignalInvariant, PTL DEF Spec

\* "Computes the packet time on air in ms for the given payload" (radio.h:245): it
\* does for every configuration and every payload of 5 bytes or more.
THEOREM ConfigAirTimeExact ==
  ASSUME \A len \in PktLens : len >= 5
  PROVE  Spec => []AirTimeExact
<1> DEFINE Asked == call = "GetTimeOnAir" => answer.len \in PktLens
<1>1. Init => Asked
  BY DEF Init
<1>2. Asked /\ [Next]_vars => Asked'
  BY DEF Next, Init127x, SetRx, Restart, SetChannel, Configure, GetTimeOnAir, vars
<1>3. SignalInv /\ Asked /\ (call = "GetTimeOnAir" => Answered(answer.len, answer.ms))
        => AirTimeExact
  <2> SUFFICES ASSUME SignalInv, call = "GetTimeOnAir", answer.len \in PktLens,
                      Answered(answer.len, answer.ms)
               PROVE  AirTimeExact
    BY DEF AirTimeExact
  <2>1. answer.len \in 5..255 /\ regs.sf \in 6..12
    <3>1. answer.len >= 5 /\ answer.len \in 0..255
      BY ConfigAssumption
    <3>2. regs.sf \in 6..12
      BY DEF SignalInv, RegsTypes, RegsType
    <3> QED
      BY <3>1, <3>2
  <2> DEFINE crc == IF regs.crc THEN 4 ELSE 0
             header == IF regs.implicit THEN 5 ELSE 0
  <2>2. crc \in {0, 4} /\ header \in {0, 5}
    OBVIOUS
  <2>3. BitsOf(answer.len) = 2 * answer.len - regs.sf + 7 + crc - header
    BY DEF BitsOf
  <2> HIDE DEF crc, header
  <2>4. \A sf \in 6..12, n \in 5..255, c \in {0, 4}, h \in {0, 5} :
          ~(2 * n - sf + 7 + c - h < 0)
    OBVIOUS
  <2>5. ~Wraps(answer.len)
    BY <2>1, <2>2, <2>3, <2>4 DEF Wraps
  <2> QED
    BY <2>5, Zenon DEF Answered, TimeIs, Rounds, AirTimeExact
<1> HIDE DEF Asked
<1> QED
  BY <1>1, <1>2, <1>3, SignalInvariant, ConfigAirTimeInvariant, PTL DEF Spec
=============================================================================
