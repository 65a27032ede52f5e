---------------------------- MODULE SX127xConfig ----------------------------
(***************************************************************************)
(* The registers that shape the LoRa signal of an SX1276 or SX1272, beside *)
(* the copy of them in Settings from which the drivers compute the time on *)
(* air and the errata they work around.  Calls do not overlap, so each is  *)
(* one step.  FSK has registers of its own and is left out.                *)
(***************************************************************************)
EXTENDS Integers

CONSTANTS Chips,       \* which of the two radios
          Channels,    \* frequencies the client tunes to, in Hz
          Configs,     \* the arguments of SetRxConfig and SetTxConfig
          PktLens,     \* payload lengths GetTimeOnAir is asked for
          MaxChannel,  \* bounds the frequency in Settings
          RxAnyTime,   \* the client may listen before it configures
          Absurd       \* a time on air that is none

Arguments == [bandwidth : 0..2, datarate : 6..12, coderate : 1..4,
              preambleLen : Nat, fixLen : BOOLEAN, crcOn : BOOLEAN]

ASSUME ConfigAssumption ==
  /\ Chips \subseteq {"SX1276", "SX1272"}
  /\ Channels \subseteq Nat
  /\ Configs \subseteq Arguments
  /\ PktLens \subseteq 0..255
  /\ MaxChannel \in Nat
  /\ RxAnyTime \in BOOLEAN
  /\ Absurd \notin Nat

VARIABLES chip,
          booted,      \* Init has been called since the restart
          configured,  \* SetRxConfig or SetTxConfig has been, since Init
          settings,    \* Settings.Channel and Settings.LoRa
          regs,        \* the registers
          tuned,       \* the frequency the client asked for last
          call,        \* the last call
          answer       \* what GetTimeOnAir answered, and to which length

vars == <<chip, booted, configured, settings, regs, tuned, call, answer>>

Calls == {"none", "Init", "SetChannel", "Config", "SetRx", "GetTimeOnAir", "Restart"}
NoAnswer == [len |-> 0, ms |-> 0]

ConfigTypeOK ==
  /\ chip \in Chips
  /\ booted \in BOOLEAN
  /\ configured \in BOOLEAN
  /\ settings \in [Channel : Nat, Bandwidth : 0..9, Datarate : {0} \cup 6..12,
                   Coderate : 0..4, PreambleLen : Nat, FixLen : BOOLEAN,
                   CrcOn : BOOLEAN, LowDatarateOptimize : BOOLEAN]
  /\ regs \in [frf : Nat, bw : 0..9, sf : 6..12, cr : 1..4, preamble : Nat,
               implicit : BOOLEAN, crc : BOOLEAN, ldro : BOOLEAN,
               detectSf6 : BOOLEAN, autoIf : BOOLEAN, ifFreq1 : {32, 64, 68, 72}]
  /\ tuned \in Nat
  /\ call \in Calls
  /\ answer \in [len : Nat, ms : Nat \cup {Absurd}]

D76 == INSTANCE SX1276
D72 == INSTANCE SX1272
Pick(of1276, of1272) == IF chip = "SX1276" THEN of1276 ELSE of1272

Statics == [Channel |-> 0, Bandwidth |-> 0, Datarate |-> 0, Coderate |-> 0,
            PreambleLen |-> 0, FixLen |-> FALSE, CrcOn |-> FALSE,
            LowDatarateOptimize |-> FALSE]

\* After a reset: 434 MHz (915 MHz for the SX1272), 125 kHz, SF7, 4/5.
Reset == [frf |-> Pick(434000000, 915000000), bw |-> Pick(7, 0), sf |-> 7, cr |-> 1,
          preamble |-> 8, implicit |-> FALSE, crc |-> FALSE, ldro |-> FALSE,
          detectSf6 |-> FALSE, autoIf |-> TRUE, ifFreq1 |-> 32]

Init ==
  /\ chip \in Chips
  /\ booted = FALSE
  /\ configured = FALSE
  /\ settings = Statics
  /\ regs = Reset
  /\ tuned = 0
  /\ call = "none"
  /\ answer = NoAnswer

-----------------------------------------------------------------------------
(* The calls.                                                              *)

Init127x ==
  /\ booted' = TRUE
  /\ configured' = FALSE
  /\ regs' = Pick(D76!InitRegs(regs, Reset), D72!InitRegs(regs, Reset))
  /\ settings' = Pick(D76!InitSettings(settings, Reset), D72!InitSettings(settings, Reset))
  /\ tuned' = 0
  /\ call' = "Init"
  /\ answer' = NoAnswer
  /\ UNCHANGED chip

\* The register counts steps of 61 Hz; the rounding is left out.
SetChannel(freq) ==
  /\ booted
  /\ settings' = [settings EXCEPT !.Channel = freq]
  /\ regs' = [regs EXCEPT !.frf = freq]
  /\ tuned' = freq
  /\ call' = "SetChannel"
  /\ answer' = NoAnswer
  /\ UNCHANGED <<chip, booted, configured>>

\* SetRxConfig or SetTxConfig: what they set of these registers is the same.
Configure(p) ==
  /\ booted
  /\ configured' = TRUE
  /\ settings' = Pick(D76!ConfigSettings(settings, p), D72!ConfigSettings(settings, p))
  /\ regs' = Pick(D76!ConfigRegs(regs, p), D72!ConfigRegs(regs, p))
  /\ call' = "Config"
  /\ answer' = NoAnswer
  /\ UNCHANGED <<chip, booted, tuned>>

SetRx ==
  /\ booted
  /\ configured \/ RxAnyTime
  /\ settings.Channel <= MaxChannel
  /\ settings' = Pick(D76!RxSettings(settings), D72!RxSettings(settings))
  /\ regs' = Pick(D76!RxRegs(regs, settings), D72!RxRegs(regs, settings))
  /\ call' = "SetRx"
  /\ answer' = NoAnswer
  /\ UNCHANGED <<chip, booted, configured, tuned>>

\* "Can only be called once SetRxConfig or SetTxConfig have been called"
\* (radio.h:247).
GetTimeOnAir(pktLen) ==
  /\ configured
  /\ answer' = [len |-> pktLen,
                ms |-> Pick(D76!TimeOnAir(settings, pktLen, Absurd),
                            D72!TimeOnAir(settings, pktLen, Absurd))]
  /\ call' = "GetTimeOnAir"
  /\ UNCHANGED <<chip, booted, configured, settings, regs, tuned>>

\* The microcontroller restarts; the chip keeps its registers.
Restart ==
  /\ booted' = FALSE
  /\ configured' = FALSE
  /\ settings' = Statics
  /\ tuned' = 0
  /\ call' = "Restart"
  /\ answer' = NoAnswer
  /\ UNCHANGED <<chip, regs>>

Next ==
  \/ Init127x \/ SetRx \/ Restart
  \/ \E freq \in Channels : SetChannel(freq)
  \/ \E p \in Configs : Configure(p)
  \/ \E pktLen \in PktLens : GetTimeOnAir(pktLen)

Spec == Init /\ [][Next]_vars

-----------------------------------------------------------------------------
(* Properties, stated of the registers alone: the signal the chip sends.   *)

\* Its bandwidth in units of 125 kHz.
Width == 2^(regs.bw - Pick(7, 0))

\* A symbol takes 2^sf * 8 / Width microseconds; above 16 ms the chip has to be
\* told, and spreading factor 6 needs a detector of its own.
SignalConsistent ==
  configured => /\ regs.ldro <=> 2^regs.sf * 8 > 16000 * Width
                /\ regs.detectSf6 <=> regs.sf = 6

\* Errata 2.3 of the SX1276: while it listens, its intermediate frequency is
\* automatic at 500 kHz and set by hand below.
SpursAvoided ==
  chip = "SX1276" /\ configured /\ call = "SetRx" =>
    IF Width = 4 THEN regs.autoIf ELSE ~regs.autoIf /\ regs.ifFreq1 = 64

\* "Sets the channel frequency" (radio.h:124): the chip stays on the frequency
\* the client asked for last, and Settings know it.
ChannelKept == tuned # 0 => regs.frf = tuned /\ settings.Channel = tuned

\* Semtech's definition of the time on air, from the registers: the fewest
\* blocks of cr + 4 symbols that carry the bits the first 8 symbols leave.
SymbolsOf(len) ==
  LET bits == 8 * len - 4 * regs.sf + 28 + (IF regs.crc THEN 16 ELSE 0)
                                         - (IF regs.implicit THEN 20 ELSE 0)
      perBlock == 4 * (regs.sf - IF regs.ldro THEN 2 ELSE 0)
      blocks == CHOOSE n \in 0..100 : n * perBlock >= bits /\ \A k \in 0..n-1 : k * perBlock < bits
  IN  8 + blocks * (regs.cr + 4)

\* "Computes the packet time on air in ms for the given payload" (radio.h:245):
\* the answer is the time the chip would take, rounded up, from the copy that
\* the driver keeps of registers it never reads back.
AirTimeExact ==
  call = "GetTimeOnAir" =>
    LET quarters == 4 * (regs.preamble + SymbolsOf(answer.len)) + 17
        us == (quarters * 2^regs.sf * 2) \div Width
    IN  answer.ms # Absurd /\ (answer.ms - 1) * 1000 < us /\ us <= answer.ms * 1000
=============================================================================
