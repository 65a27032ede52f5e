----------------------------- MODULE SX127xChip -----------------------------
(***************************************************************************)
(* The SX1276 and SX1272 transceivers as their drivers see them: an        *)
(* operating mode, the LongRangeMode bit that chooses the modem, interrupt *)
(* flags, a mask that keeps LoRa interrupts from being flagged, and DIO    *)
(* lines that show the flag they are mapped to.  The chips are not part of *)
(* the repository; what is stated here is what the drivers rely on.        *)
(*                                                                         *)
(* The board captures each rising edge of a wired line as an event in a    *)
(* FIFO.  The LoRa data buffer serves both directions (the drivers set     *)
(* both base addresses to 0).  FSK packets are atomic here: FskPacket has  *)
(* their bytes.                                                            *)
(***************************************************************************)
EXTENDS Naturals, Sequences, RadioFrames

CONSTANT Wired   \* the DIO lines whose edges the board captures

ASSUME WiredAssumption == Wired \subseteq {"DIO0", "DIO1", "DIO3"}

VARIABLES opMode,     \* the mode bits of RegOpMode
          chipModem,  \* its LongRangeMode bit
          irqFlags,   \* the interrupt flags of both modems
          irqMask,    \* the LoRa interrupts that are let through
          dio0,       \* what DIO0 is mapped to
          packetMode, \* FSK: packets, not a continuous wave
          fifo,       \* the frame in the data buffer
          events      \* events captured and not yet dispatched

chipVars == <<opMode, chipModem, irqFlags, irqMask, dio0, packetMode, fifo, events>>

OpModes == {"SLEEP", "STDBY", "TX", "RX", "RX_SINGLE", "CAD"}
Modems == {"FSK", "LORA"}
LoraIrqs == {"TX_DONE", "RX_DONE", "CRC_ERROR", "RX_TIMEOUT", "CAD_DONE", "CAD_DETECTED"}
FskIrqs == {"PACKET_SENT", "PAYLOAD_READY"}

ChipTypeOK ==
  /\ opMode \in OpModes
  /\ chipModem \in Modems
  /\ irqFlags \subseteq LoraIrqs \cup FskIrqs
  /\ irqMask \subseteq LoraIrqs
  /\ dio0 \in {"00", "01", "11"}
  /\ packetMode \in BOOLEAN
  /\ fifo \in Frames
  /\ events \in Seq(Wired)

PowerOn ==
  [opMode |-> "STDBY", chipModem |-> "FSK", irqFlags |-> {}, irqMask |-> LoraIrqs,
   dio0 |-> "00", packetMode |-> TRUE]

ChipInit ==
  /\ opMode = PowerOn.opMode
  /\ chipModem = PowerOn.chipModem
  /\ irqFlags = PowerOn.irqFlags
  /\ irqMask = PowerOn.irqMask
  /\ dio0 = PowerOn.dio0
  /\ packetMode = PowerOn.packetMode
  /\ fifo = NoFrame
  /\ events = <<>>

\* DIO0 shows RxDone or TxDone of LoRa, PayloadReady or PacketSent of FSK; DIO1
\* RxTimeout and DIO3 CadDone of LoRa.
High(line, modem, flags, map) ==
  \/ line = "DIO0" /\ modem = "LORA" /\ map = "00" /\ "RX_DONE" \in flags
  \/ line = "DIO0" /\ modem = "LORA" /\ map = "01" /\ "TX_DONE" \in flags
  \/ line = "DIO0" /\ modem = "FSK" /\ map = "00" /\ flags \cap FskIrqs # {}
  \/ line = "DIO1" /\ modem = "LORA" /\ "RX_TIMEOUT" \in flags
  \/ line = "DIO3" /\ modem = "LORA" /\ "CAD_DONE" \in flags

Captured(line, rises) == IF line \in Wired /\ rises THEN <<line>> ELSE <<>>

\* Flags, modem or mapping change; each wired line that rises is captured.
SetLines(modem, flags, map) ==
  LET edge(line) == Captured(line, /\ ~High(line, chipModem, irqFlags, dio0)
                                   /\ High(line, modem, flags, map))
  IN  /\ chipModem' = modem
      /\ irqFlags' = flags
      /\ dio0' = map
      /\ events' = events \o edge("DIO0") \o edge("DIO1") \o edge("DIO3")

SetFlags(flags) == SetLines(chipModem, flags, dio0)

\* The FSK FIFO holds no packet once the chip transmits, listens or sleeps, and
\* PacketSent ends with the transmission.
FlagsEntering(mode) ==
  irqFlags \ IF mode = opMode THEN {}
             ELSE (IF opMode = "TX" THEN {"PACKET_SENT"} ELSE {})
                  \cup (IF mode = "STDBY" THEN {} ELSE {"PAYLOAD_READY"})

\* A write to RegOpMode.  Sleep clears the data buffer; whether it keeps the
\* LoRa flags is left open.
EnterMode(mode) ==
  /\ opMode' = mode
  /\ \E kept \in IF mode = "SLEEP" THEN {{}, LoraIrqs} ELSE {LoraIrqs} :
       SetFlags(FlagsEntering(mode) \cap (kept \cup FskIrqs))
  /\ fifo' = IF mode = "SLEEP" THEN NoFrame ELSE fifo

-----------------------------------------------------------------------------
(* What the chip does by itself.                                           *)

Latch(irqs) == SetFlags(irqFlags \cup (irqs \cap (irqMask \cup FskIrqs)))

\* A LoRa transmission ends in standby.
LoraTxDone ==
  /\ opMode = "TX"
  /\ chipModem = "LORA"
  /\ opMode' = "STDBY"
  /\ Latch({"TX_DONE"})
  /\ UNCHANGED <<irqMask, packetMode, fifo>>

\* An FSK chip goes on transmitting: first its FIFO runs empty (DIO1), then the
\* packet has been sent.
FskTxDone ==
  /\ opMode = "TX"
  /\ chipModem = "FSK"
  /\ packetMode
  /\ "PACKET_SENT" \notin irqFlags
  /\ irqFlags' = irqFlags \cup {"PACKET_SENT"}
  /\ events' = events \o Captured("DIO1", TRUE) \o Captured("DIO0", dio0 = "00")
  /\ UNCHANGED <<opMode, chipModem, irqMask, dio0, packetMode, fifo>>

\* A frame has been received, with a correct payload checksum or a wrong one.
LoraRxDone(f) ==
  /\ opMode \in {"RX", "RX_SINGLE"}
  /\ chipModem = "LORA"
  /\ opMode' = IF opMode = "RX_SINGLE" THEN "STDBY" ELSE opMode
  /\ fifo' = f
  /\ Latch(IF f = Garbled THEN {"RX_DONE", "CRC_ERROR"} ELSE {"RX_DONE"})
  /\ UNCHANGED <<irqMask, packetMode>>

\* A long packet raises FifoLevel (DIO1) before PayloadReady.  The next one is
\* received when the FIFO has been read.
FskRxDone(f, long) ==
  /\ opMode = "RX"
  /\ chipModem = "FSK"
  /\ "PAYLOAD_READY" \notin irqFlags
  /\ fifo' = f
  /\ irqFlags' = irqFlags \cup {"PAYLOAD_READY"}
  /\ events' = events \o Captured("DIO1", long) \o Captured("DIO0", dio0 = "00")
  /\ UNCHANGED <<opMode, chipModem, irqMask, dio0, packetMode>>

RxTimesOut ==
  /\ opMode = "RX_SINGLE"
  /\ chipModem = "LORA"
  /\ opMode' = "STDBY"
  /\ Latch({"RX_TIMEOUT"})
  /\ UNCHANGED <<irqMask, packetMode, fifo>>

CadDone(activity) ==
  /\ opMode = "CAD"
  /\ chipModem = "LORA"
  /\ opMode' = "STDBY"
  /\ Latch(IF activity THEN {"CAD_DONE", "CAD_DETECTED"} ELSE {"CAD_DONE"})
  /\ UNCHANGED <<irqMask, packetMode, fifo>>

ChipSends == LoraTxDone \/ FskTxDone
ChipReceives ==
  \/ \E f \in RxFrames \cup {Garbled} :
       LoraRxDone(f) \/ \E long \in BOOLEAN : FskRxDone(f, long)
  \/ RxTimesOut
  \/ \E activity \in BOOLEAN : CadDone(activity)
=============================================================================
