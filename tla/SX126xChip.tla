----------------------------- MODULE SX126xChip -----------------------------
(***************************************************************************)
(* The SX126x transceiver as the driver in src/radio/sx126x sees it: an    *)
(* operating mode, an interrupt status register gated by a mask, a DIO1    *)
(* line that is high while an unmasked interrupt is latched, one data      *)
(* buffer shared by both directions (the driver sets both base addresses   *)
(* to 0), and an antenna switch driven by the board.  The chip is not part *)
(* of the repository; what is stated here is what the driver relies on.    *)
(*                                                                         *)
(* The board captures each rising edge of DIO1 as one RFE_DIO1 event in a  *)
(* FIFO (README.md, "gather RfEvents").  All its entries are alike, so the *)
(* FIFO is its length, pending.                                            *)
(***************************************************************************)
EXTENDS Naturals, Sequences, RadioFrames

VARIABLES chipMode,   \* what the transceiver is doing
          chipIrq,    \* its interrupt status register
          irqMask,    \* the interrupts it may latch and show on DIO1
          chipPkt,    \* the modem in use
          chipSync,   \* TRUE: the LoRa sync word is the public one
          fifo,       \* the frame in its data buffer
          pending     \* RFE_DIO1 events captured and not yet dispatched

chipVars == <<chipMode, chipIrq, irqMask, chipPkt, chipSync, fifo, pending>>

\* RX: single reception without a timeout.  RX_TIMED: single reception that the
\* chip abandons.  RX_CONT: continuous reception.  RX_DC: duty-cycled reception.
ChipModes == {"SLEEP", "STDBY", "RX", "RX_TIMED", "RX_CONT", "RX_DC", "TX", "CAD", "CW"}
Receiving == {"RX", "RX_TIMED", "RX_CONT", "RX_DC"}
SingleRx == Receiving \ {"RX_CONT"}

\* PREAMBLE stands for PREAMBLE_DETECTED, SYNCWORD_VALID and HEADER_VALID,
\* which the driver treats alike: it does nothing.
Irqs == {"TX_DONE", "RX_DONE", "CRC_ERROR", "CAD_DONE", "CAD_ACTIVITY",
         "TIMEOUT", "PREAMBLE", "HEADER_ERROR"}

PktTypes == {"GFSK", "LORA"}

ChipTypeOK ==
  /\ chipMode \in ChipModes
  /\ chipIrq \subseteq Irqs
  /\ irqMask \subseteq Irqs
  /\ chipPkt \in PktTypes
  /\ chipSync \in BOOLEAN
  /\ fifo \in Frames
  /\ pending \in Nat

\* The board is powered on: the chip may be in any state an earlier run left.
ChipInit ==
  /\ chipMode \in {"SLEEP", "STDBY", "TX"}
  /\ chipIrq = {}
  /\ irqMask = {}
  /\ chipPkt = "GFSK"
  /\ chipSync = FALSE
  /\ fifo = NoFrame
  /\ pending = 0

DioHigh(irq, mask) == irq \cap mask # {}

\* The interrupt registers change; the board captures a rising edge of DIO1.
SetIrqs(irq, mask) ==
  /\ chipIrq' = irq
  /\ irqMask' = mask
  /\ pending' = IF ~DioHigh(chipIrq, irqMask) /\ DioHigh(irq, mask)
                  THEN pending + 1
                  ELSE pending

Latch(irqs) == SetIrqs(chipIrq \cup (irqs \cap irqMask), irqMask)

-----------------------------------------------------------------------------
(* What the chip does by itself.                                           *)

\* The frame in the buffer has been transmitted.
ChipTxDone ==
  /\ chipMode = "TX"
  /\ chipMode' = "STDBY"
  /\ Latch({"TX_DONE"})
  /\ UNCHANGED <<chipPkt, chipSync, fifo>>

\* Energy on the channel: another station's frame begins, or noise.
ChipPreamble ==
  /\ chipMode \in Receiving
  /\ Latch({"PREAMBLE"})
  /\ UNCHANGED <<chipMode, chipPkt, chipSync, fifo>>

\* A frame has been received, with a correct payload checksum or a wrong one.
ChipRxDone(f) ==
  /\ chipMode \in Receiving
  /\ chipMode' = IF chipMode \in SingleRx THEN "STDBY" ELSE chipMode
  /\ fifo' = f
  /\ Latch(IF f = Garbled THEN {"RX_DONE", "CRC_ERROR"} ELSE {"RX_DONE"})
  /\ UNCHANGED <<chipPkt, chipSync>>

\* A corrupt header: whether the chip goes on listening is left open.
ChipHeaderError ==
  /\ chipMode \in Receiving
  /\ chipMode' \in {chipMode} \cup (IF chipMode \in SingleRx THEN {"STDBY"} ELSE {})
  /\ Latch({"HEADER_ERROR"})
  /\ UNCHANGED <<chipPkt, chipSync, fifo>>

ChipRxTimeout ==
  /\ chipMode = "RX_TIMED"
  /\ chipMode' = "STDBY"
  /\ Latch({"TIMEOUT"})
  /\ UNCHANGED <<chipPkt, chipSync, fifo>>

ChipCadDone(activity) ==
  /\ chipMode = "CAD"
  /\ chipMode' = "STDBY"
  /\ Latch(IF activity THEN {"CAD_DONE", "CAD_ACTIVITY"} ELSE {"CAD_DONE"})
  /\ UNCHANGED <<chipPkt, chipSync, fifo>>

ChipReceives ==
  \/ ChipPreamble
  \/ \E f \in RxFrames \cup {Garbled} : ChipRxDone(f)
  \/ ChipHeaderError
  \/ ChipRxTimeout
  \/ \E activity \in BOOLEAN : ChipCadDone(activity)
=============================================================================
