----------------------------- MODULE FskPacket -----------------------------
(***************************************************************************)
(* The FSK packet handler of sx1276.c (sx1272.c has the same): packets of  *)
(* up to 255 bytes through a FIFO of 64, filled and drained in chunks when *)
(* DIO1 says that it runs empty or fills up, until DIO0 ends the packet.   *)
(*                                                                         *)
(* The bytes of a packet are its indices, and the FIFO holds an interval   *)
(* of them, possibly behind the length byte.  The client puts the radio to *)
(* sleep between two packets and dispatches every event before a call.     *)
(* The chip is modelled from what the drivers rely on.  A transmission     *)
(* waits for its next chunk, as it does for the time of one byte; a        *)
(* reception waits for nobody, and MaxLag bounds how late the client is.   *)
(***************************************************************************)
EXTENDS Integers, Sequences

CONSTANTS FifoSize,    \* 64
          FifoThresh,  \* 15, from RadioRegsInit
          Sizes,       \* payload lengths
          MaxLag       \* bytes that arrive while an event waits, at most

ASSUME FskAssumption ==
  /\ FifoThresh \in 1..FifoSize
  /\ FifoSize \in Nat
  /\ Sizes \subseteq 1..255
  /\ MaxLag \in Nat

VARIABLES State, Size, NbBytes, ChunkSize,  \* of Settings and its FskPacketHandler
          fixLen, crcOn, continuous,  \* Settings.Fsk
          opMode,   \* SLEEP, TX or RX
          fifo,     \* hasLen: the length byte is first; payload bytes from..to-1
          frame,    \* payload length of the packet on the air, 0 if there is none
          lenDue,   \* its length byte is still to come
          crcOk,    \* its checksum is right
          ready,    \* PayloadReady or PacketSent
          whole,    \* no byte of the packet has been lost, repeated or misplaced
          told,     \* what the last callback said
          events,   \* edges of DIO0 and DIO1 not yet dispatched
          lag       \* bytes received since the oldest of them

handlerVars  == <<Size, NbBytes, ChunkSize>>
settingsVars == <<fixLen, crcOn, continuous>>
chipVars     == <<opMode, fifo, frame, lenDue, crcOk, ready>>
vars == <<State, handlerVars, settingsVars, chipVars, whole, told, events, lag>>

Empty == [hasLen |-> FALSE, from |-> 0, to |-> 0]
Level(f) == f.to - f.from + (IF f.hasLen THEN 1 ELSE 0)
Nothing == [what |-> "none", size |-> 0, whole |-> TRUE]

FskTypeOK ==
  /\ State \in {"IDLE", "TX", "RX"}
  /\ Size \in 0..255
  /\ NbBytes \in 0..255
  /\ ChunkSize \in 0..FifoSize
  /\ fixLen \in BOOLEAN
  /\ crcOn \in BOOLEAN
  /\ continuous \in BOOLEAN
  /\ opMode \in {"SLEEP", "TX", "RX"}
  /\ fifo \in [hasLen : BOOLEAN, from : 0..255, to : 0..255]
  /\ Level(fifo) \in 0..FifoSize
  /\ frame \in 0..255
  /\ lenDue \in BOOLEAN
  /\ crcOk \in BOOLEAN
  /\ ready \in BOOLEAN
  /\ whole \in BOOLEAN
  /\ told \in [what : {"none", "TxDone", "RxDone", "RxError"}, size : 0..255,
               whole : BOOLEAN]
  /\ events \in Seq({"DIO0", "DIO1"})
  /\ lag \in 0..MaxLag

Init ==
  /\ State = "IDLE"
  /\ Size = 0
  /\ NbBytes = 0
  /\ ChunkSize = 0
  /\ fixLen = FALSE
  /\ crcOn = FALSE
  /\ continuous = FALSE
  /\ opMode = "SLEEP"
  /\ fifo = Empty
  /\ frame = 0
  /\ lenDue = FALSE
  /\ crcOk = TRUE
  /\ ready = FALSE
  /\ whole = TRUE
  /\ told = Nothing
  /\ events = <<>>
  /\ lag = 0

-----------------------------------------------------------------------------
(* The FIFO, as the host uses it.                                          *)

\* Bytes at..at+n-1 of the packet follow what the FIFO f holds.
WriteFifo(f, at, n) ==
  LET fits == n >= 0 /\ Level(f) + n <= FifoSize
  IN  /\ whole' = (whole /\ fits /\ (n > 0 => at = f.to))
      /\ fifo' = IF fits THEN [f EXCEPT !.to = @ + n] ELSE f

\* The FIFO f holds the n bytes that belong at RxTxBuffer + at.
Holds(f, at, n) == n >= 0 /\ ~f.hasLen /\ at = f.from /\ n <= f.to - f.from

ReadFifo(f, at, n) ==
  /\ whole' = (whole /\ Holds(f, at, n))
  /\ fifo' = IF Holds(f, at, n) THEN [f EXCEPT !.from = @ + n] ELSE f

\* The size of the packet, from the FIFO or from RegPayloadLength, if it has
\* not been read yet; then the FIFO without it.
SizeRead ==
  IF Size # 0 \/ NbBytes # 0 THEN Size
  ELSE IF fixLen \/ fifo.hasLen THEN frame ELSE 0
FifoRead ==
  IF Size # 0 \/ NbBytes # 0 \/ fixLen THEN fifo ELSE [fifo EXCEPT !.hasLen = FALSE]

-----------------------------------------------------------------------------
(* Calls of the client.                                                    *)

MayCall == State = "IDLE" /\ opMode = "SLEEP" /\ events = <<>>

\* Mutant: the FIFO is taken to hold any packet.
ChunkWhole(size) == size
ChunkOf(size) == IF size > 0 /\ size <= FifoSize THEN size ELSE FifoSize \div 2

Send(size) ==
  /\ MayCall
  /\ \E fix \in BOOLEAN :
       /\ fixLen' = fix
       /\ Size' = size
       /\ ChunkSize' = ChunkOf(size)
       /\ NbBytes' = ChunkSize'
       /\ WriteFifo([Empty EXCEPT !.hasLen = ~fix], 0, ChunkSize')
  /\ State' = "TX"
  /\ opMode' = "TX"
  /\ frame' = size
  /\ told' = Nothing
  /\ UNCHANGED <<crcOn, continuous, lenDue, crcOk, ready, events, lag>>

\* SetRxConfig and SetRx.
SetRx ==
  /\ MayCall
  /\ \E fix, crc, on \in BOOLEAN : fixLen' = fix /\ crcOn' = crc /\ continuous' = on
  /\ Size' = 0
  /\ NbBytes' = 0
  /\ State' = "RX"
  /\ opMode' = "RX"
  /\ told' = Nothing
  /\ UNCHANGED <<ChunkSize, fifo, frame, lenDue, crcOk, ready, whole, events, lag>>

SetSleep ==
  /\ events = <<>>
  /\ opMode # "SLEEP"
  /\ State' = "IDLE"
  /\ opMode' = "SLEEP"
  /\ fifo' = Empty
  /\ frame' = 0
  /\ ready' = FALSE
  /\ told' = Nothing
  /\ whole' = TRUE
  /\ UNCHANGED <<handlerVars, settingsVars, lenDue, crcOk, events, lag>>

-----------------------------------------------------------------------------
(* The interrupt handlers.                                                 *)

\* The edges that f, as the FIFO becomes, and done, as the end of the packet,
\* raise: FifoEmpty or FifoLevel on DIO1, PacketSent or PayloadReady on DIO0.
Edges(f, done) ==
  (IF opMode = "TX" /\ Level(fifo) > 0 /\ Level(f) = 0 THEN <<"DIO1">> ELSE <<>>)
  \o (IF opMode = "RX" /\ Level(fifo) <= FifoThresh /\ Level(f) > FifoThresh
        THEN <<"DIO1">> ELSE <<>>)
  \o (IF done /\ ~ready THEN <<"DIO0">> ELSE <<>>)

\* The event is dispatched.  Emptying the FIFO while a packet comes in may show
\* PayloadReady for an instant ("ERRATA 3.1", sx1276.c:1661).
Dispatches(line) ==
  /\ events # <<>>
  /\ Head(events) = line
  /\ lag' = 0
  /\ \E glitch \in BOOLEAN :
       /\ glitch => /\ opMode = "RX" /\ frame > 0 /\ ~ready
                    /\ Level(fifo) > 0 /\ Level(fifo') = 0
       /\ events' = Tail(events) \o IF glitch THEN <<"DIO0">> ELSE <<>>

\* Mutant: the whole threshold is read, errata or not.
ReadWholeLevel(left) == IF left >= FifoThresh THEN FifoThresh ELSE left
ReadOnLevel(left) == IF left >= FifoThresh THEN FifoThresh - 1 ELSE left

OnDio1Rx ==
  /\ State = "RX"
  /\ Size' = SizeRead
  /\ ReadFifo(FifoRead, NbBytes, ReadOnLevel(SizeRead - NbBytes))
  /\ NbBytes' = NbBytes + ReadOnLevel(SizeRead - NbBytes)
  /\ Dispatches("DIO1")
  /\ UNCHANGED <<State, ChunkSize, settingsVars, opMode, frame, lenDue, crcOk, ready, told>>

NextChunk == IF Size - NbBytes > ChunkSize THEN ChunkSize ELSE Size - NbBytes

\* Mutant: what has been written is not counted.
OnDio1TxUncounted ==
  /\ State = "TX"
  /\ WriteFifo(fifo, NbBytes, NextChunk)
  /\ Dispatches("DIO1")
  /\ UNCHANGED <<State, handlerVars, settingsVars, opMode, frame, lenDue, crcOk, ready, told>>
\* Mutant: the last chunk is never written.
OnDio1TxFullOnly ==
  /\ State = "TX"
  /\ LET n == IF NextChunk < ChunkSize THEN 0 ELSE NextChunk
     IN  WriteFifo(fifo, NbBytes, n) /\ NbBytes' = NbBytes + n
  /\ Dispatches("DIO1")
  /\ UNCHANGED <<State, Size, ChunkSize, settingsVars, opMode, frame, lenDue, crcOk, ready, told>>
OnDio1Tx ==
  /\ State = "TX"
  /\ WriteFifo(fifo, NbBytes, NextChunk)
  /\ NbBytes' = NbBytes + NextChunk
  /\ Dispatches("DIO1")
  /\ UNCHANGED <<State, Size, ChunkSize, settingsVars, opMode, frame, lenDue, crcOk, ready, told>>

\* Reading the FIFO empty, or clearing FifoOverrun, ends the packet for the chip.
EndsReception(what, size) ==
  /\ State' = IF continuous THEN "RX" ELSE "IDLE"
  /\ told' = [what |-> what, size |-> size, whole |-> whole']
  /\ Size' = 0
  /\ NbBytes' = 0
  /\ frame' = 0
  /\ ready' = FALSE
  /\ Dispatches("DIO0")
  /\ UNCHANGED <<ChunkSize, settingsVars, opMode, lenDue, crcOk>>

OnDio0RxError ==
  /\ State = "RX"
  /\ crcOn /\ ~(ready /\ crcOk)
  /\ fifo' = Empty
  /\ whole' = (whole /\ ready)
  /\ EndsReception("RxError", 0)

OnDio0RxDone ==
  /\ State = "RX"
  /\ crcOn => ready /\ crcOk
  /\ LET left == SizeRead - NbBytes
     IN  whole' = (whole /\ ready /\ Holds(FifoRead, NbBytes, left))
  /\ fifo' = Empty
  /\ EndsReception("RxDone", SizeRead)

OnDio0TxDone ==
  /\ State = "TX"
  /\ State' = "IDLE"
  /\ told' = [what |-> "TxDone", size |-> Size, whole |-> whole]
  /\ UNCHANGED <<handlerVars, settingsVars, chipVars, whole>>
  /\ Dispatches("DIO0")

\* After a single reception the chip listens on; its events are ignored.
OnDioIdle ==
  /\ State = "IDLE"
  /\ UNCHANGED <<State, handlerVars, settingsVars, chipVars, whole, told>>
  /\ \E line \in {"DIO0", "DIO1"} : Dispatches(line)

-----------------------------------------------------------------------------
(* The chip.                                                               *)

\* It takes a byte from the FIFO; after the last one the packet has been sent.
ChipSends ==
  /\ opMode = "TX"
  /\ ~ready
  /\ Level(fifo) > 0
  /\ fifo' = IF fifo.hasLen THEN [fifo EXCEPT !.hasLen = FALSE] ELSE [fifo EXCEPT !.from = @ + 1]
  /\ ready' = (fifo'.from = frame)
  /\ events' = events \o Edges(fifo', ready')
  /\ UNCHANGED <<State, handlerVars, settingsVars, opMode, frame, lenDue, crcOk, whole, told, lag>>

\* Another station begins a packet.
ChipHears(size) ==
  /\ opMode = "RX"
  /\ frame = 0
  /\ events = <<>>
  /\ frame' = size
  /\ crcOk' \in BOOLEAN
  /\ fifo' = Empty
  /\ lenDue' = ~fixLen
  /\ whole' = TRUE
  /\ UNCHANGED <<State, handlerVars, settingsVars, opMode, ready, told, events, lag>>

\* Its next byte arrives; a full FIFO loses it, and the packet may end without.
ChipReceives ==
  /\ opMode = "RX"
  /\ frame > 0 /\ ~ready
  /\ events # <<>> => lag < MaxLag
  /\ IF Level(fifo) = FifoSize
       THEN whole' = FALSE /\ ready' \in BOOLEAN /\ UNCHANGED fifo
       ELSE /\ fifo' = IF lenDue THEN [fifo EXCEPT !.hasLen = TRUE]
                                 ELSE [fifo EXCEPT !.to = @ + 1]
            /\ ready' = (fifo'.to = frame)
            /\ UNCHANGED whole
  /\ lenDue' = FALSE
  /\ events' = events \o Edges(fifo', ready')
  /\ lag' = IF events = <<>> THEN 0 ELSE lag + 1
  /\ UNCHANGED <<State, handlerVars, settingsVars, opMode, frame, crcOk, told>>

Handlers ==
  OnDio1Rx \/ OnDio1Tx \/ OnDio0RxError \/ OnDio0RxDone \/ OnDio0TxDone \/ OnDioIdle

Next ==
  \/ \E size \in Sizes : Send(size) \/ ChipHears(size)
  \/ SetRx \/ SetSleep \/ Handlers \/ ChipSends \/ ChipReceives

\* The client dispatches, and the chip transmits what it has.
Spec == Init /\ [][Next]_vars /\ WF_vars(Handlers) /\ WF_vars(ChipSends)

-----------------------------------------------------------------------------
(* Properties.                                                             *)

\* "Sends the buffer of size" (radio.h:256): what ends with TxDone has been on
\* the air, every byte once and in order, whatever its chunks.
SentWhole ==
  told.what = "TxDone" => told.whole /\ told.size = frame /\ fifo.from = frame

\* RxDone hands over the packet received, every byte once and in order, and a
\* packet is never ended before its last byte.
ReceivedWhole == told.what \in {"RxDone", "RxError"} => told.whole

\* The FIFO runs empty in the middle of a packet only while the event that asks
\* for the next chunk waits to be dispatched.
NeverStarves == State = "TX" => events # <<>> \/ Level(fifo) > 0

\* What is left to do of a packet sent: a byte to write or in the FIFO is one step
\* of the chip, which raises at most two events.
StepsToTxDone == 3 * (Size - NbBytes + Level(fifo)) + Len(events)

\* No step of the handler or the chip leaves as much to do as there was.
SendProgresses == [][State = "TX" /\ State' = "TX" => StepsToTxDone' < StepsToTxDone]_vars

\* Every packet sent comes to its TxDone: the chip is never left with an empty
\* FIFO in the middle of one.  Sleep ends it too.
SendEnds == State = "TX" ~> State # "TX"
=============================================================================
