-------------------------- MODULE FskPacketProofs --------------------------
(***************************************************************************)
(* The FSK packet handler of FskPacket, for every size of the FIFO, every  *)
(* threshold, every set of packet sizes and every lag of the client: the   *)
(* counters of the handler stay in range whatever happens; what ends with  *)
(* TxDone has been sent whole, and only a packet of exactly the size of    *)
(* the FIFO overflows it; a client that is not late receives every packet  *)
(* whole.                                                                  *)
(***************************************************************************)
EXTENDS FskPacket, SequenceTheorems, TLAPS

-----------------------------------------------------------------------------
(* The counters.                                                           *)

\* The FIFO holds an interval of the packet: of what Send has written, or of
\* what has come in.
Counts ==
  /\ fifo.from <= fifo.to
  /\ State # "IDLE" => opMode = State /\ NbBytes <= Size
  /\ State = "TX" => Size = frame /\ fifo.to <= NbBytes
  /\ opMode = "RX" /\ frame > 0 => fifo.to <= frame /\ (fifo.to = frame => ready)
  /\ opMode # "TX" /\ frame = 0 => ~ready
  /\ opMode = "SLEEP" => frame = 0

FskCounts == FskTypeOK /\ Counts

-----------------------------------------------------------------------------
(* A packet sent.                                                          *)

\* Sleep leaves nothing behind.
Asleep ==
  opMode = "SLEEP" =>
    /\ State = "IDLE"
    /\ fifo = Empty
    /\ frame = 0
    /\ ~ready
    /\ whole
    /\ events = <<>>
    /\ told = Nothing

\* The handler's count is the FIFO's.  DIO1 waits to be dispatched only while the
\* FIFO is empty, DIO0 only after the last byte.
InStep ==
  /\ whole
  /\ NbBytes = fifo.to
  /\ ready <=> fifo.from = frame
  /\ \/ events = <<>> /\ ~ready
     \/ events = <<"DIO1">> /\ ~ready /\ Level(fifo) = 0
     \/ events = <<"DIO1", "DIO0">> /\ ready /\ Level(fifo) = 0
     \/ events = <<"DIO0">> /\ ready

\* A packet of the size of the FIFO is written behind its length byte and does not
\* fit.  The handler has nothing left to write and the chip never comes to its end.
Overflowed ==
  /\ frame = FifoSize
  /\ NbBytes = Size
  /\ fifo.from = 0
  /\ fifo.to = 0
  /\ ~ready
  /\ events = <<>> \/ (events = <<"DIO1">> /\ Level(fifo) = 0)

Sending ==
  State = "TX" =>
    /\ frame > 0
    /\ told = Nothing
    /\ InStep \/ Overflowed

\* The chip has nothing left to do after TxDone.
Sent ==
  told.what = "TxDone" =>
    /\ opMode = "TX"
    /\ ready
    /\ told.whole
    /\ told.size = frame
    /\ fifo.from = frame

SendInv == FskCounts /\ Asleep /\ Sending /\ Sent

-----------------------------------------------------------------------------
(* A packet received.                                                      *)

\* The length byte is still to come, in the FIFO, or has been read with the
\* first chunk; the FIFO holds what follows the bytes read.
LengthKnown ==
  \/ /\ Size = 0
     /\ NbBytes = 0
     /\ fifo.from = 0
     /\ fixLen => ~lenDue /\ ~fifo.hasLen
     /\ ~fixLen => lenDue # fifo.hasLen
     /\ lenDue => fifo.to = 0
  \/ /\ Size = frame
     /\ ~lenDue
     /\ ~fifo.hasLen
     /\ fifo.from = NbBytes

\* How full the FIFO may be, by what waits to be dispatched.
Heard ==
  \/ events = <<>> /\ ~ready /\ Level(fifo) <= FifoThresh
  \/ /\ events = <<"DIO1">> /\ ~ready
     /\ Level(fifo) > FifoThresh /\ Level(fifo) <= FifoThresh + 1 + lag
  \/ /\ events = <<"DIO1", "DIO0">> /\ ready
     /\ Level(fifo) > FifoThresh /\ Level(fifo) <= FifoThresh + 1 + MaxLag
  \/ events = <<"DIO0">> /\ ready

Receiving ==
  State = "RX" =>
    /\ whole
    /\ IF frame = 0
         THEN fifo = Empty /\ events = <<>> /\ ~ready /\ Size = 0 /\ NbBytes = 0
         ELSE LengthKnown /\ Heard /\ (ready => fifo.to = frame)

ReceiveInv == FskCounts /\ Asleep /\ Receiving /\ ReceivedWhole
-----------------------------------------------------------------------------
(* The FIFO and the edges it raises.                                       *)

Fifos == [hasLen : BOOLEAN, from : 0..255, to : 0..255]
Lines == {"DIO0", "DIO1"}

\* The length byte counts.
LEMMA LevelIs ==
  ASSUME NEW f
  PROVE  /\ f.hasLen => Level(f) = f.to - f.from + 1
         /\ ~f.hasLen => Level(f) = f.to - f.from + 0
<1>1. CASE f.hasLen
  BY <1>1, Zenon DEF Level
<1>2. CASE ~f.hasLen
  BY <1>2, Zenon DEF Level
<1>. QED
  BY <1>1, <1>2

\* n more bytes in a FIFO.
LEMMA FifoTo ==
  ASSUME NEW f \in Fifos, NEW n \in Int
  PROVE  LET g == [f EXCEPT !.to = @ + n]
         IN  /\ g = [hasLen |-> f.hasLen, from |-> f.from, to |-> f.to + n]
             /\ g.hasLen = f.hasLen
             /\ g.from = f.from
             /\ g.to = f.to + n
             /\ Level(g) = Level(f) + n
             /\ f.to + n \in 0..255 => g \in Fifos
<1>. DEFINE g == [f EXCEPT !.to = @ + n]
<1>1. /\ f.from \in Int /\ f.from >= 0 /\ f.from <= 255
     /\ f.to \in Int /\ f.to >= 0 /\ f.to <= 255
  BY DEF Fifos
<1>h. f.hasLen \in BOOLEAN
  BY DEF Fifos
<1>2. g = [hasLen |-> f.hasLen, from |-> f.from, to |-> f.to + n]
  BY DEF Fifos
<1>3. g.hasLen = f.hasLen /\ g.from = f.from /\ g.to = f.to + n
  BY <1>2
<1>4. f.to + n \in 0..255 => g \in Fifos
  BY <1>1, <1>h, <1>2 DEF Fifos
<1>5. Level(g) = Level(f) + n
  <2>. HIDE DEF g
  <2>1. CASE f.hasLen
    <3>1. Level(g) = g.to - g.from + 1 /\ Level(f) = f.to - f.from + 1
      BY <1>3, <2>1, LevelIs, Zenon
    <3>. QED
      BY <1>1, <1>3, <3>1
  <2>2. CASE ~f.hasLen
    <3>1. Level(g) = g.to - g.from + 0 /\ Level(f) = f.to - f.from + 0
      BY <1>3, <2>2, LevelIs, Zenon
    <3>. QED
      BY <1>1, <1>3, <3>1
  <2>. QED
    BY <2>1, <2>2
<1>. QED
  BY <1>2, <1>3, <1>4, <1>5

\* n bytes less in a FIFO.
LEMMA FifoFrom ==
  ASSUME NEW f \in Fifos, NEW n \in Int
  PROVE  LET g == [f EXCEPT !.from = @ + n]
         IN  /\ g = [hasLen |-> f.hasLen, from |-> f.from + n, to |-> f.to]
             /\ g.hasLen = f.hasLen
             /\ g.from = f.from + n
             /\ g.to = f.to
             /\ Level(g) = Level(f) - n
             /\ f.from + n \in 0..255 => g \in Fifos
<1>. DEFINE g == [f EXCEPT !.from = @ + n]
<1>1. /\ f.from \in Int /\ f.from >= 0 /\ f.from <= 255
     /\ f.to \in Int /\ f.to >= 0 /\ f.to <= 255
  BY DEF Fifos
<1>h. f.hasLen \in BOOLEAN
  BY DEF Fifos
<1>2. g = [hasLen |-> f.hasLen, from |-> f.from + n, to |-> f.to]
  BY DEF Fifos
<1>3. g.hasLen = f.hasLen /\ g.from = f.from + n /\ g.to = f.to
  BY <1>2
<1>4. f.from + n \in 0..255 => g \in Fifos
  BY <1>1, <1>h, <1>2 DEF Fifos
<1>5. Level(g) = Level(f) - n
  <2>. HIDE DEF g
  <2>1. CASE f.hasLen
    <3>1. Level(g) = g.to - g.from + 1 /\ Level(f) = f.to - f.from + 1
      BY <1>3, <2>1, LevelIs, Zenon
    <3>. QED
      BY <1>1, <1>3, <3>1
  <2>2. CASE ~f.hasLen
    <3>1. Level(g) = g.to - g.from + 0 /\ Level(f) = f.to - f.from + 0
      BY <1>3, <2>2, LevelIs, Zenon
    <3>. QED
      BY <1>1, <1>3, <3>1
  <2>. QED
    BY <2>1, <2>2
<1>. QED
  BY <1>2, <1>3, <1>4, <1>5

\* The length byte enters or leaves a FIFO.
LEMMA FifoLen ==
  ASSUME NEW f \in Fifos, NEW b \in BOOLEAN, NEW g, g = [f EXCEPT !.hasLen = b]
  PROVE  /\ g \in Fifos
         /\ g.hasLen = b
         /\ g.from = f.from
         /\ g.to = f.to
         /\ b => Level(g) = f.to - f.from + 1
         /\ ~b => Level(g) = f.to - f.from
<1>1. /\ f.from \in Int /\ f.from >= 0 /\ f.from <= 255
      /\ f.to \in Int /\ f.to >= 0 /\ f.to <= 255
  BY DEF Fifos
<1>2. g = [hasLen |-> b, from |-> f.from, to |-> f.to]
  BY DEF Fifos
<1>3. g.hasLen = b /\ g.from = f.from /\ g.to = f.to
  BY <1>2
<1>4. g \in Fifos
  BY <1>1, <1>2 DEF Fifos
<1>5. b => Level(g) = f.to - f.from + 1
  BY <1>3, LevelIs, Zenon
<1>6. ~b => Level(g) = f.to - f.from
  <2>1. ASSUME ~b
        PROVE  Level(g) = f.to - f.from + 0
    BY <1>3, <2>1, LevelIs, Zenon
  <2>. QED
    BY <1>1, <2>1
<1>. QED
  BY <1>3, <1>4, <1>5, <1>6, Zenon

\* An empty FIFO.
LEMMA FifoEmpty ==
  /\ Empty \in Fifos
  /\ Empty.hasLen = FALSE
  /\ Empty.from = 0
  /\ Empty.to = 0
  /\ Level(Empty) = 0
BY DEF Empty, Fifos, Level

\* The levels of a FIFO are integers.
LEMMA LevelInt ==
  ASSUME NEW f \in Fifos
  PROVE  /\ Level(f) \in Int
         /\ f.hasLen => Level(f) = f.to - f.from + 1
         /\ ~f.hasLen => Level(f) = f.to - f.from
         /\ f.hasLen \in BOOLEAN
         /\ f.from \in Int /\ f.from >= 0 /\ f.from <= 255
         /\ f.to \in Int /\ f.to >= 0 /\ f.to <= 255
<1>1. /\ f.from \in Int /\ f.from >= 0 /\ f.from <= 255
     /\ f.to \in Int /\ f.to >= 0 /\ f.to <= 255
  BY DEF Fifos
<1>h. f.hasLen \in BOOLEAN
  BY DEF Fifos
<1>2. CASE f.hasLen
  <2>1. Level(f) = f.to - f.from + 1
    BY <1>2, LevelIs, Zenon
  <2>2. Level(f) \in Int /\ Level(f) = f.to - f.from + 1
    BY <1>1, <2>1
  <2>. QED
    BY <1>1, <1>h, <1>2, <2>2, Zenon
<1>3. CASE ~f.hasLen
  <2>1. Level(f) = f.to - f.from + 0
    BY <1>3, LevelIs, Zenon
  <2>2. Level(f) \in Int /\ Level(f) = f.to - f.from
    BY <1>1, <2>1
  <2>. QED
    BY <1>1, <1>h, <1>3, <2>2, Zenon
<1>. QED
  BY <1>1, <1>2, <1>3

\* One chunk is at most the FIFO and at most the packet.
LEMMA ChunkBound ==
  ASSUME NEW size \in 1..255
  PROVE  /\ ChunkOf(size) \in 0..FifoSize
         /\ ChunkOf(size) <= size
         /\ size <= FifoSize => ChunkOf(size) = size
         /\ size > FifoSize => ChunkOf(size) <= FifoSize \div 2
<1>1. FifoSize \in Nat
  BY FskAssumption
<1>2. FifoSize \div 2 \in 0..FifoSize
  BY <1>1
<1>. QED
  BY <1>1, <1>2 DEF ChunkOf

\* A chunk follows from the counters.
LEMMA NextChunkBound ==
  ASSUME FskCounts, State = "TX"
  PROVE  /\ NextChunk \in 0..ChunkSize
         /\ NbBytes + NextChunk <= Size
         /\ NextChunk \in 0..255
BY FskAssumption DEF FskCounts, FskTypeOK, Counts, NextChunk

\* Whatever raises an edge, it is one of a line.
LEMMA EdgesType ==
  ASSUME NEW f, NEW done
  PROVE  Edges(f, done) \in Seq(Lines)
<1>. DEFINE a == IF opMode = "TX" /\ Level(fifo) > 0 /\ Level(f) = 0 THEN <<"DIO1">> ELSE <<>>
            b == IF opMode = "RX" /\ Level(fifo) <= FifoThresh /\ Level(f) > FifoThresh
                   THEN <<"DIO1">> ELSE <<>>
            c == IF done /\ ~ready THEN <<"DIO0">> ELSE <<>>
<1>0. <<"DIO1">> \in Seq(Lines) /\ <<"DIO0">> \in Seq(Lines) /\ <<>> \in Seq(Lines)
  BY DEF Lines
<1>1. a \in Seq(Lines)
  BY <1>0
<1>2. b \in Seq(Lines)
  BY <1>0
<1>3. c \in Seq(Lines)
  BY <1>0
<1>4. (a \o b) \o c \in Seq(Lines)
  <2>. HIDE DEF a, b, c
  <2>. QED
    BY <1>1, <1>2, <1>3, ConcatProperties
<1>. QED
  BY <1>4 DEF Edges

\* A dispatch leaves events of the two lines, and no lag.
LEMMA DispatchesType ==
  ASSUME FskTypeOK, NEW line, Dispatches(line)
  PROVE  /\ events' \in Seq(Lines)
         /\ lag' \in 0..MaxLag
<1>0. events \in Seq(Lines) /\ events # <<>> /\ lag' = 0
  BY DEF FskTypeOK, Lines, Dispatches
<1>1. Tail(events) \in Seq(Lines)
  BY <1>0, HeadTailProperties
<1>2. PICK glitch \in BOOLEAN : events' = Tail(events) \o IF glitch THEN <<"DIO0">> ELSE <<>>
  BY DEF Dispatches
<1>3. (IF glitch THEN <<"DIO0">> ELSE <<>>) \in Seq(Lines)
  <2>1. <<"DIO0">> \in Seq(Lines) /\ <<>> \in Seq(Lines)
    BY DEF Lines
  <2>. QED
    BY <2>1
<1>4. events' \in Seq(Lines)
  BY <1>1, <1>2, <1>3, ConcatProperties
<1>. QED
  BY <1>0, <1>4, FskAssumption

\* What WriteFifo does: all of it or nothing.
LEMMA WriteEffect ==
  ASSUME NEW f \in Fifos, NEW at \in Int, NEW n \in Int,
         f.to + n <= 255, f.from <= f.to, Level(f) <= FifoSize,
         WriteFifo(f, at, n)
  PROVE  /\ fifo' \in Fifos
         /\ fifo'.hasLen = f.hasLen
         /\ fifo'.from = f.from
         /\ fifo'.to >= f.to
         /\ fifo'.to = f.to \/ fifo'.to = f.to + n
         /\ Level(fifo') <= FifoSize
         /\ whole' \in BOOLEAN
         /\ n >= 0 /\ Level(f) + n <= FifoSize =>
              /\ fifo'.to = f.to + n
              /\ Level(fifo') = Level(f) + n
              /\ whole' = (whole /\ (n > 0 => at = f.to))
<1>0. FifoSize \in Int
  BY FskAssumption
<1>1. /\ Level(f) \in Int
      /\ f.from \in Int /\ f.from >= 0 /\ f.from <= 255
      /\ f.to \in Int /\ f.to >= 0 /\ f.to <= 255
  BY LevelInt
<1>2. whole' \in BOOLEAN
  BY Zenon DEF WriteFifo
<1>3. CASE n >= 0 /\ Level(f) + n <= FifoSize
  <2>1. /\ fifo' = [f EXCEPT !.to = @ + n]
        /\ whole' = (whole /\ (n > 0 => at = f.to))
    BY <1>3, Zenon DEF WriteFifo
  <2>n. n >= 0
    BY <1>3, Zenon
  <2>2. f.to + n \in 0..255
    BY <1>1, <2>n
  <2>3. /\ fifo' \in Fifos
        /\ fifo'.hasLen = f.hasLen
        /\ fifo'.from = f.from
        /\ fifo'.to = f.to + n
        /\ Level(fifo') = Level(f) + n
    BY <2>1, <2>2, FifoTo, Zenon
  <2>4. fifo'.to >= f.to
    BY <1>1, <1>3, <2>3
  <2>5. Level(fifo') <= FifoSize
    BY <1>3, <2>3, Zenon
  <2>. QED
    BY <1>2, <2>1, <2>3, <2>4, <2>5, Zenon
<1>4. CASE ~(n >= 0 /\ Level(f) + n <= FifoSize)
  <2>1. fifo' = f
    BY <1>4, Zenon DEF WriteFifo
  <2>2. f.to >= f.to
    BY <1>1
  <2>. QED
    BY <1>2, <1>4, <2>1, <2>2, Zenon
<1>. QED
  BY <1>3, <1>4

\* What ReadFifo does: all of it or nothing.
LEMMA ReadEffect ==
  ASSUME NEW f \in Fifos, NEW at \in Int, NEW n \in Int,
         f.from <= f.to, Level(f) <= FifoSize, whole \in BOOLEAN,
         ReadFifo(f, at, n)
  PROVE  /\ fifo' \in Fifos
         /\ fifo'.to = f.to
         /\ fifo'.from <= fifo'.to
         /\ Level(fifo') <= FifoSize
         /\ whole' \in BOOLEAN
         /\ Holds(f, at, n) =>
              /\ fifo'.hasLen = FALSE
              /\ fifo'.from = f.from + n
              /\ Level(fifo') = Level(f) - n
              /\ whole' = whole
<1>0. FifoSize \in Int
  BY FskAssumption
<1>1. /\ Level(f) \in Int
      /\ f.from \in Int /\ f.from >= 0 /\ f.from <= 255
      /\ f.to \in Int /\ f.to >= 0 /\ f.to <= 255
  BY LevelInt
<1>2. whole' \in BOOLEAN /\ whole' = (whole /\ Holds(f, at, n))
  BY Zenon DEF ReadFifo
<1>3. CASE Holds(f, at, n)
  <2>1. /\ fifo' = [f EXCEPT !.from = @ + n]
        /\ whole' = whole
    BY <1>3, Zenon DEF ReadFifo
  <2>2. n >= 0 /\ n <= f.to - f.from /\ ~f.hasLen
    BY <1>3, Zenon DEF Holds
  <2>n. n >= 0 /\ n <= f.to - f.from
    BY <2>2, Zenon
  <2>m. f.from + n \in 0..255 /\ f.from + n <= f.to
    BY <1>1, <2>n
  <2>l. Level(f) - n <= FifoSize
    BY <1>0, <1>1, <2>n
  <2>h. f.hasLen = FALSE
    BY <2>2 DEF Fifos
  <2>3. f.from + n \in 0..255 /\ f.from + n <= f.to /\ Level(f) - n <= FifoSize
    BY <2>m, <2>l, Zenon
  <2>4. /\ fifo' \in Fifos
        /\ fifo'.hasLen = f.hasLen
        /\ fifo'.from = f.from + n
        /\ fifo'.to = f.to
        /\ Level(fifo') = Level(f) - n
    BY <2>1, <2>3, FifoFrom, Zenon
  <2>. QED
    BY <1>2, <2>1, <2>h, <2>3, <2>4, Zenon
<1>4. CASE ~Holds(f, at, n)
  <2>1. fifo' = f
    BY <1>4, Zenon DEF ReadFifo
  <2>. QED
    BY <1>2, <1>4, <2>1, Zenon
<1>. QED
  BY <1>3, <1>4

\* The FIFO without its length byte holds no more.
LEMMA FifoReadEffect ==
  ASSUME FskCounts
  PROVE  /\ FifoRead \in Fifos
         /\ FifoRead.from = fifo.from
         /\ FifoRead.to = fifo.to
         /\ FifoRead.from <= FifoRead.to
         /\ Level(FifoRead) <= FifoSize
         /\ ~(Size # 0 \/ NbBytes # 0 \/ fixLen) => ~FifoRead.hasLen
         /\ (Size # 0 \/ NbBytes # 0 \/ fixLen) => FifoRead.hasLen = fifo.hasLen
<1>0. FifoSize \in Int
  BY FskAssumption
<1>1. fifo \in Fifos /\ fifo.from <= fifo.to /\ Level(fifo) <= FifoSize
  BY <1>0 DEF FskCounts, FskTypeOK, Counts, Fifos
<1>2. CASE Size # 0 \/ NbBytes # 0 \/ fixLen
  <2>1. FifoRead = fifo
    BY <1>2, Zenon DEF FifoRead
  <2>. QED
    BY <1>1, <1>2, <2>1, Zenon
<1>3. CASE ~(Size # 0 \/ NbBytes # 0 \/ fixLen)
  <2>1. FifoRead = [fifo EXCEPT !.hasLen = FALSE]
    BY <1>3, Zenon DEF FifoRead
  <2>f. FALSE \in BOOLEAN /\ ~FALSE
    OBVIOUS
  <2>2. /\ FifoRead \in Fifos
        /\ FifoRead.hasLen = FALSE
        /\ FifoRead.from = fifo.from
        /\ FifoRead.to = fifo.to
        /\ Level(FifoRead) = fifo.to - fifo.from
    BY <1>1, <2>1, <2>f, FifoLen, Zenon
  <2>3. /\ Level(fifo) \in Int
        /\ fifo.hasLen => Level(fifo) = fifo.to - fifo.from + 1
        /\ ~fifo.hasLen => Level(fifo) = fifo.to - fifo.from
        /\ fifo.from \in Int /\ fifo.to \in Int
    BY <1>1, LevelInt, Zenon
  <2>4. fifo.to - fifo.from <= FifoSize
    BY <1>0, <1>1, <2>3
  <2>. QED
    BY <1>1, <1>3, <2>2, <2>4, Zenon
<1>. QED
  BY <1>2, <1>3

\* The size read and what is read on DIO1 stay within the packet.
LEMMA SizeReadBound ==
  ASSUME FskCounts, State = "RX"
  PROVE  /\ SizeRead \in 0..255
         /\ ReadOnLevel(SizeRead - NbBytes) \in Int
         /\ NbBytes + ReadOnLevel(SizeRead - NbBytes) \in 0..255
         /\ NbBytes + ReadOnLevel(SizeRead - NbBytes) <= SizeRead
<1>1. /\ FifoThresh \in Int /\ FifoThresh >= 1
      /\ Size \in 0..255 /\ NbBytes \in 0..255 /\ frame \in 0..255 /\ NbBytes <= Size
  BY FskAssumption DEF FskCounts, FskTypeOK, Counts
<1>2. SizeRead \in 0..255 /\ NbBytes <= SizeRead
  <2>1. CASE Size # 0 \/ NbBytes # 0
    <3>1. SizeRead = Size
      BY <2>1, Zenon DEF SizeRead
    <3>. QED
      BY <1>1, <3>1
  <2>2. CASE ~(Size # 0 \/ NbBytes # 0)
    <3>1. SizeRead = frame \/ SizeRead = 0
      BY <2>2, Zenon DEF SizeRead
    <3>. QED
      BY <1>1, <2>2, <3>1
  <2>. QED
    BY <2>1, <2>2
<1>. DEFINE left == SizeRead - NbBytes
<1>3. left \in Int /\ left >= 0 /\ NbBytes + left = SizeRead
  BY <1>1, <1>2
<1>4. ReadOnLevel(left) = left \/ (left >= FifoThresh /\ ReadOnLevel(left) = FifoThresh - 1)
  BY Zenon DEF ReadOnLevel
<1>5. NbBytes + ReadOnLevel(left) <= SizeRead /\ NbBytes + ReadOnLevel(left) >= 0
      /\ ReadOnLevel(left) \in Int
  <2>. HIDE DEF left
  <2>. QED
    BY <1>1, <1>3, <1>4
<1>. QED
  BY <1>1, <1>2, <1>5

-----------------------------------------------------------------------------
(* The counters stay in range.                                             *)

\* The counters as integers.
LEMMA CountsFacts ==
  ASSUME FskCounts
  PROVE  /\ FifoSize \in Int /\ FifoSize >= 1
         /\ fifo \in Fifos
         /\ fifo.hasLen \in BOOLEAN
         /\ fifo.from \in Int /\ fifo.from >= 0 /\ fifo.from <= 255
         /\ fifo.to \in Int /\ fifo.to >= 0 /\ fifo.to <= 255
         /\ fifo.from <= fifo.to
         /\ Level(fifo) \in Int /\ Level(fifo) <= FifoSize
         /\ fifo.hasLen => Level(fifo) = fifo.to - fifo.from + 1
         /\ ~fifo.hasLen => Level(fifo) = fifo.to - fifo.from
         /\ Size \in Int /\ Size >= 0 /\ Size <= 255
         /\ NbBytes \in Int /\ NbBytes >= 0 /\ NbBytes <= 255
         /\ ChunkSize \in Int /\ ChunkSize >= 0 /\ ChunkSize <= FifoSize
         /\ frame \in Int /\ frame >= 0 /\ frame <= 255
         /\ whole \in BOOLEAN
<1>1. FifoSize \in Int /\ FifoSize >= 1
  BY FskAssumption
<1>2. fifo \in Fifos /\ fifo.from <= fifo.to
  BY DEF FskCounts, FskTypeOK, Counts, Fifos
<1>3. Level(fifo) \in 0..FifoSize
  BY DEF FskCounts, FskTypeOK
<1>4. Level(fifo) <= FifoSize
  BY <1>1, <1>3
<1>5. /\ Size \in 0..255 /\ NbBytes \in 0..255 /\ frame \in 0..255
      /\ ChunkSize \in 0..FifoSize
      /\ whole \in BOOLEAN
  BY DEF FskCounts, FskTypeOK
<1>6. /\ Size \in Int /\ Size >= 0 /\ Size <= 255
      /\ NbBytes \in Int /\ NbBytes >= 0 /\ NbBytes <= 255
      /\ frame \in Int /\ frame >= 0 /\ frame <= 255
  BY <1>5
<1>7. ChunkSize \in Int /\ ChunkSize >= 0 /\ ChunkSize <= FifoSize
  BY <1>1, <1>5
<1>8. /\ Level(fifo) \in Int
      /\ fifo.hasLen => Level(fifo) = fifo.to - fifo.from + 1
      /\ ~fifo.hasLen => Level(fifo) = fifo.to - fifo.from
      /\ fifo.hasLen \in BOOLEAN
      /\ fifo.from \in Int /\ fifo.from >= 0 /\ fifo.from <= 255
      /\ fifo.to \in Int /\ fifo.to >= 0 /\ fifo.to <= 255
  BY <1>2, LevelInt, Zenon
<1>. QED
  BY <1>1, <1>2, <1>4, <1>5, <1>6, <1>7, <1>8, Zenon

\* The level of a FIFO that holds an interval is at most its size.
LEMMA LevelRange ==
  ASSUME NEW f \in Fifos, f.from <= f.to, Level(f) <= FifoSize
  PROVE  Level(f) \in 0..FifoSize
<1>1. FifoSize \in Int
  BY FskAssumption
<1>2. /\ Level(f) \in Int
      /\ f.hasLen => Level(f) = f.to - f.from + 1
      /\ ~f.hasLen => Level(f) = f.to - f.from
      /\ f.hasLen \in BOOLEAN
      /\ f.from \in Int /\ f.to \in Int
  BY LevelInt, Zenon
<1>3. Level(f) >= 0
  <2>1. CASE f.hasLen
    BY <1>2, <2>1
  <2>2. CASE ~f.hasLen
    BY <1>2, <2>2
  <2>. QED
    BY <2>1, <2>2
<1>. QED
  BY <1>1, <1>2, <1>3

\* The FIFO that Send writes to is empty, but for the length byte.
LEMMA FreshFifo ==
  ASSUME NEW fix \in BOOLEAN
  PROVE  LET f == [Empty EXCEPT !.hasLen = ~fix]
         IN  /\ f \in Fifos
             /\ f.hasLen = ~fix
             /\ f.from = 0
             /\ f.to = 0
             /\ Level(f) = IF fix THEN 0 ELSE 1
             /\ Level(f) <= FifoSize
             /\ f.from <= f.to
<1>. DEFINE f == [Empty EXCEPT !.hasLen = ~fix]
<1>1. /\ f \in Fifos
      /\ f.hasLen = ~fix
      /\ f.from = Empty.from
      /\ f.to = Empty.to
      /\ ~fix => Level(f) = Empty.to - Empty.from + 1
      /\ ~~fix => Level(f) = Empty.to - Empty.from
  <2>1. (~fix) \in BOOLEAN
    OBVIOUS
  <2>. QED
    BY <2>1, FifoEmpty, FifoLen, Zenon
<1>2. Empty.from = 0 /\ Empty.to = 0
  BY FifoEmpty
<1>3. Level(f) = IF fix THEN 0 ELSE 1
  <2>. HIDE DEF f
  <2>1. CASE fix
    BY <1>1, <1>2, <2>1
  <2>2. CASE ~fix
    BY <1>1, <1>2, <2>2
  <2>. QED
    BY <2>1, <2>2
<1>4. Level(f) <= FifoSize
  <2>. HIDE DEF f
  <2>1. CASE fix
    BY <1>3, <2>1, FskAssumption
  <2>2. CASE ~fix
    BY <1>3, <2>2, FskAssumption
  <2>. QED
    BY <2>1, <2>2
<1>5. f.from <= f.to
  <2>. HIDE DEF f
  <2>. QED
    BY <1>1, <1>2
<1>. QED
  BY <1>1, <1>2, <1>3, <1>4, <1>5, Zenon

\* Send starts the counters.
LEMMA SendCounts ==
  ASSUME FskCounts, NEW size \in Sizes, Send(size)
  PROVE  FskCounts'
<1>1. size \in 1..255 /\ size \in Int /\ FifoSize \in Int
  BY FskAssumption
<1>2. PICK fix \in BOOLEAN :
        /\ fixLen' = fix
        /\ Size' = size
        /\ ChunkSize' = ChunkOf(size)
        /\ NbBytes' = ChunkOf(size)
        /\ WriteFifo([Empty EXCEPT !.hasLen = ~fix], 0, ChunkOf(size))
  BY Zenon DEF Send
<1>. DEFINE n == ChunkOf(size)
<1>. DEFINE f == [Empty EXCEPT !.hasLen = ~fix]
<1>3. f \in Fifos /\ f.from = 0 /\ f.to = 0 /\ f.from <= f.to /\ Level(f) <= FifoSize
  BY FreshFifo, Zenon
<1>4. ChunkOf(size) \in 0..FifoSize /\ ChunkOf(size) <= size
  BY <1>1, ChunkBound, Zenon
<1>5. n \in Int /\ n >= 0 /\ n <= size /\ n <= 255
  BY <1>1, <1>4
<1>. HIDE DEF f, n
<1>6. f.to + n <= 255
  BY <1>3, <1>5
<1>7. /\ fifo' \in Fifos
      /\ fifo'.from = f.from
      /\ fifo'.to >= f.to
      /\ fifo'.to = f.to \/ fifo'.to = f.to + n
      /\ Level(fifo') <= FifoSize
      /\ whole' \in BOOLEAN
  <2>1. WriteFifo(f, 0, n)
    BY <1>2 DEF f, n
  <2>2. 0 \in Int
    OBVIOUS
  <2>. QED
    BY <1>3, <1>5, <1>6, <2>1, <2>2, WriteEffect, Zenon
<1>8. fifo'.from <= fifo'.to /\ fifo'.to <= NbBytes'
  BY <1>2, <1>3, <1>5, <1>7 DEF n
<1>9. Level(fifo') \in 0..FifoSize
  BY <1>7, <1>8, LevelRange, Zenon
<1>10. /\ State' = "TX" /\ opMode' = "TX" /\ frame' = size /\ told' = Nothing
       /\ UNCHANGED <<crcOn, continuous, lenDue, crcOk, ready, events, lag>>
  BY Zenon DEF Send
<1>11. FskTypeOK'
  <2>1. Size' \in 0..255 /\ NbBytes' \in 0..255 /\ ChunkSize' \in 0..FifoSize /\ frame' \in 0..255
    BY <1>1, <1>2, <1>4, <1>5, <1>10 DEF n
  <2>2. /\ State' \in {"IDLE", "TX", "RX"}
        /\ fixLen' \in BOOLEAN
        /\ opMode' \in {"SLEEP", "TX", "RX"}
        /\ told' \in [what : {"none", "TxDone", "RxDone", "RxError"}, size : 0..255, whole : BOOLEAN]
    BY <1>2, <1>10 DEF Nothing
  <2>3. /\ crcOn' \in BOOLEAN
        /\ continuous' \in BOOLEAN
        /\ lenDue' \in BOOLEAN
        /\ crcOk' \in BOOLEAN
        /\ ready' \in BOOLEAN
        /\ events' \in Seq({"DIO0", "DIO1"})
        /\ lag' \in 0..MaxLag
    BY <1>10 DEF FskCounts, FskTypeOK
  <2>. QED
    BY <1>7, <1>9, <2>1, <2>2, <2>3, Zenon DEF FskTypeOK, Fifos
<1>12. Counts'
  BY <1>2, <1>5, <1>8, <1>10 DEF Counts, n
<1>. QED
  BY <1>11, <1>12 DEF FskCounts

\* SetRx clears them.
LEMMA SetRxCounts ==
  ASSUME FskCounts, SetRx
  PROVE  FskCounts'
<1>1. FskTypeOK'
  BY DEF FskCounts, FskTypeOK, SetRx, Nothing, Level
<1>2. Counts'
  BY DEF FskCounts, Counts, SetRx, MayCall, FskTypeOK
<1>. QED
  BY <1>1, <1>2 DEF FskCounts

\* Sleep empties the FIFO.
LEMMA SetSleepCounts ==
  ASSUME FskCounts, SetSleep
  PROVE  FskCounts'
<1>1. /\ fifo' \in Fifos /\ fifo'.from = 0 /\ fifo'.to = 0 /\ Level(fifo') = 0
      /\ 0 \in 0..FifoSize
  BY FifoEmpty, FskAssumption DEF SetSleep
<1>2. FskTypeOK'
  BY <1>1 DEF FskCounts, FskTypeOK, SetSleep, Nothing, Fifos, handlerVars, settingsVars
<1>3. Counts'
  BY <1>1 DEF FskCounts, Counts, SetSleep
<1>. QED
  BY <1>2, <1>3 DEF FskCounts

\* A chunk read keeps them.
LEMMA OnDio1RxCounts ==
  ASSUME FskCounts, OnDio1Rx
  PROVE  FskCounts'
<1>. DEFINE n == ReadOnLevel(SizeRead - NbBytes)
            size == SizeRead
            f == FifoRead
<1>1. /\ State = "RX" /\ Size' = size /\ NbBytes' = NbBytes + n
      /\ ReadFifo(f, NbBytes, n)
      /\ Dispatches("DIO1")
      /\ State' = State /\ ChunkSize' = ChunkSize
      /\ fixLen' = fixLen /\ crcOn' = crcOn /\ continuous' = continuous
      /\ opMode' = opMode /\ frame' = frame /\ lenDue' = lenDue
      /\ crcOk' = crcOk /\ ready' = ready /\ told' = told
  BY Zenon DEF OnDio1Rx, settingsVars
<1>2. size \in 0..255 /\ n \in Int /\ NbBytes + n \in 0..255 /\ NbBytes + n <= size
  BY <1>1, SizeReadBound, Zenon
<1>3. f \in Fifos /\ f.from = fifo.from /\ f.to = fifo.to /\ f.from <= f.to /\ Level(f) <= FifoSize
  BY FifoReadEffect, Zenon
<1>4. NbBytes \in Int /\ whole \in BOOLEAN
  BY CountsFacts, Zenon
<1>5. /\ fifo' \in Fifos
      /\ fifo'.to = fifo.to
      /\ fifo'.from <= fifo'.to
      /\ Level(fifo') <= FifoSize
      /\ whole' \in BOOLEAN
  <2>. HIDE DEF f, n
  <2>. QED
    BY <1>1, <1>2, <1>3, <1>4, ReadEffect, Zenon
<1>. HIDE DEF f, n, size
<1>6. Level(fifo') \in 0..FifoSize
  BY <1>5, LevelRange, Zenon
<1>7. events' \in Seq(Lines) /\ lag' \in 0..MaxLag
  BY <1>1, DispatchesType, Zenon DEF FskCounts
<1>8. FskTypeOK'
  <2>1. /\ State' \in {"IDLE", "TX", "RX"}
        /\ ChunkSize' \in 0..FifoSize
        /\ fixLen' \in BOOLEAN
        /\ crcOn' \in BOOLEAN
        /\ continuous' \in BOOLEAN
        /\ opMode' \in {"SLEEP", "TX", "RX"}
        /\ frame' \in 0..255
        /\ lenDue' \in BOOLEAN
        /\ crcOk' \in BOOLEAN
        /\ ready' \in BOOLEAN
        /\ told' \in [what : {"none", "TxDone", "RxDone", "RxError"}, size : 0..255, whole : BOOLEAN]
    BY <1>1 DEF FskCounts, FskTypeOK
  <2>. QED
    BY <1>1, <1>2, <1>5, <1>6, <1>7, <2>1, Zenon DEF FskTypeOK, Fifos, Lines
<1>9. Counts'
  <2>1. NbBytes' <= Size'
    BY <1>1, <1>2, Zenon
  <2>. QED
    BY <1>1, <1>5, <2>1 DEF FskCounts, Counts
<1>. QED
  BY <1>8, <1>9 DEF FskCounts

\* A chunk written keeps them.
LEMMA OnDio1TxCounts ==
  ASSUME FskCounts, OnDio1Tx
  PROVE  FskCounts'
<1>. DEFINE n == NextChunk
<1>1. /\ State = "TX" /\ NbBytes' = NbBytes + n
      /\ WriteFifo(fifo, NbBytes, n)
      /\ Dispatches("DIO1")
      /\ State' = State /\ Size' = Size /\ ChunkSize' = ChunkSize
      /\ fixLen' = fixLen /\ crcOn' = crcOn /\ continuous' = continuous
      /\ opMode' = opMode /\ frame' = frame /\ lenDue' = lenDue
      /\ crcOk' = crcOk /\ ready' = ready /\ told' = told
  BY Zenon DEF OnDio1Tx, settingsVars
<1>2. n \in 0..ChunkSize /\ NbBytes + n <= Size
  BY <1>1, NextChunkBound, Zenon
<1>3. /\ fifo \in Fifos /\ fifo.from \in Int /\ fifo.to \in Int
      /\ fifo.from <= fifo.to /\ Level(fifo) <= FifoSize
      /\ NbBytes \in Int /\ NbBytes >= 0
      /\ ChunkSize \in Int
      /\ Size \in Int /\ Size <= 255
      /\ fifo.to <= NbBytes /\ opMode = "TX" /\ Size = frame
  BY <1>1, CountsFacts, Zenon DEF FskCounts, Counts
<1>4. n \in Int /\ n >= 0
  <2>. HIDE DEF n
  <2>. QED
    BY <1>2, <1>3
<1>. HIDE DEF n
<1>n. fifo.to + n <= 255 /\ fifo.to + n <= NbBytes + n
  BY <1>2, <1>3, <1>4
<1>5. /\ fifo' \in Fifos
      /\ fifo'.from = fifo.from
      /\ fifo'.to >= fifo.to
      /\ fifo'.to = fifo.to \/ fifo'.to = fifo.to + n
      /\ Level(fifo') <= FifoSize
      /\ whole' \in BOOLEAN
  BY <1>1, <1>3, <1>4, <1>n, WriteEffect, Zenon
<1>6. fifo'.from <= fifo'.to /\ fifo'.to <= NbBytes'
  BY <1>1, <1>3, <1>4, <1>n, <1>5
<1>7. Level(fifo') \in 0..FifoSize
  BY <1>5, <1>6, LevelRange, Zenon
<1>8. events' \in Seq(Lines) /\ lag' \in 0..MaxLag
  BY <1>1, DispatchesType, Zenon DEF FskCounts
<1>9. NbBytes' \in 0..255 /\ NbBytes' <= Size'
  <2>1. NbBytes + n \in 0..255
    BY <1>2, <1>3, <1>4
  <2>. QED
    BY <1>1, <1>2, <2>1, Zenon
<1>10. FskTypeOK'
  <2>1. /\ State' \in {"IDLE", "TX", "RX"}
        /\ Size' \in 0..255
        /\ ChunkSize' \in 0..FifoSize
        /\ fixLen' \in BOOLEAN
        /\ crcOn' \in BOOLEAN
        /\ continuous' \in BOOLEAN
        /\ opMode' \in {"SLEEP", "TX", "RX"}
        /\ frame' \in 0..255
        /\ lenDue' \in BOOLEAN
        /\ crcOk' \in BOOLEAN
        /\ ready' \in BOOLEAN
        /\ told' \in [what : {"none", "TxDone", "RxDone", "RxError"}, size : 0..255, whole : BOOLEAN]
    BY <1>1 DEF FskCounts, FskTypeOK
  <2>. QED
    BY <1>5, <1>7, <1>8, <1>9, <2>1, Zenon DEF FskTypeOK, Fifos, Lines
<1>11. Counts'
  BY <1>1, <1>3, <1>6, <1>9 DEF Counts
<1>. QED
  BY <1>10, <1>11 DEF FskCounts

\* The end of a reception clears them.
LEMMA EndsReceptionCounts ==
  ASSUME FskCounts, State = "RX", fifo' = Empty, whole' \in BOOLEAN,
         NEW what \in {"RxDone", "RxError"}, NEW size \in 0..255,
         EndsReception(what, size)
  PROVE  FskCounts'
<1>1. /\ fifo' \in Fifos /\ fifo'.from = 0 /\ fifo'.to = 0 /\ Level(fifo') = 0
      /\ 0 \in 0..FifoSize
  BY FifoEmpty, FskAssumption
<1>2. events' \in Seq(Lines) /\ lag' \in 0..MaxLag
  BY DispatchesType, Zenon DEF FskCounts, EndsReception
<1>3. /\ State' = IF continuous THEN "RX" ELSE "IDLE"
      /\ told' = [what |-> what, size |-> size, whole |-> whole']
      /\ Size' = 0 /\ NbBytes' = 0 /\ frame' = 0 /\ ready' = FALSE
      /\ ChunkSize' = ChunkSize
      /\ fixLen' = fixLen /\ crcOn' = crcOn /\ continuous' = continuous
      /\ opMode' = opMode /\ lenDue' = lenDue /\ crcOk' = crcOk
  BY Zenon DEF EndsReception, settingsVars
<1>4. FskTypeOK'
  <2>1. /\ State' \in {"IDLE", "TX", "RX"}
        /\ Size' \in 0..255 /\ NbBytes' \in 0..255 /\ frame' \in 0..255
        /\ told' \in [what : {"none", "TxDone", "RxDone", "RxError"}, size : 0..255, whole : BOOLEAN]
    BY <1>3
  <2>2. /\ ChunkSize' \in 0..FifoSize
        /\ fixLen' \in BOOLEAN
        /\ crcOn' \in BOOLEAN
        /\ continuous' \in BOOLEAN
        /\ opMode' \in {"SLEEP", "TX", "RX"}
        /\ lenDue' \in BOOLEAN
        /\ crcOk' \in BOOLEAN
        /\ ready' \in BOOLEAN
    BY <1>3 DEF FskCounts, FskTypeOK
  <2>. QED
    BY <1>1, <1>2, <2>1, <2>2, Zenon DEF FskTypeOK, Fifos, Lines
<1>5. Counts'
  BY <1>1, <1>3 DEF FskCounts, Counts
<1>. QED
  BY <1>4, <1>5 DEF FskCounts

\* So do the two ends of a reception.
LEMMA OnDio0RxCounts ==
  ASSUME FskCounts, OnDio0RxError \/ OnDio0RxDone
  PROVE  FskCounts'
<1>1. CASE OnDio0RxError
  <2>1. /\ State = "RX" /\ fifo' = Empty /\ whole' \in BOOLEAN
        /\ EndsReception("RxError", 0)
    BY <1>1, Zenon DEF OnDio0RxError
  <2>2. 0 \in 0..255 /\ "RxError" \in {"RxDone", "RxError"}
    OBVIOUS
  <2>. QED
    BY <2>1, <2>2, EndsReceptionCounts, Zenon
<1>2. CASE OnDio0RxDone
  <2>1. /\ State = "RX" /\ fifo' = Empty /\ whole' \in BOOLEAN
        /\ EndsReception("RxDone", SizeRead)
    BY <1>2, Zenon DEF OnDio0RxDone
  <2>2. "RxDone" \in {"RxDone", "RxError"}
    OBVIOUS
  <2>3. SizeRead \in 0..255
    BY <2>1, SizeReadBound, Zenon
  <2>. QED
    BY <2>1, <2>2, <2>3, EndsReceptionCounts, Zenon
<1>. QED
  BY <1>1, <1>2

\* TxDone and what is ignored leave them alone.
LEMMA OnDioOtherCounts ==
  ASSUME FskCounts, OnDio0TxDone \/ OnDioIdle
  PROVE  FskCounts'
<1>1. events' \in Seq(Lines) /\ lag' \in 0..MaxLag
  BY DispatchesType, Zenon DEF FskCounts, OnDio0TxDone, OnDioIdle
<1>2. UNCHANGED <<handlerVars, settingsVars, chipVars, whole>> /\ State' \in {State, "IDLE"}
  BY DEF OnDio0TxDone, OnDioIdle
<1>3. told' = told \/ told' = [what |-> "TxDone", size |-> Size, whole |-> whole]
  BY DEF OnDio0TxDone, OnDioIdle
<1>4. Level(fifo') \in 0..FifoSize
  <2>1. fifo' = fifo
    BY <1>2 DEF chipVars
  <2>. QED
    BY <2>1, Zenon DEF FskCounts, FskTypeOK
<1>5. FskTypeOK'
  <2>1. told' \in [what : {"none", "TxDone", "RxDone", "RxError"}, size : 0..255, whole : BOOLEAN]
    <3>1. CASE told' = told
      BY <3>1 DEF FskCounts, FskTypeOK
    <3>2. CASE told' = [what |-> "TxDone", size |-> Size, whole |-> whole]
      <4>1. Size \in 0..255 /\ whole \in BOOLEAN
        BY DEF FskCounts, FskTypeOK
      <4>. QED
        BY <3>2, <4>1
    <3>. QED
      BY <1>3, <3>1, <3>2
  <2>2. State' \in {"IDLE", "TX", "RX"}
    BY <1>2 DEF FskCounts, FskTypeOK
  <2>3. /\ Size' = Size /\ NbBytes' = NbBytes /\ ChunkSize' = ChunkSize
        /\ fixLen' = fixLen /\ crcOn' = crcOn /\ continuous' = continuous
        /\ opMode' = opMode /\ fifo' = fifo /\ frame' = frame /\ lenDue' = lenDue
        /\ crcOk' = crcOk /\ ready' = ready /\ whole' = whole
    BY <1>2, Zenon DEF handlerVars, settingsVars, chipVars
  <2>4. /\ Size' \in 0..255 /\ NbBytes' \in 0..255 /\ ChunkSize' \in 0..FifoSize
        /\ fixLen' \in BOOLEAN /\ crcOn' \in BOOLEAN /\ continuous' \in BOOLEAN
        /\ opMode' \in {"SLEEP", "TX", "RX"}
        /\ fifo' \in [hasLen : BOOLEAN, from : 0..255, to : 0..255]
        /\ frame' \in 0..255 /\ lenDue' \in BOOLEAN
        /\ crcOk' \in BOOLEAN /\ ready' \in BOOLEAN /\ whole' \in BOOLEAN
    BY <2>3, Zenon DEF FskCounts, FskTypeOK
  <2>. QED
    BY <1>1, <1>4, <2>1, <2>2, <2>4, Zenon DEF FskTypeOK, Lines
<1>6. Counts'
  BY <1>2 DEF FskCounts, Counts, handlerVars, settingsVars, chipVars
<1>. QED
  BY <1>5, <1>6 DEF FskCounts

\* A byte leaves the FIFO: the length byte or the next one of the packet.
LEMMA SendsEffect ==
  ASSUME FskCounts, ChipSends
  PROVE  /\ fifo' \in Fifos
         /\ fifo'.hasLen = FALSE
         /\ fifo'.from = IF fifo.hasLen THEN fifo.from ELSE fifo.from + 1
         /\ fifo'.to = fifo.to
         /\ fifo'.from <= fifo'.to
         /\ Level(fifo') = Level(fifo) - 1
         /\ Level(fifo') \in 0..FifoSize
<1>1. /\ FifoSize \in Int
      /\ fifo \in Fifos
      /\ fifo.hasLen \in BOOLEAN
      /\ fifo.from \in Int /\ fifo.from >= 0
      /\ fifo.to \in Int /\ fifo.to <= 255
      /\ fifo.from <= fifo.to
      /\ Level(fifo) \in Int /\ Level(fifo) <= FifoSize
      /\ fifo.hasLen => Level(fifo) = fifo.to - fifo.from + 1
      /\ ~fifo.hasLen => Level(fifo) = fifo.to - fifo.from
  BY CountsFacts, Zenon
<1>2. Level(fifo) > 0
  BY DEF ChipSends
<1>3. CASE fifo.hasLen
  <2>1. fifo' = [fifo EXCEPT !.hasLen = FALSE]
    BY <1>3, Zenon DEF ChipSends
  <2>2. FALSE \in BOOLEAN /\ ~FALSE
    OBVIOUS
  <2>3. /\ fifo' \in Fifos
        /\ fifo'.hasLen = FALSE
        /\ fifo'.from = fifo.from
        /\ fifo'.to = fifo.to
        /\ Level(fifo') = fifo.to - fifo.from
    BY <1>1, <2>1, <2>2, FifoLen, Zenon
  <2>4. Level(fifo) - 1 = fifo.to - fifo.from /\ fifo.to - fifo.from \in 0..FifoSize
    BY <1>1, <1>3
  <2>. QED
    BY <1>1, <1>3, <2>3, <2>4, Zenon
<1>4. CASE ~fifo.hasLen
  <2>1. fifo' = [fifo EXCEPT !.from = @ + 1]
    BY <1>4, Zenon DEF ChipSends
  <2>2. /\ fifo.from + 1 \in 0..255 /\ fifo.from + 1 <= fifo.to
        /\ Level(fifo) - 1 \in 0..FifoSize
        /\ 1 \in Int
    BY <1>1, <1>2, <1>4
  <2>3. fifo.hasLen = FALSE
    BY <1>1, <1>4
  <2>4. /\ fifo' \in Fifos
        /\ fifo'.hasLen = fifo.hasLen
        /\ fifo'.from = fifo.from + 1
        /\ fifo'.to = fifo.to
        /\ Level(fifo') = Level(fifo) - 1
    BY <1>1, <2>1, <2>2, FifoFrom, Zenon
  <2>. QED
    BY <1>4, <2>2, <2>3, <2>4, Zenon
<1>. QED
  BY <1>3, <1>4

\* The chip raises events of its two lines.
LEMMA RaisesType ==
  ASSUME FskTypeOK, NEW f, NEW done, events' = events \o Edges(f, done)
  PROVE  events' \in Seq(Lines)
<1>1. events \in Seq(Lines)
  BY DEF FskTypeOK, Lines
<1>2. Edges(f, done) \in Seq(Lines)
  BY EdgesType
<1>. QED
  BY <1>1, <1>2, ConcatProperties

\* A byte sent moves nothing but the beginning of the FIFO.
LEMMA ChipSendsCounts ==
  ASSUME FskCounts, ChipSends
  PROVE  FskCounts'
<1>1. /\ fifo' \in Fifos /\ fifo'.to = fifo.to /\ fifo'.from <= fifo'.to
      /\ Level(fifo') \in 0..FifoSize
  BY SendsEffect, Zenon
<1>2. /\ opMode = "TX" /\ ready' \in BOOLEAN
      /\ events' = events \o Edges(fifo', ready')
      /\ State' = State /\ Size' = Size /\ NbBytes' = NbBytes /\ ChunkSize' = ChunkSize
      /\ fixLen' = fixLen /\ crcOn' = crcOn /\ continuous' = continuous
      /\ opMode' = opMode /\ frame' = frame /\ lenDue' = lenDue /\ crcOk' = crcOk
      /\ whole' = whole /\ told' = told /\ lag' = lag
  BY Zenon DEF ChipSends, handlerVars, settingsVars
<1>3. events' \in Seq(Lines)
  BY <1>2, RaisesType, Zenon DEF FskCounts
<1>4. FskTypeOK'
  <2>1. /\ State' \in {"IDLE", "TX", "RX"} /\ opMode' \in {"SLEEP", "TX", "RX"}
        /\ Size' \in 0..255 /\ NbBytes' \in 0..255 /\ ChunkSize' \in 0..FifoSize
        /\ fixLen' \in BOOLEAN /\ crcOn' \in BOOLEAN /\ continuous' \in BOOLEAN
    BY <1>2 DEF FskCounts, FskTypeOK
  <2>2. /\ frame' \in 0..255 /\ lenDue' \in BOOLEAN /\ crcOk' \in BOOLEAN
        /\ whole' \in BOOLEAN /\ lag' \in 0..MaxLag
        /\ told' \in [what : {"none", "TxDone", "RxDone", "RxError"}, size : 0..255, whole : BOOLEAN]
    BY <1>2 DEF FskCounts, FskTypeOK
  <2>. QED
    BY <1>1, <1>2, <1>3, <2>1, <2>2, Zenon DEF FskTypeOK, Fifos, Lines
<1>5. Counts'
  BY <1>1, <1>2 DEF FskCounts, Counts
<1>. QED
  BY <1>4, <1>5 DEF FskCounts

\* A packet begins with an empty FIFO.
LEMMA ChipHearsCounts ==
  ASSUME FskCounts, NEW size \in Sizes, ChipHears(size)
  PROVE  FskCounts'
<1>1. /\ fifo' \in Fifos /\ fifo'.from = 0 /\ fifo'.to = 0 /\ Level(fifo') = 0
      /\ 0 \in 0..FifoSize
  BY FifoEmpty, FskAssumption DEF ChipHears
<1>2. /\ opMode = "RX" /\ frame = 0 /\ frame' = size
      /\ crcOk' \in BOOLEAN /\ lenDue' = ~fixLen /\ whole' = TRUE
      /\ State' = State /\ Size' = Size /\ NbBytes' = NbBytes /\ ChunkSize' = ChunkSize
      /\ fixLen' = fixLen /\ crcOn' = crcOn /\ continuous' = continuous
      /\ opMode' = opMode /\ ready' = ready
      /\ told' = told /\ events' = events /\ lag' = lag
  BY Zenon DEF ChipHears, handlerVars, settingsVars
<1>3. size \in 1..255 /\ frame' \in 0..255
  BY <1>2, FskAssumption
<1>4. lenDue' \in BOOLEAN /\ whole' \in BOOLEAN
  BY <1>2 DEF FskCounts, FskTypeOK
<1>5. FskTypeOK'
  BY <1>1, <1>2, <1>3, <1>4, Zenon DEF FskCounts, FskTypeOK, Fifos
<1>6. Counts'
  <2>1. ~ready /\ size # 0 /\ (State # "IDLE" => NbBytes <= Size) /\ State # "TX"
    BY <1>2, <1>3 DEF FskCounts, Counts
  <2>2. fifo'.to <= frame' /\ fifo'.to # frame' /\ fifo'.from <= fifo'.to
    BY <1>1, <1>2, <1>3
  <2>. QED
    BY <1>2, <2>1, <2>2 DEF FskCounts, Counts
<1>. QED
  BY <1>5, <1>6 DEF FskCounts

\* What a byte received does: it is the length byte, the next one of the packet,
\* or one too many for the FIFO.
LEMMA ReceivesEffect ==
  ASSUME FskCounts, ChipReceives
  PROVE  /\ fifo' \in Fifos
         /\ fifo'.from = fifo.from
         /\ fifo'.from <= fifo'.to
         /\ Level(fifo') \in 0..FifoSize
         /\ whole' \in BOOLEAN
         /\ fifo'.to <= frame
         /\ ready' \in BOOLEAN
         /\ fifo'.to = frame => ready'
         /\ Level(fifo) < FifoSize =>
              /\ whole' = whole
              /\ ready' = (fifo'.to = frame)
              /\ lenDue => fifo'.hasLen = TRUE /\ fifo'.to = fifo.to
              /\ lenDue /\ ~fifo.hasLen => Level(fifo') = Level(fifo) + 1
              /\ ~lenDue => /\ fifo'.hasLen = fifo.hasLen
                            /\ fifo'.to = fifo.to + 1
                            /\ Level(fifo') = Level(fifo) + 1
<1>1. /\ FifoSize \in Int
      /\ fifo \in Fifos
      /\ fifo.hasLen \in BOOLEAN
      /\ fifo.from \in Int /\ fifo.from >= 0
      /\ fifo.to \in Int /\ fifo.to <= 255
      /\ fifo.from <= fifo.to
      /\ Level(fifo) \in Int /\ Level(fifo) <= FifoSize
      /\ fifo.hasLen => Level(fifo) = fifo.to - fifo.from + 1
      /\ ~fifo.hasLen => Level(fifo) = fifo.to - fifo.from
      /\ frame \in Int /\ frame <= 255
  BY CountsFacts, Zenon
<1>2. whole \in BOOLEAN
  BY CountsFacts, Zenon
<1>3. fifo.to < frame
  BY <1>1 DEF ChipReceives, FskCounts, Counts
<1>4. CASE Level(fifo) = FifoSize
  <2>1. fifo' = fifo /\ whole' = FALSE /\ ready' \in BOOLEAN
    BY <1>4, Zenon DEF ChipReceives
  <2>2. ~(Level(fifo) < FifoSize) /\ fifo.to <= frame /\ fifo.to # frame
    BY <1>1, <1>3, <1>4
  <2>3. Level(fifo) \in 0..FifoSize
    BY <1>1, LevelRange, Zenon
  <2>. QED
    BY <1>1, <2>1, <2>2, <2>3, Zenon
<1>5. CASE Level(fifo) # FifoSize
  <2>1. Level(fifo) + 1 <= FifoSize
    BY <1>1, <1>5
  <2>2. whole' = whole /\ ready' = (fifo'.to = frame)
    BY <1>5, Zenon DEF ChipReceives
  <2>3. CASE lenDue
    <3>1. fifo' = [fifo EXCEPT !.hasLen = TRUE]
      BY <1>5, <2>3, Zenon DEF ChipReceives
    <3>2. TRUE \in BOOLEAN
      OBVIOUS
    <3>3. /\ fifo' \in Fifos
          /\ fifo'.hasLen = TRUE
          /\ fifo'.from = fifo.from
          /\ fifo'.to = fifo.to
          /\ Level(fifo') = fifo.to - fifo.from + 1
      BY <1>1, <3>1, <3>2, FifoLen, Zenon
    <3>4. ~fifo.hasLen => fifo.to - fifo.from + 1 = Level(fifo) + 1
      BY <1>1
    <3>5. fifo.to - fifo.from + 1 <= FifoSize /\ fifo.to <= frame
      <4>1. CASE fifo.hasLen
        BY <1>1, <1>3, <4>1
      <4>2. CASE ~fifo.hasLen
        BY <1>1, <1>3, <2>1, <4>2
      <4>. QED
        BY <4>1, <4>2
    <3>6. Level(fifo') \in 0..FifoSize
      BY <1>1, <3>3, <3>5, LevelRange, Zenon
    <3>. QED
      BY <1>1, <1>2, <2>2, <2>3, <3>3, <3>4, <3>5, <3>6, Zenon
  <2>4. CASE ~lenDue
    <3>1. fifo' = [fifo EXCEPT !.to = @ + 1]
      BY <1>5, <2>4, Zenon DEF ChipReceives
    <3>2. fifo.to + 1 \in 0..255 /\ 1 \in Int /\ fifo.to + 1 <= frame /\ fifo.from <= fifo.to + 1
      BY <1>1, <1>3
    <3>3. /\ fifo' \in Fifos
          /\ fifo'.hasLen = fifo.hasLen
          /\ fifo'.from = fifo.from
          /\ fifo'.to = fifo.to + 1
          /\ Level(fifo') = Level(fifo) + 1
      BY <1>1, <3>1, <3>2, FifoTo, Zenon
    <3>4. fifo'.from <= fifo'.to /\ Level(fifo') <= FifoSize
      BY <2>1, <3>2, <3>3, Zenon
    <3>5. Level(fifo') \in 0..FifoSize
      BY <3>3, <3>4, LevelRange, Zenon
    <3>. QED
      BY <1>2, <2>2, <2>4, <3>2, <3>3, <3>4, <3>5, Zenon
  <2>. QED
    BY <2>3, <2>4
<1>. QED
  BY <1>4, <1>5

\* A byte received keeps the counters.
LEMMA ChipReceivesCounts ==
  ASSUME FskCounts, ChipReceives
  PROVE  FskCounts'
<1>1. /\ fifo' \in Fifos /\ fifo'.from <= fifo'.to
      /\ Level(fifo') \in 0..FifoSize
      /\ whole' \in BOOLEAN /\ ready' \in BOOLEAN
      /\ fifo'.to <= frame
      /\ fifo'.to = frame => ready'
  BY ReceivesEffect, Zenon
<1>2. /\ opMode = "RX" /\ frame > 0 /\ lenDue' = FALSE
      /\ events' = events \o Edges(fifo', ready')
      /\ lag' = IF events = <<>> THEN 0 ELSE lag + 1
      /\ events # <<>> => lag < MaxLag
      /\ State' = State /\ Size' = Size /\ NbBytes' = NbBytes /\ ChunkSize' = ChunkSize
      /\ fixLen' = fixLen /\ crcOn' = crcOn /\ continuous' = continuous
      /\ opMode' = opMode /\ frame' = frame /\ crcOk' = crcOk
      /\ told' = told
  BY Zenon DEF ChipReceives, handlerVars, settingsVars
<1>3. events' \in Seq(Lines)
  BY <1>2, RaisesType, Zenon DEF FskCounts
<1>4. lag' \in 0..MaxLag
  <2>1. lag \in 0..MaxLag /\ MaxLag \in Nat
    BY FskAssumption DEF FskCounts, FskTypeOK
  <2>2. CASE events = <<>>
    BY <1>2, <2>1, <2>2
  <2>3. CASE events # <<>>
    <3>1. lag + 1 \in 0..MaxLag
      <4>1. lag < MaxLag
        BY <1>2, <2>3, Zenon
      <4>. QED
        BY <2>1, <4>1
    <3>. QED
      BY <1>2, <2>3, <3>1, Zenon
  <2>. QED
    BY <2>2, <2>3
<1>5. ready' \in BOOLEAN /\ lenDue' \in BOOLEAN
  BY <1>1, <1>2
<1>6. FskTypeOK'
  BY <1>1, <1>2, <1>3, <1>4, <1>5, Zenon DEF FskCounts, FskTypeOK, Fifos, Lines
<1>7. Counts'
  <2>1. frame \in Int /\ frame > 0
    BY <1>2, CountsFacts, Zenon
  <2>2. frame # 0
    BY <2>1
  <2>. QED
    BY <1>1, <1>2, <2>2 DEF FskCounts, Counts
<1>. QED
  BY <1>6, <1>7 DEF FskCounts

\* The counters of the packet handler stay in their bytes and the level of the
\* FIFO in its size, whatever arrives, however late the client.
THEOREM FskCountsInvariant == Spec => []FskCounts
<1>1. Init => FskCounts
  <2>. SUFFICES ASSUME Init PROVE FskCounts
    OBVIOUS
  <2>1. fifo \in Fifos /\ fifo.from = 0 /\ fifo.to = 0 /\ Level(fifo) = 0
    BY FifoEmpty DEF Init
  <2>2. <<>> \in Seq(Lines) /\ 0 \in 0..FifoSize /\ 0 \in 0..MaxLag /\ 0 \in 0..255
    BY FskAssumption
  <2>3. told \in [what : {"none", "TxDone", "RxDone", "RxError"}, size : 0..255, whole : BOOLEAN]
    BY DEF Init, Nothing
  <2>4. FskTypeOK
    BY <2>1, <2>2, <2>3 DEF Init, FskTypeOK, Fifos, Lines
  <2>5. Counts
    BY <2>1 DEF Init, Counts
  <2>. QED
    BY <2>4, <2>5 DEF FskCounts
<1>2. FskCounts /\ [Next]_vars => FskCounts'
  <2>. SUFFICES ASSUME FskCounts, [Next]_vars PROVE FskCounts'
    OBVIOUS
  <2>1. ASSUME NEW size \in Sizes, Send(size) PROVE FskCounts'
    BY <2>1, SendCounts
  <2>2. ASSUME NEW size \in Sizes, ChipHears(size) PROVE FskCounts'
    BY <2>2, ChipHearsCounts
  <2>3. CASE SetRx
    BY <2>3, SetRxCounts
  <2>4. CASE SetSleep
    BY <2>4, SetSleepCounts
  <2>5. CASE Handlers
    BY <2>5, OnDio1RxCounts, OnDio1TxCounts, OnDio0RxCounts, OnDioOtherCounts, Zenon
    DEF Handlers
  <2>6. CASE ChipSends
    BY <2>6, ChipSendsCounts
  <2>7. CASE ChipReceives
    BY <2>7, ChipReceivesCounts
  <2>8. CASE UNCHANGED vars
    <3>1. FskTypeOK'
      <4>1. /\ State' = State /\ Size' = Size /\ NbBytes' = NbBytes /\ ChunkSize' = ChunkSize
            /\ fixLen' = fixLen /\ crcOn' = crcOn /\ continuous' = continuous
            /\ opMode' = opMode /\ fifo' = fifo /\ frame' = frame /\ lenDue' = lenDue
            /\ crcOk' = crcOk /\ ready' = ready /\ whole' = whole /\ told' = told
            /\ events' = events /\ lag' = lag
        BY <2>8, Zenon DEF vars, handlerVars, settingsVars, chipVars
      <4>2. FskTypeOK
        BY DEF FskCounts
      <4>3. /\ State' \in {"IDLE", "TX", "RX"} /\ opMode' \in {"SLEEP", "TX", "RX"}
            /\ Size' \in 0..255 /\ NbBytes' \in 0..255 /\ ChunkSize' \in 0..FifoSize
            /\ fixLen' \in BOOLEAN /\ crcOn' \in BOOLEAN /\ continuous' \in BOOLEAN
            /\ frame' \in 0..255
        BY <4>1, <4>2, Zenon DEF FskTypeOK
      <4>4. /\ lenDue' \in BOOLEAN /\ crcOk' \in BOOLEAN /\ ready' \in BOOLEAN
            /\ whole' \in BOOLEAN /\ lag' \in 0..MaxLag
            /\ told' \in [what : {"none", "TxDone", "RxDone", "RxError"}, size : 0..255, whole : BOOLEAN]
            /\ events' \in Seq({"DIO0", "DIO1"})
            /\ fifo' \in [hasLen : BOOLEAN, from : 0..255, to : 0..255]
            /\ Level(fifo') \in 0..FifoSize
        BY <4>1, <4>2, Zenon DEF FskTypeOK
      <4>. QED
        BY <4>3, <4>4, Zenon DEF FskTypeOK
    <3>2. Counts'
      BY <2>8 DEF vars, handlerVars, settingsVars, chipVars, FskCounts, Counts
    <3>. QED
      BY <3>1, <3>2 DEF FskCounts
  <2>. QED
    BY <2>1, <2>2, <2>3, <2>4, <2>5, <2>6, <2>7, <2>8 DEF Next
<1>. QED
  BY <1>1, <1>2, PTL DEF Spec

\* FskTypeOK holds: the counters of the packet handler are bytes and the FIFO
\* never holds more than it has.
THEOREM FskTypeCorrect == Spec => []FskTypeOK
<1>1. FskCounts => FskTypeOK
  BY DEF FskCounts
<1>. QED
  BY <1>1, FskCountsInvariant, PTL

-----------------------------------------------------------------------------
(* What waits to be dispatched.                                            *)

\* The short sequences of edges, taken apart and put together.
LEMMA Edge ==
  /\ Head(<<"DIO1">>) = "DIO1" /\ Tail(<<"DIO1">>) = <<>>
  /\ Head(<<"DIO0">>) = "DIO0" /\ Tail(<<"DIO0">>) = <<>>
  /\ Head(<<"DIO1", "DIO0">>) = "DIO1" /\ Tail(<<"DIO1", "DIO0">>) = <<"DIO0">>
  /\ <<"DIO1">> \o <<"DIO0">> = <<"DIO1", "DIO0">>
  /\ <<"DIO1">> # <<>> /\ <<"DIO0">> # <<>> /\ <<"DIO1", "DIO0">> # <<>>
  /\ "DIO0" # "DIO1"
<1>1. Head(<<"DIO1">>) = "DIO1" /\ Head(<<"DIO0">>) = "DIO0" /\ Head(<<"DIO1", "DIO0">>) = "DIO1"
  OBVIOUS
<1>2. Tail(<<"DIO1">>) = <<>>
  OBVIOUS
<1>3. Tail(<<"DIO0">>) = <<>>
  OBVIOUS
<1>4. Tail(<<"DIO1", "DIO0">>) = <<"DIO0">>
  OBVIOUS
<1>5. <<"DIO1">> \o <<"DIO0">> = <<"DIO1", "DIO0">>
  <2>. DEFINE s == <<"DIO1">>
              t == <<"DIO0">>
              u == <<"DIO1", "DIO0">>
  <2>1. /\ s \in Seq(Lines) /\ Len(s) = 1 /\ s[1] = "DIO1"
        /\ t \in Seq(Lines) /\ Len(t) = 1 /\ t[1] = "DIO0"
    BY DEF Lines
  <2>2. u \in Seq(Lines) /\ Len(u) = 2 /\ u[1] = "DIO1" /\ u[2] = "DIO0"
    BY DEF Lines
  <2>. HIDE DEF s, t, u
  <2>3. /\ s \o t \in Seq(Lines)
        /\ Len(s \o t) = Len(s) + Len(t)
        /\ \A i \in 1..Len(s) + Len(t) : (s \o t)[i] = IF i <= Len(s) THEN s[i] ELSE t[i - Len(s)]
    BY <2>1, ConcatProperties, Zenon
  <2>4. Len(s \o t) = Len(u)
    BY <2>1, <2>2, <2>3
  <2>5. (s \o t)[1] = u[1]
    BY <2>1, <2>2, <2>3
  <2>6. (s \o t)[2] = u[2]
    BY <2>1, <2>2, <2>3
  <2>7. \A i \in 1..Len(u) : (s \o t)[i] = u[i]
    <3>1. \A i \in 1..Len(u) : i = 1 \/ i = 2
      BY <2>2
    <3>. QED
      BY <2>5, <2>6, <3>1, Zenon
  <2>8. s \o t = u
    BY <2>2, <2>3, <2>4, <2>7, SeqEqual
  <2>. QED
    BY <2>8 DEF s, t, u
<1>6. <<"DIO1">> # <<>> /\ <<"DIO0">> # <<>> /\ <<"DIO1", "DIO0">> # <<>>
  OBVIOUS
<1>7. "DIO0" # "DIO1"
  OBVIOUS
<1>. QED
  BY <1>1, <1>2, <1>3, <1>4, <1>5, <1>6, <1>7, Zenon

\* The FIFO ran empty under a transmission, or over the threshold in a reception.
Raises(f) ==
  \/ opMode = "TX" /\ Level(fifo) > 0 /\ Level(f) = 0
  \/ opMode = "RX" /\ Level(fifo) <= FifoThresh /\ Level(f) > FifoThresh

\* The edges are DIO1 if the FIFO raises it, then DIO0 if the packet ends.
LEMMA EdgesAre ==
  ASSUME NEW f, NEW done
  PROVE  /\ ~Raises(f) /\ ~(done /\ ~ready) => Edges(f, done) = <<>>
         /\ ~Raises(f) /\ (done /\ ~ready) => Edges(f, done) = <<"DIO0">>
         /\ Raises(f) /\ ~(done /\ ~ready) => Edges(f, done) = <<"DIO1">>
         /\ Raises(f) /\ (done /\ ~ready) => Edges(f, done) = <<"DIO1", "DIO0">>
<1>. DEFINE a == IF opMode = "TX" /\ Level(fifo) > 0 /\ Level(f) = 0 THEN <<"DIO1">> ELSE <<>>
            b == IF opMode = "RX" /\ Level(fifo) <= FifoThresh /\ Level(f) > FifoThresh
                   THEN <<"DIO1">> ELSE <<>>
            c == IF done /\ ~ready THEN <<"DIO0">> ELSE <<>>
<1>1. Edges(f, done) = (a \o b) \o c
  BY DEF Edges
<1>2. \/ Raises(f) /\ ((a = <<"DIO1">> /\ b = <<>>) \/ (a = <<>> /\ b = <<"DIO1">>))
      \/ ~Raises(f) /\ a = <<>> /\ b = <<>>
  <2>1. "TX" # "RX"
    OBVIOUS
  <2>2. CASE opMode = "TX"
    BY <2>1, <2>2, Zenon DEF Raises
  <2>3. CASE opMode # "TX"
    BY <2>3, Zenon DEF Raises
  <2>. QED
    BY <2>2, <2>3
<1>3. c = IF done /\ ~ready THEN <<"DIO0">> ELSE <<>>
  OBVIOUS
<1>. HIDE DEF a, b, c
<1>4. \/ Raises(f) /\ a \o b = <<"DIO1">>
      \/ ~Raises(f) /\ a \o b = <<>>
  <2>1. <<"DIO1">> \o <<>> = <<"DIO1">>
    OBVIOUS
  <2>2. <<>> \o <<"DIO1">> = <<"DIO1">>
    OBVIOUS
  <2>3. <<>> \o <<>> = <<>>
    OBVIOUS
  <2>. QED
    BY <1>2, <2>1, <2>2, <2>3, Zenon
<1>5. /\ <<>> \o <<>> = <<>>
      /\ <<>> \o <<"DIO0">> = <<"DIO0">>
      /\ <<"DIO1">> \o <<>> = <<"DIO1">>
  OBVIOUS
<1>6. <<"DIO1">> \o <<"DIO0">> = <<"DIO1", "DIO0">>
  BY Edge, Zenon
<1>. QED
  BY <1>1, <1>3, <1>4, <1>5, <1>6, Zenon

\* Edges raised while nothing waits are what waits.
LEMMA FirstEdges ==
  ASSUME NEW f, NEW done, events = <<>>
  PROVE  events \o Edges(f, done) = Edges(f, done)
<1>1. Edges(f, done) \in Seq(Lines)
  BY EdgesType
<1>. QED
  BY <1>1, ConcatEmptySeq, Zenon

\* A dispatch takes the oldest event and adds none, outside of the errata.
LEMMA DispatchesOne ==
  ASSUME FskTypeOK, NEW line, Dispatches(line),
         opMode # "RX" \/ ready \/ Level(fifo') # 0
  PROVE  /\ events # <<>>
         /\ Head(events) = line
         /\ events' = Tail(events)
         /\ lag' = 0
<1>0. events \in Seq(Lines) /\ events # <<>>
  BY DEF FskTypeOK, Lines, Dispatches
<1>1. Tail(events) \in Seq(Lines)
  BY <1>0, HeadTailProperties
<1>2. PICK glitch \in BOOLEAN :
        /\ glitch => opMode = "RX" /\ ~ready /\ Level(fifo') = 0
        /\ events' = Tail(events) \o IF glitch THEN <<"DIO0">> ELSE <<>>
  BY Zenon DEF Dispatches
<1>3. ~glitch
  BY <1>2, Zenon
<1>4. events' = Tail(events) \o <<>>
  BY <1>2, <1>3, Zenon
<1>5. events' = Tail(events)
  BY <1>1, <1>4, ConcatEmptySeq, Zenon
<1>. QED
  BY <1>0, <1>5, Zenon DEF Dispatches

-----------------------------------------------------------------------------
(* A packet sent, step by step.                                            *)

\* Send begins with the length byte and a chunk that fits behind it, unless the packet
\* has the size of the FIFO.
LEMMA SendBegins ==
  ASSUME SendInv, NEW size \in Sizes, Send(size)
  PROVE  Asleep' /\ Sending' /\ Sent'
<1>. DEFINE n == ChunkOf(size)
<1>1. size \in 1..255 /\ FifoSize \in Int /\ FifoSize >= 1
  BY FskAssumption
<1>2. PICK fix \in BOOLEAN :
        /\ fixLen' = fix
        /\ Size' = size
        /\ ChunkSize' = n
        /\ NbBytes' = n
        /\ WriteFifo([Empty EXCEPT !.hasLen = ~fix], 0, n)
  BY Zenon DEF Send
<1>3. /\ opMode = "SLEEP" /\ events = <<>> /\ opMode' = "TX" /\ State' = "TX"
      /\ frame' = size /\ told' = Nothing /\ ready' = ready /\ events' = events
  BY Zenon DEF Send, MayCall
<1>4. ready = FALSE /\ whole = TRUE
  BY <1>3 DEF SendInv, Asleep, FskCounts, FskTypeOK
<1>. DEFINE f == [Empty EXCEPT !.hasLen = ~fix]
<1>5. /\ f \in Fifos /\ f.from = 0 /\ f.to = 0 /\ f.from <= f.to /\ Level(f) <= FifoSize
      /\ Level(f) = IF fix THEN 0 ELSE 1
  BY FreshFifo, Zenon
<1>6. n \in 0..FifoSize /\ n <= size /\ (size > FifoSize => n <= FifoSize \div 2)
  BY <1>1, ChunkBound, Zenon
<1>7. n \in Int /\ n >= 0 /\ n <= 255 /\ n <= FifoSize
  BY <1>1, <1>6
<1>8. frame' > 0 /\ frame' # 0
  BY <1>1, <1>3
<1>9. Asleep' /\ Sent'
  BY <1>3 DEF Asleep, Sent, Nothing
<1>10. CASE Level(f) + n <= FifoSize
  <2>. HIDE DEF f, n
  <2>1. f.to + n <= 255
    BY <1>5, <1>7
  <2>2. /\ fifo'.from = f.from
        /\ fifo'.to = f.to + n
        /\ whole' = (whole /\ (n > 0 => 0 = f.to))
    <3>1. WriteFifo(f, 0, n) /\ 0 \in Int
      BY <1>2 DEF f
    <3>. QED
      BY <1>5, <1>7, <1>10, <2>1, <3>1, WriteEffect, Zenon
  <2>3. fifo'.from = 0 /\ fifo'.to = n /\ whole'
    <3>1. 0 + n = n
      BY <1>7
    <3>. QED
      BY <1>4, <1>5, <2>2, <3>1, Zenon
  <2>4. ready' <=> fifo'.from = frame'
    BY <1>3, <1>4, <1>8, <2>3, Zenon
  <2>5. InStep'
    BY <1>2, <1>3, <1>4, <2>3, <2>4, Zenon DEF InStep
  <2>. QED
    BY <1>3, <1>8, <1>9, <2>5, Zenon DEF Sending
<1>11. CASE ~(Level(f) + n <= FifoSize)
  <2>1. size = FifoSize
    <3>1. SUFFICES ASSUME size # FifoSize PROVE FALSE
      OBVIOUS
    <3>2. 1 + n <= FifoSize
      <4>1. CASE size > FifoSize
        BY <1>1, <1>6, <4>1
      <4>2. CASE ~(size > FifoSize)
        BY <1>1, <1>6, <3>1, <4>2
      <4>. QED
        BY <4>1, <4>2
    <3>. HIDE DEF f, n
    <3>3. 0 + n <= FifoSize
      BY <1>7
    <3>. QED
      BY <1>5, <1>11, <3>2, <3>3, Zenon
  <2>2. n = size
    BY <1>1, <2>1, ChunkBound
  <2>. HIDE DEF f, n
  <2>3. fifo' = f
    BY <1>2, <1>11, Zenon DEF WriteFifo, f
  <2>4. fifo'.from = 0 /\ fifo'.to = 0
    BY <1>5, <2>3, Zenon
  <2>5. Overflowed'
    BY <1>2, <1>3, <1>4, <2>1, <2>2, <2>4, Zenon DEF Overflowed
  <2>. QED
    BY <1>3, <1>8, <1>9, <2>5, Zenon DEF Sending
<1>. QED
  BY <1>10, <1>11

\* A chunk is written into an empty FIFO, where it follows what has been sent.
LEMMA ChunkFollows ==
  ASSUME SendInv, OnDio1Tx, InStep
  PROVE  Asleep' /\ Sending' /\ Sent'
<1>. DEFINE n == NextChunk
<1>1. /\ State = "TX" /\ NbBytes' = NbBytes + n
      /\ WriteFifo(fifo, NbBytes, n)
      /\ Dispatches("DIO1")
      /\ State' = State /\ opMode' = opMode /\ frame' = frame
      /\ ready' = ready /\ told' = told
  BY Zenon DEF OnDio1Tx
<1>2. /\ FskCounts /\ opMode = "TX" /\ Size = frame
      /\ frame > 0 /\ told = Nothing /\ whole /\ NbBytes = fifo.to
      /\ ready <=> fifo.from = frame
      /\ \/ events = <<>> /\ ~ready
         \/ events = <<"DIO1">> /\ ~ready /\ Level(fifo) = 0
         \/ events = <<"DIO1", "DIO0">> /\ ready /\ Level(fifo) = 0
         \/ events = <<"DIO0">> /\ ready
  BY <1>1, Zenon DEF SendInv, FskCounts, Counts, Sending, InStep
<1>3. events # <<>> /\ Head(events) = "DIO1" /\ events' = Tail(events)
  <2>1. opMode # "RX" /\ FskTypeOK
    BY <1>2 DEF FskCounts
  <2>. QED
    BY <1>1, <2>1, DispatchesOne, Zenon
<1>4. \/ events = <<"DIO1">> /\ ~ready /\ Level(fifo) = 0
      \/ events = <<"DIO1", "DIO0">> /\ ready /\ Level(fifo) = 0
  BY <1>2, <1>3, Edge, Zenon
<1>5. Level(fifo) = 0
  BY <1>4
<1>6. \/ events' = <<>> /\ ~ready'
      \/ events' = <<"DIO0">> /\ ready'
  BY <1>1, <1>3, <1>4, Edge, Zenon
<1>7. n \in 0..ChunkSize /\ NbBytes + n <= Size
  BY <1>1, <1>2, NextChunkBound, Zenon
<1>8. /\ FifoSize \in Int
      /\ fifo \in Fifos /\ fifo.from <= fifo.to /\ Level(fifo) <= FifoSize
      /\ NbBytes \in Int /\ NbBytes >= 0
      /\ ChunkSize \in Int /\ ChunkSize <= FifoSize
      /\ Size \in Int /\ Size <= 255
      /\ whole \in BOOLEAN
  BY <1>2, CountsFacts, Zenon
<1>. HIDE DEF n
<1>9. n \in Int /\ n >= 0 /\ n <= FifoSize
  BY <1>7, <1>8
<1>10. NbBytes + n <= 255
  BY <1>7, <1>8, <1>9
<1>11. Level(fifo) + n <= FifoSize
  <2>1. 0 + n <= FifoSize
    BY <1>8, <1>9
  <2>. QED
    BY <1>5, <2>1, Zenon
<1>12. /\ fifo'.from = fifo.from
       /\ fifo'.to = fifo.to + n
       /\ whole' = (whole /\ (n > 0 => NbBytes = fifo.to))
  <2>1. fifo.to + n <= 255
    BY <1>2, <1>10, Zenon
  <2>. QED
    BY <1>1, <1>8, <1>9, <1>11, <2>1, WriteEffect, Zenon
<1>13. whole' /\ NbBytes' = fifo'.to
  BY <1>1, <1>2, <1>12, Zenon
<1>14. Sending'
  <2>1. ready' <=> fifo'.from = frame'
    BY <1>1, <1>2, <1>12, Zenon
  <2>2. frame' > 0 /\ told' = Nothing
    BY <1>1, <1>2, Zenon
  <2>. QED
    BY <1>6, <1>13, <2>1, <2>2, Zenon DEF Sending, InStep
<1>15. Asleep' /\ Sent'
  BY <1>1, <1>2 DEF Asleep, Sent, Nothing
<1>. QED
  BY <1>14, <1>15

\* After an overflow there is nothing left to write.
LEMMA NothingFollows ==
  ASSUME SendInv, OnDio1Tx, Overflowed
  PROVE  Asleep' /\ Sending' /\ Sent'
<1>. DEFINE n == NextChunk
<1>1. /\ State = "TX" /\ Size' = Size /\ NbBytes' = NbBytes + n
      /\ WriteFifo(fifo, NbBytes, n)
      /\ Dispatches("DIO1")
      /\ State' = State /\ opMode' = opMode /\ frame' = frame
      /\ ready' = ready /\ told' = told
  BY Zenon DEF OnDio1Tx
<1>2. /\ FskCounts /\ opMode = "TX" /\ frame > 0 /\ told = Nothing
      /\ frame = FifoSize /\ NbBytes = Size
      /\ fifo.from = 0 /\ fifo.to = 0 /\ ~ready
      /\ events = <<>> \/ (events = <<"DIO1">> /\ Level(fifo) = 0)
  BY <1>1, Zenon DEF SendInv, FskCounts, Counts, Sending, Overflowed
<1>3. events # <<>> /\ events' = Tail(events)
  <2>1. opMode # "RX" /\ FskTypeOK
    BY <1>2 DEF FskCounts
  <2>. QED
    BY <1>1, <2>1, DispatchesOne, Zenon
<1>4. events' = <<>>
  BY <1>2, <1>3, Edge, Zenon
<1>5. /\ fifo \in Fifos /\ fifo.from <= fifo.to /\ Level(fifo) <= FifoSize
      /\ Size \in Int /\ ChunkSize \in Int /\ ChunkSize >= 0
      /\ NbBytes \in Int
  BY <1>2, CountsFacts, Zenon
<1>6. n = 0
  <2>1. Size - Size = 0 /\ ~(0 > ChunkSize)
    BY <1>5
  <2>. QED
    BY <1>2, <2>1, Zenon DEF NextChunk
<1>. HIDE DEF n
<1>7. fifo'.from = fifo.from /\ (fifo'.to = fifo.to \/ fifo'.to = fifo.to + n)
  <2>1. n \in Int /\ 0 + n <= 255
    BY <1>6
  <2>2. fifo.to + n <= 255
    BY <1>2, <2>1, Zenon
  <2>. QED
    BY <1>1, <1>5, <2>1, <2>2, WriteEffect, Zenon
<1>8. 0 + 0 = 0 /\ Size + 0 = Size
  BY <1>5
<1>9. fifo'.from = 0 /\ fifo'.to = 0 /\ NbBytes' = Size'
  BY <1>1, <1>2, <1>6, <1>7, <1>8, Zenon
<1>10. Sending'
  BY <1>1, <1>2, <1>4, <1>9, Zenon DEF Sending, Overflowed
<1>11. Asleep' /\ Sent'
  BY <1>1, <1>2 DEF Asleep, Sent, Nothing
<1>. QED
  BY <1>10, <1>11

\* A byte is sent.  DIO1 rises when it was the last of the FIFO, DIO0 when it was
\* the last of the packet.
LEMMA ByteSent ==
  ASSUME SendInv, ChipSends
  PROVE  Asleep' /\ Sending' /\ Sent'
<1>1. /\ opMode = "TX" /\ ~ready /\ Level(fifo) > 0
      /\ ready' = (fifo'.from = frame)
      /\ events' = events \o Edges(fifo', ready')
      /\ State' = State /\ NbBytes' = NbBytes /\ opMode' = opMode /\ frame' = frame
      /\ whole' = whole /\ told' = told
  BY Zenon DEF ChipSends, handlerVars
<1>2. FskCounts /\ Level(fifo) # 0
  <2>1. FskCounts
    BY DEF SendInv
  <2>2. Level(fifo) \in Int
    BY <2>1, CountsFacts, Zenon
  <2>. QED
    BY <1>1, <2>1, <2>2
<1>3. fifo'.to = fifo.to
  BY <1>2, SendsEffect, Zenon
<1>4. Asleep' /\ Sent'
  BY <1>1 DEF SendInv, Asleep, Sent
<1>5. Sending'
  <2>1. SUFFICES ASSUME State = "TX" PROVE Sending'
    BY <1>1 DEF Sending
  <2>2. /\ frame > 0 /\ told = Nothing /\ (InStep \/ Overflowed)
    BY <2>1, Zenon DEF SendInv, Sending
  <2>3. events = <<>>
    BY <1>1, <1>2, <2>2, Zenon DEF InStep, Overflowed
  <2>4. events' = Edges(fifo', ready')
    BY <1>1, <2>3, FirstEdges, Zenon
  <2>5. Raises(fifo') <=> Level(fifo') = 0
    <3>1. "TX" # "RX"
      OBVIOUS
    <3>. QED
      BY <1>1, <3>1, Zenon DEF Raises
  <2>6. \/ events' = <<>> /\ ~ready'
        \/ events' = <<"DIO1">> /\ ~ready' /\ Level(fifo') = 0
        \/ events' = <<"DIO1", "DIO0">> /\ ready' /\ Level(fifo') = 0
        \/ events' = <<"DIO0">> /\ ready'
    BY <1>1, <2>4, <2>5, EdgesAre, Zenon
  <2>7. CASE InStep
    <3>1. InStep'
      BY <1>1, <1>3, <2>6, <2>7, Zenon DEF InStep
    <3>. QED
      BY <1>1, <2>2, <3>1, Zenon DEF Sending
  <2>8. CASE Overflowed
    <3>1. fifo.from = 0 /\ fifo.to = 0 /\ frame = FifoSize /\ NbBytes = Size /\ Size' = Size
      BY <2>8, Zenon DEF Overflowed, ChipSends, handlerVars
    <3>2. fifo.hasLen
      <4>1. ~fifo.hasLen => Level(fifo) = fifo.to - fifo.from
        BY <1>2, CountsFacts, Zenon
      <4>2. 0 - 0 = 0
        OBVIOUS
      <4>. QED
        BY <1>2, <3>1, <4>1, <4>2, Zenon
    <3>3. fifo'.from = 0
      BY <1>2, <3>1, <3>2, SendsEffect, Zenon
    <3>4. ~ready'
      <4>1. FifoSize # 0
        BY FskAssumption
      <4>. QED
        BY <1>1, <3>1, <3>3, <4>1, Zenon
    <3>5. events' = <<>> \/ (events' = <<"DIO1">> /\ Level(fifo') = 0)
      BY <2>6, <3>4, Zenon
    <3>6. Overflowed'
      BY <1>1, <1>3, <3>1, <3>3, <3>4, <3>5, Zenon DEF Overflowed
    <3>. QED
      BY <1>1, <2>2, <3>6, Zenon DEF Sending
  <2>. QED
    BY <2>2, <2>7, <2>8
<1>. QED
  BY <1>4, <1>5

\* TxDone is told of a packet whose last byte has been sent.
LEMMA TxDoneTold ==
  ASSUME SendInv, OnDio0TxDone
  PROVE  Asleep' /\ Sending' /\ Sent'
<1>1. /\ State = "TX" /\ State' = "IDLE" /\ Dispatches("DIO0")
      /\ told' = [what |-> "TxDone", size |-> Size, whole |-> whole]
      /\ opMode' = opMode /\ fifo' = fifo /\ frame' = frame /\ ready' = ready
  BY Zenon DEF OnDio0TxDone, chipVars
<1>2. /\ FskCounts /\ opMode = "TX" /\ Size = frame
      /\ events # <<>> /\ Head(events) = "DIO0"
  BY <1>1, Zenon DEF SendInv, FskCounts, Counts, Dispatches
<1>3. InStep
  <2>1. ~Overflowed
    BY <1>2, Edge, Zenon DEF Overflowed
  <2>. QED
    BY <1>1, <2>1, Zenon DEF SendInv, Sending
<1>4. whole /\ ready /\ fifo.from = frame
  BY <1>2, <1>3, Edge, Zenon DEF InStep
<1>5. told'.what = "TxDone" /\ told'.size = Size /\ told'.whole = whole
  BY <1>1
<1>6. Sent'
  BY <1>1, <1>2, <1>4, <1>5, Zenon DEF Sent
<1>7. Asleep' /\ Sending'
  BY <1>1, <1>2 DEF Asleep, Sending
<1>. QED
  BY <1>6, <1>7

\* Nothing else touches a packet being sent, and only sleep leaves TX.
LEMMA SendOther ==
  ASSUME SendInv,
         \/ SetRx \/ SetSleep \/ OnDioIdle \/ ChipReceives
         \/ OnDio1Rx \/ OnDio0RxError \/ OnDio0RxDone
         \/ \E size \in Sizes : ChipHears(size)
  PROVE  Asleep' /\ Sending' /\ Sent'
<1>1. CASE SetSleep
  BY <1>1 DEF SetSleep, Asleep, Sending, Sent, Nothing
<1>2. CASE SetRx
  BY <1>2 DEF SetRx, Asleep, Sending, Sent, Nothing
<1>3. CASE OnDioIdle
  <2>1. events # <<>> /\ State = "IDLE"
    BY <1>3 DEF OnDioIdle, Dispatches
  <2>2. opMode # "SLEEP"
    BY <2>1 DEF SendInv, Asleep
  <2>. QED
    BY <1>3, <2>1, <2>2 DEF OnDioIdle, chipVars, SendInv, Asleep, Sending, Sent
<1>4. CASE ChipReceives \/ \E size \in Sizes : ChipHears(size)
  <2>1. /\ opMode = "RX" /\ opMode' = "RX" /\ State' = State /\ told' = told
    BY <1>4 DEF ChipReceives, ChipHears
  <2>2. State # "TX" /\ told.what # "TxDone"
    BY <2>1 DEF SendInv, FskCounts, Counts, Sent
  <2>. QED
    BY <2>1, <2>2, Zenon DEF Asleep, Sending, Sent
<1>5. CASE OnDio1Rx \/ OnDio0RxError \/ OnDio0RxDone
  <2>1. /\ State = "RX" /\ State' \in {"RX", "IDLE"} /\ opMode' = opMode
        /\ told' = told \/ told'.what \in {"RxDone", "RxError"}
    BY <1>5 DEF OnDio1Rx, OnDio0RxError, OnDio0RxDone, EndsReception
  <2>2. opMode = "RX" /\ told.what # "TxDone"
    BY <2>1 DEF SendInv, FskCounts, Counts, Sent
  <2>3. State' # "TX" /\ opMode' # "SLEEP" /\ told'.what # "TxDone"
    BY <2>1, <2>2
  <2>. QED
    BY <2>3, Zenon DEF Asleep, Sending, Sent
<1>. QED
  BY <1>1, <1>2, <1>3, <1>4, <1>5

\* A packet is sent as one interval of bytes, in whatever chunks, unless it has
\* exactly the size of the FIFO and is written behind its length byte.
THEOREM FskSendInvariant == Spec => []SendInv
<1>1. Init => Asleep /\ Sending /\ Sent
  BY DEF Init, Asleep, Sending, Sent, Nothing
<1>2. SendInv /\ [Next]_vars => Asleep' /\ Sending' /\ Sent'
  <2>. SUFFICES ASSUME SendInv, [Next]_vars PROVE Asleep' /\ Sending' /\ Sent'
    OBVIOUS
  <2>1. ASSUME NEW size \in Sizes, Send(size) PROVE Asleep' /\ Sending' /\ Sent'
    BY <2>1, SendBegins
  <2>2. CASE \/ SetRx \/ SetSleep \/ OnDioIdle \/ ChipReceives
             \/ OnDio1Rx \/ OnDio0RxError \/ OnDio0RxDone
             \/ \E size \in Sizes : ChipHears(size)
    BY <2>2, SendOther, Zenon
  <2>3. CASE OnDio1Tx
    <3>1. State = "TX"
      BY <2>3 DEF OnDio1Tx
    <3>2. InStep \/ Overflowed
      BY <3>1 DEF SendInv, Sending
    <3>. QED
      BY <2>3, <3>2, ChunkFollows, NothingFollows
  <2>4. CASE OnDio0TxDone
    BY <2>4, TxDoneTold
  <2>5. CASE ChipSends
    BY <2>5, ByteSent
  <2>6. CASE UNCHANGED vars
    <3>1. /\ State' = State /\ Size' = Size /\ NbBytes' = NbBytes /\ opMode' = opMode /\ fifo' = fifo
          /\ frame' = frame /\ ready' = ready /\ whole' = whole /\ told' = told
          /\ events' = events
      BY <2>6, Zenon DEF vars, handlerVars, settingsVars, chipVars
    <3>2. Asleep' /\ Sent'
      BY <3>1, Zenon DEF SendInv, Asleep, Sent
    <3>3. (InStep => InStep') /\ (Overflowed => Overflowed')
      BY <3>1, Zenon DEF InStep, Overflowed
    <3>4. Sending'
      BY <3>1, <3>3, Zenon DEF SendInv, Sending
    <3>. QED
      BY <3>2, <3>4
  <2>. QED
    BY <2>1, <2>2, <2>3, <2>4, <2>5, <2>6, Zenon DEF Next, Handlers
<1>3. FskCounts /\ Asleep /\ Sending /\ Sent <=> SendInv
  BY DEF SendInv
<1>. QED
  BY <1>1, <1>2, <1>3, FskCountsInvariant, PTL DEF Spec

\* SentWhole holds: what ends with TxDone has been on the air, every byte once and
\* in order.
THEOREM FskSentWhole == Spec => []SentWhole
<1>1. SendInv => SentWhole
  BY DEF SendInv, Sent, SentWhole
<1>. QED
  BY <1>1, FskSendInvariant, PTL

\* Send and the handler never write more than the FIFO has room for, unless the
\* packet has exactly the size of the FIFO.
THEOREM FskNeverOverflows ==
  ASSUME FifoSize \notin Sizes
  PROVE  Spec => [](State = "TX" => whole)
<1>. DEFINE Framed == State = "TX" => frame \in Sizes
<1>1. Init => Framed
  BY DEF Init
<1>2. Framed /\ [Next]_vars => Framed'
  BY DEF Next, Handlers, Send, SetRx, SetSleep, OnDio1Rx, OnDio1Tx, OnDio0RxError, OnDio0RxDone,
         OnDio0TxDone, OnDioIdle, EndsReception, ChipSends, ChipHears, ChipReceives,
         vars, chipVars
<1>3. Framed /\ SendInv => (State = "TX" => whole)
  BY DEF SendInv, Sending, InStep, Overflowed
<1>4. Spec => []Framed
  <2>. HIDE DEF Framed
  <2>. QED
    BY <1>1, <1>2, PTL DEF Spec
<1>. QED
  BY <1>3, <1>4, FskSendInvariant, PTL

-----------------------------------------------------------------------------
(* A packet sent comes on.                                                 *)

\* The first chunk of any packet holds a byte of it.
LEMMA ChunkPositive ==
  ASSUME NEW size \in 1..255, FifoSize > 1
  PROVE  ChunkOf(size) > 0
BY FskAssumption DEF ChunkOf

\* A packet in transmission has a chunk to go on with, and either bytes in the
\* FIFO or an event that waits.
Fed ==
  State = "TX" =>
    /\ frame \in Sizes
    /\ ChunkSize > 0
    /\ events = <<>> => Level(fifo) > 0

\* The first chunk is in the FIFO when the transmission begins.
LEMMA BeginsFed ==
  ASSUME FskCounts', FifoSize > 1, NEW size \in Sizes, Send(size)
  PROVE  Fed'
<1>. DEFINE n == ChunkOf(size)
<1>1. size \in 1..255 /\ FifoSize \in Int
  BY FskAssumption
<1>2. PICK fix \in BOOLEAN :
        /\ ChunkSize' = n
        /\ WriteFifo([Empty EXCEPT !.hasLen = ~fix], 0, n)
  BY Zenon DEF Send
<1>. DEFINE f == [Empty EXCEPT !.hasLen = ~fix]
<1>3. /\ f \in Fifos /\ f.from = 0 /\ f.to = 0 /\ f.from <= f.to /\ Level(f) <= FifoSize
      /\ Level(f) = IF fix THEN 0 ELSE 1
  BY FreshFifo, Zenon
<1>4. frame' = size
  BY Zenon DEF Send
<1>5. n > 0 /\ n \in 0..FifoSize /\ n <= size
  BY <1>1, ChunkBound, ChunkPositive, Zenon
<1>6. n \in Int /\ n <= 255 /\ n >= 0
  BY <1>1, <1>5
<1>. HIDE DEF n, f
<1>7. Level(fifo') > 0
  <2>1. WriteFifo(f, 0, n)
    BY <1>2 DEF f
  <2>2. CASE Level(f) + n <= FifoSize
    <3>1. f.to + n <= 255 /\ 0 \in Int
      BY <1>3, <1>6
    <3>2. Level(fifo') = Level(f) + n
      BY <1>3, <1>6, <2>1, <2>2, <3>1, WriteEffect, Zenon
    <3>. QED
      BY <1>3, <1>5, <1>6, <3>2
  <2>3. CASE ~(Level(f) + n <= FifoSize)
    <3>1. fifo' = f
      BY <2>1, <2>3, Zenon DEF WriteFifo
    <3>2. Level(f) > 0
      BY <1>1, <1>3, <1>5, <2>3
    <3>. QED
      BY <3>1, <3>2, Zenon
  <2>. QED
    BY <2>2, <2>3
<1>. QED
  BY <1>2, <1>4, <1>5, <1>7, Zenon DEF Fed

\* The last byte of a chunk raises the event that asks for the next one.
LEMMA ByteFeeds ==
  ASSUME SendInv, Fed, ChipSends
  PROVE  Fed'
<1>1. /\ opMode = "TX" /\ ~ready /\ Level(fifo) > 0
      /\ events' = events \o Edges(fifo', ready')
      /\ State' = State /\ ChunkSize' = ChunkSize /\ frame' = frame
  BY Zenon DEF ChipSends, handlerVars
<1>2. FskCounts
  BY DEF SendInv
<1>3. Level(fifo') \in 0..FifoSize /\ FifoSize \in Int
  BY <1>2, SendsEffect, CountsFacts, Zenon
<1>4. ASSUME events' = <<>> PROVE Level(fifo') > 0
  <2>1. Edges(fifo', ready') \in Seq(Lines) /\ events \in Seq(Lines)
    BY <1>2, EdgesType DEF FskCounts, FskTypeOK, Lines
  <2>2. Edges(fifo', ready') = <<>>
    <3>1. Len(events \o Edges(fifo', ready')) = Len(events) + Len(Edges(fifo', ready'))
      BY <2>1, ConcatProperties, Zenon
    <3>2. Len(<<>>) = 0
      OBVIOUS
    <3>3. Len(events) + Len(Edges(fifo', ready')) = 0
      BY <1>1, <1>4, <3>1, <3>2, Zenon
    <3>4. Len(events) \in Nat /\ Len(Edges(fifo', ready')) \in Nat
      BY <2>1, LenProperties, Zenon
    <3>5. Len(Edges(fifo', ready')) = 0
      BY <3>3, <3>4
    <3>. QED
      BY <2>1, <3>5, EmptySeq, Zenon
  <2>3. ~Raises(fifo')
    <3>1. <<"DIO1">> # <<>> /\ <<"DIO1", "DIO0">> # <<>>
      BY Edge
    <3>. QED
      BY <2>2, <3>1, EdgesAre, Zenon
  <2>4. Level(fifo') # 0
    BY <1>1, <2>3, Zenon DEF Raises
  <2>. QED
    BY <1>3, <2>4
<1>. QED
  BY <1>1, <1>4, Zenon DEF Fed

\* The next chunk leaves the FIFO empty only after the last byte, and PacketSent
\* waits then.
LEMMA ChunkFeeds ==
  ASSUME SendInv, SendInv', Fed, OnDio1Tx, FifoSize \notin Sizes
  PROVE  Fed'
<1>1. /\ State = "TX" /\ NbBytes' = NbBytes + NextChunk
      /\ WriteFifo(fifo, NbBytes, NextChunk)
      /\ Dispatches("DIO1")
      /\ State' = State /\ ChunkSize' = ChunkSize /\ frame' = frame
  BY Zenon DEF OnDio1Tx
<1>2. /\ FskCounts /\ opMode = "TX" /\ Size = frame
      /\ frame \in Sizes /\ ChunkSize > 0
  BY <1>1, Zenon DEF SendInv, FskCounts, Counts, Fed
<1>3. InStep /\ InStep'
  BY <1>1, <1>2, Zenon DEF SendInv, Sending, Overflowed
<1>4. ASSUME events' = <<>> PROVE Level(fifo') > 0
  <2>1. events # <<>> /\ Head(events) = "DIO1" /\ events' = Tail(events)
    <3>1. opMode # "RX" /\ FskTypeOK
      BY <1>2 DEF FskCounts
    <3>. QED
      BY <1>1, <3>1, DispatchesOne, Zenon
  <2>2. ~ready /\ Level(fifo) = 0
    BY <1>3, <1>4, <2>1, Edge, Zenon DEF InStep
  <2>3. /\ NbBytes = fifo.to /\ NbBytes' = fifo'.to
        /\ fifo.from # frame
    BY <1>3, <2>2, Zenon DEF InStep
  <2>4. /\ fifo \in Fifos /\ fifo.hasLen \in BOOLEAN
        /\ fifo.from \in Int /\ fifo.to \in Int /\ fifo.from <= fifo.to
        /\ fifo.hasLen => Level(fifo) = fifo.to - fifo.from + 1
        /\ ~fifo.hasLen => Level(fifo) = fifo.to - fifo.from
        /\ Level(fifo) <= FifoSize
        /\ NbBytes \in Int /\ Size \in Int /\ ChunkSize \in Int /\ Size <= 255
    BY <1>2, CountsFacts, Zenon
  <2>5. fifo.from = fifo.to
    BY <2>2, <2>4
  <2>6. NbBytes <= Size /\ NbBytes # Size
    BY <1>1, <1>2, <2>3, <2>5, Zenon DEF FskCounts, Counts
  <2>7. NextChunk > 0 /\ NextChunk \in Int
    BY <1>2, <2>4, <2>6 DEF NextChunk
  <2>8. fifo'.from = fifo.from
    <3>1. NbBytes + NextChunk <= Size
      BY <1>1, <1>2, NextChunkBound, Zenon
    <3>2. fifo.to + NextChunk <= 255
      BY <2>3, <2>4, <2>7, <3>1
    <3>. QED
      BY <1>1, <2>4, <2>7, <3>2, WriteEffect, Zenon
  <2>9. /\ fifo'.hasLen \in BOOLEAN
        /\ fifo'.hasLen => Level(fifo') = fifo'.to - fifo'.from + 1
        /\ ~fifo'.hasLen => Level(fifo') = fifo'.to - fifo'.from
    <3>1. fifo' \in Fifos
      BY DEF SendInv, FskCounts, FskTypeOK, Fifos
    <3>. QED
      BY <3>1, LevelInt, Zenon
  <2>10. fifo'.to - fifo'.from = NextChunk
    BY <1>1, <2>3, <2>4, <2>5, <2>7, <2>8
  <2>. QED
    BY <2>7, <2>9, <2>10
<1>. QED
  BY <1>1, <1>2, <1>4, Zenon DEF Fed

\* NeverStarves holds of every FIFO of two bytes or more, unless a packet has its
\* size: the event that asks for the next chunk is never missed nor consumed without one.
THEOREM FskNeverStarves ==
  ASSUME FifoSize > 1, FifoSize \notin Sizes
  PROVE  Spec => []NeverStarves
<1>1. Init => Fed
  BY DEF Init, Fed
<1>2. SendInv /\ SendInv' /\ Fed /\ [Next]_vars => Fed'
  <2>. SUFFICES ASSUME SendInv, SendInv', Fed, [Next]_vars PROVE Fed'
    OBVIOUS
  <2>1. ASSUME NEW size \in Sizes, Send(size) PROVE Fed'
    <3>1. FskCounts'
      BY DEF SendInv
    <3>. QED
      BY <2>1, <3>1, BeginsFed
  <2>2. CASE ChipSends
    BY <2>2, ByteFeeds
  <2>3. CASE OnDio1Tx
    BY <2>3, ChunkFeeds
  <2>4. CASE SetRx \/ SetSleep \/ OnDio0TxDone
    BY <2>4 DEF SetRx, SetSleep, OnDio0TxDone, Fed
  <2>5. CASE OnDioIdle \/ OnDio1Rx \/ OnDio0RxError \/ OnDio0RxDone
    BY <2>5 DEF OnDioIdle, OnDio1Rx, OnDio0RxError, OnDio0RxDone, EndsReception, Fed
  <2>6. CASE ChipReceives \/ \E size \in Sizes : ChipHears(size)
    <3>1. State # "TX" /\ State' = State
      BY <2>6 DEF ChipReceives, ChipHears, SendInv, FskCounts, Counts
    <3>. QED
      BY <3>1, Zenon DEF Fed
  <2>7. CASE UNCHANGED vars
    BY <2>7, Zenon DEF vars, handlerVars, chipVars, Fed
  <2>. QED
    BY <2>1, <2>2, <2>3, <2>4, <2>5, <2>6, <2>7, Zenon DEF Next, Handlers
<1>3. Fed => NeverStarves
  BY DEF Fed, NeverStarves
<1>. QED
  BY <1>1, <1>2, <1>3, FskSendInvariant, PTL DEF Spec

\* The edges of one byte sent are two at most.
LEMMA FewEdges ==
  ASSUME NEW f, NEW done
  PROVE  Len(Edges(f, done)) \in 0..2
<1>1. \/ Edges(f, done) = <<>>
      \/ Edges(f, done) = <<"DIO0">>
      \/ Edges(f, done) = <<"DIO1">>
      \/ Edges(f, done) = <<"DIO1", "DIO0">>
  BY EdgesAre, Zenon
<1>2. /\ Len(<<>>) \in 0..2
      /\ Len(<<"DIO0">>) \in 0..2
      /\ Len(<<"DIO1">>) \in 0..2
      /\ Len(<<"DIO1", "DIO0">>) \in 0..2
  OBVIOUS
<1>. QED
  BY <1>1, <1>2, Zenon

\* A byte sent is three steps less, and its edges two more at most.
LEMMA ByteProgresses ==
  ASSUME FskCounts, ChipSends
  PROVE  StepsToTxDone' < StepsToTxDone
<1>1. /\ events' = events \o Edges(fifo', ready')
      /\ Size' = Size /\ NbBytes' = NbBytes
  BY Zenon DEF ChipSends, handlerVars
<1>2. events \in Seq(Lines) /\ Edges(fifo', ready') \in Seq(Lines)
  BY EdgesType DEF FskCounts, FskTypeOK, Lines
<1>3. /\ Len(events') = Len(events) + Len(Edges(fifo', ready'))
      /\ Len(events) \in Nat
  <2>1. Len(events \o Edges(fifo', ready')) = Len(events) + Len(Edges(fifo', ready'))
    BY <1>2, ConcatProperties, Zenon
  <2>2. Len(events) \in Nat
    BY <1>2, LenProperties, Zenon
  <2>. QED
    BY <1>1, <2>1, <2>2, Zenon
<1>4. Len(Edges(fifo', ready')) \in 0..2
  BY FewEdges
<1>5. Level(fifo') = Level(fifo) - 1
  BY SendsEffect, Zenon
<1>6. Level(fifo) \in Int /\ Size \in Int /\ NbBytes \in Int
  BY CountsFacts, Zenon
<1>. DEFINE l == Len(events)
            e == Len(Edges(fifo', ready'))
            v == Level(fifo)
<1>7. /\ StepsToTxDone = 3 * (Size - NbBytes + v) + l
      /\ StepsToTxDone' = 3 * (Size - NbBytes + (v - 1)) + (l + e)
  BY <1>1, <1>3, <1>5, Zenon DEF StepsToTxDone
<1>8. l \in Nat /\ e \in 0..2 /\ v \in Int
  BY <1>3, <1>4, <1>6, Zenon
<1>. HIDE DEF l, e, v
<1>. QED
  BY <1>6, <1>7, <1>8

\* A chunk moves what is to write into the FIFO, and its event is gone.
LEMMA ChunkProgresses ==
  ASSUME FskCounts, OnDio1Tx
  PROVE  StepsToTxDone' < StepsToTxDone
<1>. DEFINE n == NextChunk
            v == Level(fifo)
            w == Level(fifo')
            l == Len(events)
<1>1. /\ State = "TX" /\ Size' = Size /\ NbBytes' = NbBytes + n
      /\ WriteFifo(fifo, NbBytes, n)
      /\ Dispatches("DIO1")
  BY Zenon DEF OnDio1Tx
<1>2. n \in 0..255 /\ NbBytes + n <= Size
  BY <1>1, NextChunkBound, Zenon
<1>3. /\ fifo \in Fifos /\ fifo.from <= fifo.to /\ v <= FifoSize
      /\ v \in Int /\ Size \in Int /\ Size <= 255 /\ NbBytes \in Int
  BY CountsFacts, Zenon
<1>4. Len(events') = l - 1 /\ l \in Int
  <2>1. opMode # "RX" /\ FskTypeOK
    BY <1>1 DEF FskCounts, Counts
  <2>2. events # <<>> /\ events' = Tail(events)
    BY <1>1, <2>1, DispatchesOne, Zenon
  <2>3. events \in Seq(Lines)
    BY <2>1 DEF FskTypeOK, Lines
  <2>. QED
    BY <2>2, <2>3, HeadTailProperties, LenProperties
<1>5. w <= v + n /\ w \in Int
  <2>1. CASE v + n <= FifoSize
    <3>1. fifo.to <= NbBytes /\ fifo.to \in Int
      BY <1>1, CountsFacts DEF FskCounts, Counts
    <3>. HIDE DEF n, v, w
    <3>2. fifo.to + n <= 255 /\ n \in Int /\ n >= 0
      BY <1>2, <1>3, <3>1
    <3>3. w = v + n
      BY <1>1, <1>3, <2>1, <3>2, WriteEffect, Zenon DEF v, w
    <3>. QED
      BY <1>2, <1>3, <3>3
  <2>2. CASE ~(v + n <= FifoSize)
    <3>1. fifo' = fifo
      BY <1>1, <2>2, Zenon DEF WriteFifo
    <3>2. w = v
      BY <3>1, Zenon
    <3>. HIDE DEF n, v, w
    <3>. QED
      BY <1>2, <1>3, <3>2
  <2>. QED
    BY <2>1, <2>2
<1>6. /\ StepsToTxDone = 3 * (Size - NbBytes + v) + l
      /\ StepsToTxDone' = 3 * (Size - (NbBytes + n) + w) + (l - 1)
  BY <1>1, <1>4, Zenon DEF StepsToTxDone
<1>. HIDE DEF n, v, w, l
<1>. QED
  BY <1>2, <1>3, <1>4, <1>5, <1>6

\* A packet of any size is at most 770 steps from its TxDone.
LEMMA StepsBounded ==
  ASSUME SendInv, State = "TX"
  PROVE  StepsToTxDone \in 0..770
<1>. DEFINE v == Level(fifo)
            l == Len(events)
<1>1. FskCounts /\ NbBytes <= Size /\ fifo.to <= NbBytes
  BY DEF SendInv, FskCounts, Counts
<1>2. /\ v \in Int
      /\ fifo.hasLen => v = fifo.to - fifo.from + 1
      /\ ~fifo.hasLen => v = fifo.to - fifo.from
      /\ fifo.from \in Int /\ fifo.from >= 0 /\ fifo.to \in Int /\ fifo.from <= fifo.to
      /\ Size \in Int /\ Size <= 255 /\ NbBytes \in Int /\ NbBytes >= 0
  BY <1>1, CountsFacts, Zenon
<1>3. l \in 0..2
  <2>1. \/ events = <<>>
        \/ events = <<"DIO1">>
        \/ events = <<"DIO1", "DIO0">>
        \/ events = <<"DIO0">>
    BY DEF SendInv, Sending, InStep, Overflowed
  <2>2. /\ Len(<<>>) \in 0..2
        /\ Len(<<"DIO0">>) \in 0..2
        /\ Len(<<"DIO1">>) \in 0..2
        /\ Len(<<"DIO1", "DIO0">>) \in 0..2
    OBVIOUS
  <2>. QED
    BY <2>1, <2>2, Zenon
<1>4. StepsToTxDone = 3 * (Size - NbBytes + v) + l
  BY Zenon DEF StepsToTxDone
<1>. HIDE DEF v, l
<1>5. v >= 0 /\ v <= NbBytes + 1
  BY <1>1, <1>2
<1>. QED
  BY <1>1, <1>2, <1>3, <1>4, <1>5

\* SendProgresses holds: every step of the handler and the chip brings a packet sent
\* nearer to its TxDone, which is at most 770 steps away.
THEOREM FskSendProgresses ==
  Spec => SendProgresses /\ [](State = "TX" => StepsToTxDone \in 0..770)
<1>1. SendInv /\ [Next]_vars =>
        [State = "TX" /\ State' = "TX" => StepsToTxDone' < StepsToTxDone]_vars
  <2>. SUFFICES ASSUME SendInv, Next, State = "TX", State' = "TX"
                PROVE  StepsToTxDone' < StepsToTxDone
    OBVIOUS
  <2>1. FskCounts /\ opMode = "TX"
    BY DEF SendInv, FskCounts, Counts
  <2>2. ChipSends \/ OnDio1Tx
    <3>1. ~SetRx /\ ~SetSleep /\ ~OnDio0TxDone
      BY DEF SetRx, SetSleep, OnDio0TxDone
    <3>2. ~OnDioIdle /\ ~OnDio1Rx /\ ~OnDio0RxError /\ ~OnDio0RxDone
      BY DEF OnDioIdle, OnDio1Rx, OnDio0RxError, OnDio0RxDone
    <3>3. ~ChipReceives /\ \A size \in Sizes : ~Send(size) /\ ~ChipHears(size)
      BY <2>1 DEF ChipReceives, ChipHears, Send, MayCall
    <3>. QED
      BY <3>1, <3>2, <3>3, Zenon DEF Next, Handlers
  <2>. QED
    BY <2>1, <2>2, ByteProgresses, ChunkProgresses
<1>2. SendInv => (State = "TX" => StepsToTxDone \in 0..770)
  BY StepsBounded
<1>. QED
  BY <1>1, <1>2, FskSendInvariant, PTL DEF Spec, SendProgresses

-----------------------------------------------------------------------------
(* A packet received, step by step.                                        *)

\* A chip asleep does nothing, and nothing but SetSleep puts it to sleep.
LEMMA StaysAsleep ==
  ASSUME FskCounts, Asleep, [Next]_vars
  PROVE  Asleep'
<1>1. CASE opMode = "SLEEP"
  <2>1. events = <<>>
    BY <1>1 DEF Asleep
  <2>2. ~Handlers
    BY <2>1 DEF Handlers, OnDio1Rx, OnDio1Tx, OnDio0RxError, OnDio0RxDone, OnDio0TxDone,
                OnDioIdle, EndsReception, Dispatches
  <2>3. ~ChipSends /\ ~ChipReceives /\ ~SetSleep /\ \A size \in Sizes : ~ChipHears(size)
    BY <1>1 DEF ChipSends, ChipReceives, SetSleep, ChipHears
  <2>4. CASE SetRx \/ \E size \in Sizes : Send(size)
    BY <2>4 DEF SetRx, Send, Asleep
  <2>5. CASE UNCHANGED vars
    <3>1. /\ State' = State /\ opMode' = opMode /\ fifo' = fifo /\ frame' = frame
          /\ ready' = ready /\ whole' = whole /\ told' = told /\ events' = events
      BY <2>5, Zenon DEF vars, handlerVars, settingsVars, chipVars
    <3>. QED
      BY <3>1, Zenon DEF Asleep
  <2>. QED
    BY <2>2, <2>3, <2>4, <2>5, Zenon DEF Next
<1>2. CASE opMode # "SLEEP"
  <2>1. CASE SetSleep
    BY <2>1 DEF SetSleep, Asleep
  <2>2. CASE ~SetSleep
    <3>1. opMode' # "SLEEP"
      BY <1>2, <2>2
      DEF Next, Handlers, OnDio1Rx, OnDio1Tx, OnDio0RxError, OnDio0RxDone, OnDio0TxDone, OnDioIdle,
          EndsReception, SetRx, Send, ChipSends, ChipReceives, ChipHears, vars, chipVars
    <3>. QED
      BY <3>1 DEF Asleep
  <2>. QED
    BY <2>1, <2>2
<1>. QED
  BY <1>1, <1>2

\* The handlers know the size of a packet that has begun to arrive, and where in it
\* the FIFO begins.
LEMMA SizeKnown ==
  ASSUME FskCounts, LengthKnown, frame # 0, fifo.hasLen \/ fifo.to # 0
  PROVE  /\ SizeRead = frame
         /\ ~lenDue
         /\ ~FifoRead.hasLen
         /\ FifoRead.from = NbBytes
         /\ fifo.from = NbBytes
<1>1. /\ FifoRead.from = fifo.from
      /\ ~(Size # 0 \/ NbBytes # 0 \/ fixLen) => ~FifoRead.hasLen
      /\ (Size # 0 \/ NbBytes # 0 \/ fixLen) => FifoRead.hasLen = fifo.hasLen
  BY FifoReadEffect, Zenon
<1>2. lenDue \in BOOLEAN /\ fixLen \in BOOLEAN /\ fifo.hasLen \in BOOLEAN
  BY CountsFacts DEF FskCounts, FskTypeOK
<1>3. CASE /\ Size = 0
           /\ NbBytes = 0
           /\ fifo.from = 0
           /\ fixLen => ~lenDue /\ ~fifo.hasLen
           /\ ~fixLen => lenDue # fifo.hasLen
           /\ lenDue => fifo.to = 0
  <2>1. ~lenDue
    <3>1. SUFFICES ASSUME lenDue PROVE FALSE
      OBVIOUS
    <3>2. fifo.to = 0 /\ ~fixLen
      BY <1>3, <3>1
    <3>3. lenDue = TRUE /\ fifo.hasLen = TRUE
      BY <1>2, <3>1, <3>2
    <3>. QED
      BY <1>3, <3>2, <3>3
  <2>2. fixLen \/ fifo.hasLen
    BY <1>2, <1>3, <2>1
  <2>3. SizeRead = frame
    BY <1>3, <2>2, Zenon DEF SizeRead
  <2>4. ~FifoRead.hasLen
    BY <1>1, <1>3, Zenon
  <2>. QED
    BY <1>1, <1>3, <2>1, <2>3, <2>4, Zenon
<1>4. CASE /\ Size = frame
           /\ ~lenDue
           /\ ~fifo.hasLen
           /\ fifo.from = NbBytes
  <2>1. SizeRead = frame
    BY <1>4, Zenon DEF SizeRead
  <2>2. ~FifoRead.hasLen
    BY <1>1, <1>4, Zenon
  <2>. QED
    BY <1>1, <1>4, <2>1, <2>2, Zenon
<1>. QED
  BY <1>3, <1>4, Zenon DEF LengthKnown

\* A reception begins with nothing read.
LEMMA ReceptionBegins ==
  ASSUME ReceiveInv, SetRx \/ \E size \in Sizes : ChipHears(size)
  PROVE  Receiving' /\ ReceivedWhole'
<1>1. CASE SetRx
  BY <1>1 DEF SetRx, MayCall, ReceiveInv, Asleep, Receiving, ReceivedWhole, Nothing
<1>2. CASE \E size \in Sizes : ChipHears(size)
  <2>1. PICK size \in Sizes : ChipHears(size)
    BY <1>2
  <2>2. /\ opMode = "RX" /\ frame = 0 /\ frame' = size /\ fifo' = Empty
        /\ lenDue' = ~fixLen /\ whole' = TRUE /\ fixLen' = fixLen
        /\ State' = State /\ Size' = Size /\ NbBytes' = NbBytes
        /\ ready' = ready /\ told' = told /\ events' = events
    BY <2>1, Zenon DEF ChipHears, handlerVars, settingsVars
  <2>3. ReceivedWhole'
    BY <2>2, Zenon DEF ReceiveInv, ReceivedWhole
  <2>4. Receiving'
    <3>1. SUFFICES ASSUME State = "RX" PROVE Receiving'
      BY <2>2 DEF Receiving
    <3>2. events = <<>> /\ ~ready /\ Size = 0 /\ NbBytes = 0
      BY <2>2, <3>1, Zenon DEF ReceiveInv, Receiving
    <3>3. frame' # 0
      BY <2>2, FskAssumption
    <3>4. fifo'.hasLen = FALSE /\ fifo'.from = 0 /\ fifo'.to = 0 /\ Level(fifo') = 0
      BY <2>2, FifoEmpty, Zenon
    <3>5. LengthKnown'
      <4>1. fixLen \in BOOLEAN
        BY DEF ReceiveInv, FskCounts, FskTypeOK
      <4>2. CASE fixLen
        BY <2>2, <3>2, <3>4, <4>2 DEF LengthKnown
      <4>3. CASE ~fixLen
        BY <2>2, <3>2, <3>4, <4>3 DEF LengthKnown
      <4>. QED
        BY <4>2, <4>3
    <3>6. Heard'
      <4>1. 0 <= FifoThresh
        BY FskAssumption
      <4>. QED
        BY <2>2, <3>2, <3>4, <4>1, Zenon DEF Heard
    <3>. QED
      BY <2>2, <3>2, <3>3, <3>5, <3>6, Zenon DEF Receiving
  <2>. QED
    BY <2>3, <2>4
<1>. QED
  BY <1>1, <1>2

\* A byte arrives before the FIFO is full.  DIO1 rises when it is over the threshold,
\* DIO0 when it was the last of the packet.
LEMMA ByteReceived ==
  ASSUME ReceiveInv, FifoThresh + MaxLag < FifoSize, ChipReceives
  PROVE  Receiving' /\ ReceivedWhole'
<1>1. /\ opMode = "RX" /\ frame > 0 /\ ~ready /\ lenDue' = FALSE
      /\ events' = events \o Edges(fifo', ready')
      /\ lag' = IF events = <<>> THEN 0 ELSE lag + 1
      /\ events # <<>> => lag < MaxLag
      /\ State' = State /\ Size' = Size /\ NbBytes' = NbBytes
      /\ fixLen' = fixLen /\ frame' = frame /\ told' = told
  BY Zenon DEF ChipReceives, handlerVars, settingsVars
<1>2. ReceivedWhole'
  BY <1>1, Zenon DEF ReceiveInv, ReceivedWhole
<1>3. SUFFICES ASSUME State = "RX" PROVE Receiving'
  BY <1>1, <1>2 DEF Receiving
<1>4. FskCounts /\ frame # 0
  <2>1. FskCounts
    BY DEF ReceiveInv
  <2>2. frame \in Int
    BY <2>1, CountsFacts, Zenon
  <2>. QED
    BY <1>1, <2>1, <2>2
<1>5. whole /\ LengthKnown /\ Heard
  BY <1>3, <1>4, Zenon DEF ReceiveInv, Receiving
<1>6. /\ Level(fifo) \in Int /\ FifoSize \in Int /\ FifoThresh \in Int /\ MaxLag \in Int
      /\ lag \in Int /\ lag >= 0 /\ MaxLag >= 0
  <2>1. Level(fifo) \in Int /\ FifoSize \in Int
    BY <1>4, CountsFacts, Zenon
  <2>2. FifoThresh \in Int /\ MaxLag \in Int /\ MaxLag >= 0
    BY FskAssumption
  <2>3. lag \in Int /\ lag >= 0
    BY <1>4, FskAssumption DEF FskCounts, FskTypeOK
  <2>. QED
    BY <2>1, <2>2, <2>3, Zenon
<1>7. \/ events = <<>> /\ Level(fifo) <= FifoThresh
      \/ events = <<"DIO1">> /\ Level(fifo) > FifoThresh /\ Level(fifo) <= FifoThresh + 1 + lag
         /\ lag < MaxLag
  <2>1. \/ events = <<>> /\ Level(fifo) <= FifoThresh
        \/ events = <<"DIO1">> /\ Level(fifo) > FifoThresh /\ Level(fifo) <= FifoThresh + 1 + lag
    BY <1>1, <1>5, Zenon DEF Heard
  <2>. QED
    BY <1>1, <2>1, Edge, Zenon
<1>8. Level(fifo) < FifoSize
  <2>1. CASE Level(fifo) <= FifoThresh
    BY <1>6, <2>1
  <2>2. CASE Level(fifo) <= FifoThresh + 1 + lag /\ lag < MaxLag
    BY <1>6, <2>2
  <2>. QED
    BY <1>7, <2>1, <2>2, Zenon
<1>9. lenDue => ~fifo.hasLen
  <2>1. lenDue \in BOOLEAN /\ fifo.hasLen \in BOOLEAN
    BY <1>4, CountsFacts DEF FskCounts, FskTypeOK
  <2>. QED
    BY <1>5, <2>1 DEF LengthKnown
<1>10. /\ whole' = whole
       /\ ready' = (fifo'.to = frame)
       /\ fifo'.from = fifo.from
       /\ lenDue => fifo'.hasLen = TRUE /\ fifo'.to = fifo.to
       /\ ~lenDue => fifo'.hasLen = fifo.hasLen
       /\ Level(fifo') = Level(fifo) + 1
  BY <1>4, <1>8, <1>9, ReceivesEffect, Zenon
<1>11. LengthKnown'
  <2>1. lenDue \in BOOLEAN /\ fifo.hasLen \in BOOLEAN /\ fixLen \in BOOLEAN
    BY <1>4, CountsFacts DEF FskCounts, FskTypeOK
  <2>2. CASE /\ Size = 0
             /\ NbBytes = 0
             /\ fifo.from = 0
             /\ fixLen => ~lenDue /\ ~fifo.hasLen
             /\ ~fixLen => lenDue # fifo.hasLen
             /\ lenDue => fifo.to = 0
    <3>1. Size' = 0 /\ NbBytes' = 0 /\ fifo'.from = 0 /\ ~lenDue'
      BY <1>1, <1>10, <2>2, Zenon
    <3>2. fixLen' => ~fifo'.hasLen
      BY <1>1, <1>10, <2>2, Zenon
    <3>3. ~fixLen' => lenDue' # fifo'.hasLen
      <4>1. CASE lenDue
        BY <1>1, <1>10, <4>1
      <4>2. CASE ~lenDue
        BY <1>1, <1>10, <2>1, <2>2, <4>2
      <4>. QED
        BY <4>1, <4>2
    <3>. QED
      BY <3>1, <3>2, <3>3, Zenon DEF LengthKnown
  <2>3. CASE Size = frame /\ ~lenDue /\ ~fifo.hasLen /\ fifo.from = NbBytes
    <3>1. Size' = frame' /\ ~lenDue' /\ ~fifo'.hasLen /\ fifo'.from = NbBytes'
      BY <1>1, <1>10, <2>3, Zenon
    <3>. QED
      BY <3>1, Zenon DEF LengthKnown
  <2>. QED
    BY <1>5, <2>2, <2>3, Zenon DEF LengthKnown
<1>12. Heard'
  <2>1. CASE events = <<>> /\ Level(fifo) <= FifoThresh
    <3>1. events' = Edges(fifo', ready') /\ lag' = 0
      BY <1>1, <2>1, FirstEdges, Zenon
    <3>2. Raises(fifo') <=> Level(fifo') > FifoThresh
      <4>1. "TX" # "RX"
        OBVIOUS
      <4>. QED
        BY <1>1, <2>1, <4>1, Zenon DEF Raises
    <3>3. \/ events' = <<>> /\ ~ready' /\ ~(Level(fifo') > FifoThresh)
          \/ events' = <<"DIO1">> /\ ~ready' /\ Level(fifo') > FifoThresh
          \/ events' = <<"DIO1", "DIO0">> /\ ready' /\ Level(fifo') > FifoThresh
          \/ events' = <<"DIO0">> /\ ready'
      BY <1>1, <1>10, <3>1, <3>2, EdgesAre, Zenon
    <3>4. ~(Level(fifo) + 1 > FifoThresh) => Level(fifo) + 1 <= FifoThresh
      BY <1>6
    <3>5. /\ Level(fifo) + 1 <= FifoThresh + 1 + 0
          /\ Level(fifo) + 1 <= FifoThresh + 1 + MaxLag
      BY <1>6, <2>1
    <3>. QED
      BY <1>10, <3>1, <3>3, <3>4, <3>5, Zenon DEF Heard
  <2>2. CASE /\ events = <<"DIO1">> /\ Level(fifo) > FifoThresh
             /\ Level(fifo) <= FifoThresh + 1 + lag /\ lag < MaxLag
    <3>1. lag' = lag + 1
      BY <1>1, <2>2, Edge, Zenon
    <3>2. ~Raises(fifo')
      <4>1. ~(Level(fifo) <= FifoThresh)
        BY <1>6, <2>2
      <4>2. "TX" # "RX"
        OBVIOUS
      <4>. QED
        BY <1>1, <4>1, <4>2, Zenon DEF Raises
    <3>3. \/ events' = <<"DIO1">> \o <<>> /\ ~ready'
          \/ events' = <<"DIO1">> \o <<"DIO0">> /\ ready'
      BY <1>1, <1>10, <2>2, <3>2, EdgesAre, Zenon
    <3>4. <<"DIO1">> \o <<>> = <<"DIO1">>
      OBVIOUS
    <3>5. /\ Level(fifo) + 1 > FifoThresh
          /\ Level(fifo) + 1 <= FifoThresh + 1 + (lag + 1)
          /\ Level(fifo) + 1 <= FifoThresh + 1 + MaxLag
      BY <1>6, <2>2
    <3>. QED
      BY <1>10, <3>1, <3>3, <3>4, <3>5, Edge, Zenon DEF Heard
  <2>. QED
    BY <1>7, <2>1, <2>2, Zenon
<1>. QED
  BY <1>1, <1>4, <1>5, <1>10, <1>11, <1>12, Zenon DEF Receiving

\* A chunk short of the threshold is read, which leaves at least one byte in the
\* FIFO and the level below the threshold again.
LEMMA ChunkRead ==
  ASSUME ReceiveInv, MaxLag <= FifoThresh - 2, OnDio1Rx
  PROVE  Receiving' /\ ReceivedWhole'
<1>. DEFINE size == SizeRead
            n == ReadOnLevel(SizeRead - NbBytes)
            f == FifoRead
<1>1. /\ State = "RX" /\ Size' = size /\ NbBytes' = NbBytes + n
      /\ ReadFifo(f, NbBytes, n)
      /\ Dispatches("DIO1")
      /\ State' = State /\ frame' = frame /\ lenDue' = lenDue
      /\ ready' = ready /\ told' = told
  BY Zenon DEF OnDio1Rx
<1>2. ReceivedWhole'
  BY <1>1, Zenon DEF ReceiveInv, ReceivedWhole
<1>3. FskCounts /\ events # <<>> /\ Head(events) = "DIO1"
  BY <1>1, Zenon DEF ReceiveInv, Dispatches
<1>4. frame # 0 /\ whole /\ LengthKnown /\ Heard /\ (ready => fifo.to = frame)
  BY <1>1, <1>3, Zenon DEF ReceiveInv, Receiving
<1>5. /\ FifoThresh \in Int /\ MaxLag \in Int /\ FifoThresh >= 2 /\ FifoSize \in Int
      /\ lag \in Int /\ lag <= MaxLag
  BY <1>3, FskAssumption DEF FskCounts, FskTypeOK
<1>6. /\ fifo.hasLen \in BOOLEAN /\ whole \in BOOLEAN
      /\ fifo.from \in Int /\ fifo.to \in Int /\ fifo.from <= fifo.to
      /\ Level(fifo) \in Int
      /\ fifo.hasLen => Level(fifo) = fifo.to - fifo.from + 1
      /\ ~fifo.hasLen => Level(fifo) = fifo.to - fifo.from
      /\ NbBytes \in Int /\ frame \in Int /\ frame >= 0
  BY <1>3, CountsFacts, Zenon
<1>7. Level(fifo) > FifoThresh /\ Level(fifo) <= FifoThresh + 1 + MaxLag
  <2>1. CASE Level(fifo) > FifoThresh /\ Level(fifo) <= FifoThresh + 1 + lag
    BY <1>5, <1>6, <2>1
  <2>2. CASE Level(fifo) > FifoThresh /\ Level(fifo) <= FifoThresh + 1 + MaxLag
    BY <2>2
  <2>. QED
    BY <1>3, <1>4, <2>1, <2>2, Edge, Zenon DEF Heard
<1>8. /\ fifo.to - fifo.from >= FifoThresh
      /\ fifo.to - fifo.from <= FifoThresh + 1 + MaxLag
  <2>1. CASE fifo.hasLen
    BY <1>5, <1>6, <1>7, <2>1
  <2>2. CASE ~fifo.hasLen
    BY <1>5, <1>6, <1>7, <2>2
  <2>. QED
    BY <2>1, <2>2
<1>9. /\ size = frame /\ ~lenDue /\ ~f.hasLen
      /\ f.from = NbBytes /\ fifo.from = NbBytes
  <2>1. fifo.hasLen \/ fifo.to # 0
    <3>1. SUFFICES ASSUME ~fifo.hasLen, fifo.to = 0 PROVE FALSE
      OBVIOUS
    <3>2. fifo.from >= 0
      BY <1>3, CountsFacts, Zenon
    <3>. QED
      BY <1>5, <1>6, <1>8, <3>1, <3>2
  <2>. QED
    BY <1>3, <1>4, <2>1, SizeKnown, Zenon
<1>10. /\ f \in Fifos /\ f.to = fifo.to /\ f.from <= f.to /\ Level(f) <= FifoSize
  BY <1>3, FifoReadEffect, Zenon
<1>11. fifo.to <= frame
  <2>1. frame > 0
    BY <1>4, <1>6
  <2>. QED
    BY <1>1, <1>3, <2>1, Zenon DEF FskCounts, Counts
<1>12. n = FifoThresh - 1
  <2>1. frame - NbBytes >= FifoThresh
    BY <1>5, <1>6, <1>8, <1>9, <1>11
  <2>2. SizeRead - NbBytes >= FifoThresh
    BY <1>9, <2>1, Zenon
  <2>. QED
    BY <2>2, Zenon DEF ReadOnLevel
<1>13. n \in Int /\ n >= 0 /\ n <= fifo.to - fifo.from
  <2>1. /\ FifoThresh - 1 \in Int /\ FifoThresh - 1 >= 0
        /\ FifoThresh - 1 <= fifo.to - fifo.from
    BY <1>5, <1>6, <1>8
  <2>. QED
    BY <1>12, <2>1, Zenon
<1>14. Level(f) = fifo.to - fifo.from
  <2>1. f.to - f.from = fifo.to - fifo.from
    BY <1>9, <1>10, Zenon
  <2>2. Level(f) = f.to - f.from
    BY <1>9, <1>10, LevelInt, Zenon
  <2>. QED
    BY <2>1, <2>2, Zenon
<1>. HIDE DEF size, n, f
<1>15. Holds(f, NbBytes, n)
  BY <1>9, <1>10, <1>13, Zenon DEF Holds
<1>16. /\ fifo'.hasLen = FALSE
       /\ fifo'.from = f.from + n
       /\ fifo'.to = f.to
       /\ Level(fifo') = Level(f) - n
       /\ whole' = whole
  BY <1>1, <1>6, <1>10, <1>13, <1>15, ReadEffect, Zenon
<1>17. Level(fifo') # 0 /\ Level(fifo') <= FifoThresh
  <2>1. /\ (fifo.to - fifo.from) - (FifoThresh - 1) # 0
        /\ (fifo.to - fifo.from) - (FifoThresh - 1) <= FifoThresh
    BY <1>5, <1>6, <1>8
  <2>. QED
    BY <1>12, <1>14, <1>16, <2>1, Zenon
<1>18. events' = Tail(events)
  BY <1>1, <1>3, <1>17, DispatchesOne, Zenon DEF FskCounts
<1>19. Heard'
  <2>1. \/ events = <<"DIO1">> /\ ~ready
        \/ events = <<"DIO1", "DIO0">> /\ ready
    BY <1>3, <1>4, Edge, Zenon DEF Heard
  <2>2. \/ events' = <<>> /\ ~ready'
        \/ events' = <<"DIO0">> /\ ready'
    BY <1>1, <1>18, <2>1, Edge, Zenon
  <2>. QED
    BY <1>17, <2>2, Zenon DEF Heard
<1>20. LengthKnown'
  BY <1>1, <1>9, <1>16, Zenon DEF LengthKnown
<1>. QED
  BY <1>1, <1>2, <1>4, <1>10, <1>16, <1>19, <1>20, Zenon DEF Receiving

\* DIO0 finds the packet complete and the rest of it in the FIFO.
LEMMA PacketComplete ==
  ASSUME ReceiveInv, State = "RX", Dispatches("DIO0")
  PROVE  /\ ready
         /\ whole
         /\ events' = <<>>
         /\ Holds(FifoRead, NbBytes, SizeRead - NbBytes)
<1>1. FskCounts /\ events # <<>> /\ Head(events) = "DIO0"
  BY Zenon DEF ReceiveInv, Dispatches
<1>2. frame # 0 /\ whole /\ LengthKnown /\ Heard
  BY <1>1, Zenon DEF ReceiveInv, Receiving
<1>3. events = <<"DIO0">> /\ ready
  BY <1>1, <1>2, Edge, Zenon DEF Heard
<1>4. events' = <<>>
  <2>1. events' = Tail(events)
    BY <1>1, <1>3, DispatchesOne, Zenon DEF FskCounts
  <2>. QED
    BY <1>3, <2>1, Edge, Zenon
<1>5. /\ frame \in Int /\ frame >= 0
      /\ fifo.from \in Int /\ fifo.to \in Int /\ fifo.from <= fifo.to
  BY <1>1, CountsFacts, Zenon
<1>6. fifo.to = frame
  BY <1>2, <1>3, Zenon DEF ReceiveInv, Receiving
<1>7. /\ SizeRead = frame /\ ~FifoRead.hasLen
      /\ FifoRead.from = NbBytes /\ fifo.from = NbBytes
  BY <1>1, <1>2, <1>6, SizeKnown, Zenon
<1>8. FifoRead.to = fifo.to /\ FifoRead.from = fifo.from
  BY <1>1, FifoReadEffect, Zenon
<1>9. SizeRead - NbBytes >= 0 /\ SizeRead - NbBytes <= FifoRead.to - FifoRead.from
  <2>1. fifo.to - fifo.from >= 0 /\ fifo.to - fifo.from <= fifo.to - fifo.from
    BY <1>5
  <2>. QED
    BY <1>6, <1>7, <1>8, <2>1, Zenon
<1>. QED
  BY <1>2, <1>3, <1>4, <1>7, <1>9, Zenon DEF Holds

\* Both ends of a reception leave the FIFO empty and tell of a whole packet.
LEMMA ReceptionEnds ==
  ASSUME ReceiveInv, OnDio0RxError \/ OnDio0RxDone
  PROVE  Receiving' /\ ReceivedWhole'
<1>1. /\ State = "RX" /\ Dispatches("DIO0") /\ fifo' = Empty
      /\ Size' = 0 /\ NbBytes' = 0 /\ frame' = 0 /\ ready' = FALSE
  BY Zenon DEF OnDio0RxError, OnDio0RxDone, EndsReception
<1>2. ready /\ whole /\ events' = <<>> /\ Holds(FifoRead, NbBytes, SizeRead - NbBytes)
  BY <1>1, PacketComplete, Zenon
<1>3. whole' = TRUE
  BY <1>2, Zenon DEF OnDio0RxError, OnDio0RxDone
<1>4. told'.whole
  <2>1. PICK what, size : told' = [what |-> what, size |-> size, whole |-> whole']
    BY Zenon DEF OnDio0RxError, OnDio0RxDone, EndsReception
  <2>2. told'.whole = whole'
    BY <2>1
  <2>. QED
    BY <1>3, <2>2, Zenon
<1>. QED
  BY <1>1, <1>2, <1>3, <1>4, Zenon DEF Receiving, ReceivedWhole

\* Nothing else receives.
LEMMA ReceiveOther ==
  ASSUME ReceiveInv,
         \/ SetSleep \/ OnDioIdle \/ OnDio0TxDone \/ OnDio1Tx \/ ChipSends
         \/ \E size \in Sizes : Send(size)
  PROVE  Receiving' /\ ReceivedWhole'
<1>1. State' # "RX"
  <2>1. CASE ChipSends
    <3>1. opMode = "TX" /\ State' = State
      BY <2>1 DEF ChipSends
    <3>. QED
      BY <3>1 DEF ReceiveInv, FskCounts, Counts
  <2>. QED
    BY <2>1 DEF SetSleep, OnDioIdle, OnDio0TxDone, OnDio1Tx, Send
<1>2. told' = told \/ told'.what \in {"none", "TxDone"}
  BY DEF SetSleep, OnDioIdle, OnDio0TxDone, OnDio1Tx, Send, ChipSends, Nothing
<1>3. ReceivedWhole'
  BY <1>2 DEF ReceiveInv, ReceivedWhole
<1>. QED
  BY <1>1, <1>3 DEF Receiving

\* A client that is not later than the room between the threshold and the FIFO, and
\* than a chunk, receives every packet as one interval of bytes.
THEOREM FskReceiveInvariant ==
  ASSUME MaxLag <= FifoThresh - 2, FifoThresh + MaxLag < FifoSize
  PROVE  Spec => []ReceiveInv
<1>1. Init => Asleep /\ Receiving /\ ReceivedWhole
  BY DEF Init, Asleep, Receiving, ReceivedWhole, Nothing
<1>2. ReceiveInv /\ [Next]_vars => Asleep' /\ Receiving' /\ ReceivedWhole'
  <2>. SUFFICES ASSUME ReceiveInv, [Next]_vars PROVE Asleep' /\ Receiving' /\ ReceivedWhole'
    OBVIOUS
  <2>1. Asleep'
    BY StaysAsleep, Zenon DEF ReceiveInv
  <2>2. CASE SetRx \/ \E size \in Sizes : ChipHears(size)
    BY <2>1, <2>2, ReceptionBegins, Zenon
  <2>3. CASE ChipReceives
    BY <2>1, <2>3, ByteReceived
  <2>4. CASE OnDio1Rx
    BY <2>1, <2>4, ChunkRead
  <2>5. CASE OnDio0RxError \/ OnDio0RxDone
    BY <2>1, <2>5, ReceptionEnds, Zenon
  <2>6. CASE \/ SetSleep \/ OnDioIdle \/ OnDio0TxDone \/ OnDio1Tx \/ ChipSends
             \/ \E size \in Sizes : Send(size)
    BY <2>1, <2>6, ReceiveOther, Zenon
  <2>7. CASE UNCHANGED vars
    <3>1. /\ State' = State /\ Size' = Size /\ NbBytes' = NbBytes /\ fixLen' = fixLen
          /\ fifo' = fifo /\ frame' = frame /\ lenDue' = lenDue /\ ready' = ready
          /\ whole' = whole /\ told' = told /\ events' = events /\ lag' = lag
      BY <2>7, Zenon DEF vars, handlerVars, settingsVars, chipVars
    <3>2. ReceivedWhole'
      BY <3>1, Zenon DEF ReceiveInv, ReceivedWhole
    <3>3. (LengthKnown => LengthKnown') /\ (Heard => Heard')
      BY <3>1, Zenon DEF LengthKnown, Heard
    <3>4. Receiving'
      BY <3>1, <3>3, Zenon DEF ReceiveInv, Receiving
    <3>. QED
      BY <2>1, <3>2, <3>4
  <2>. QED
    BY <2>1, <2>2, <2>3, <2>4, <2>5, <2>6, <2>7, Zenon DEF Next, Handlers
<1>3. FskCounts /\ Asleep /\ Receiving /\ ReceivedWhole <=> ReceiveInv
  BY DEF ReceiveInv
<1>. QED
  BY <1>1, <1>2, <1>3, FskCountsInvariant, PTL DEF Spec

\* ReceivedWhole holds: RxDone hands over every byte of the packet once and in
\* order, and a packet is never ended before its last byte.
THEOREM FskReceivedWhole ==
  ASSUME MaxLag <= FifoThresh - 2, FifoThresh + MaxLag < FifoSize
  PROVE  Spec => []ReceivedWhole
<1>1. ReceiveInv => ReceivedWhole
  BY DEF ReceiveInv
<1>. QED
  BY <1>1, FskReceiveInvariant, PTL
=============================================================================
