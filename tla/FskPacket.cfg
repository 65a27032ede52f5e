\* Packets around the size of the chunk, the threshold and the FIFO, which is full
\* with 63 bytes and the length byte; 64 bytes are left out.
SPECIFICATION Spec
CONSTANTS
  FifoSize = 64
  FifoThresh = 15
  Sizes = {1, 14, 15, 16, 17, 63, 65, 96, 97, 255}
  MaxLag = 13
INVARIANTS
  FskTypeOK
  SentWhole
  ReceivedWhole
  NeverStarves
PROPERTIES
  SendProgresses
  SendEnds
