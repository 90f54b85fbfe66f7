CONSTANTS
  Byte <- MCByte
  FrameSize = 8
  ReadSize = 5
  RcLength = 4
  RcType = 3
  Crc8 <- MCCrc8
  MaxLine = 10
SPECIFICATION Spec
INVARIANTS TypeOK MakesProgress BufferIsLineSuffix NoHeaderMissed
PROPERTY ImplementsDelivery
\* The line is as long as MaxLine allows, and the transmitter is silent.
CHECK_DEADLOCK FALSE
