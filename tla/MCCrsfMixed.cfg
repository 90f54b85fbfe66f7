CONSTANTS
  Byte <- MCByte
  FrameSize = 30
  ReadSize = 25
  RcLength = 24
  RcType = 22
  Crc8 <- crc8_dvb_s2
  Messages <- MCMessages
  Chunks <- MCChunks
  MaxFrames = 2
SPECIFICATION MixedSpec
INVARIANTS StaysInStep FramesFit TelemetryReadsBack
