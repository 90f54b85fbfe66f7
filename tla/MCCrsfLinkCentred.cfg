CONSTANTS
  Byte <- MCByte
  FrameSize = 30
  ReadSize = 25
  RcLength = 24
  RcType = 22
  Crc8 <- crc8_dvb_s2
  RcFrame <- MCCentred
  ReadLengths <- MCReadLengths
  Noise <- MCNoise
  MaxFaults = 1
SPECIFICATION LinkSpec
INVARIANTS OnlySentValues MakesProgress
PROPERTY Recovers
