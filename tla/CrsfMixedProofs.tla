-------------------------- MODULE CrsfMixedProofs ---------------------------
(***************************************************************************)
(* The telemetry writers, for all arguments that their C types allow and   *)
(* every checksum: the frames fit their arrays, and say what was to be     *)
(* said.  And the parser at the end of the line that carries them: it      *)
(* stays in step with every sequence of messages, cut in any way.          *)
(***************************************************************************)
EXTENDS CrsfMixed, CrsfStreamProofs

-----------------------------------------------------------------------------
(* Bytes of numbers.                                                        *)

(* What a uint8_t keeps is a byte.                                          *)
LEMMA OctetTyped ==
  \A v \in Int : /\ Octet(v, 1) \in Int /\ Octet(v, 256) \in Int
                 /\ Octet(v, 65536) \in Int /\ Octet(v, 16777216) \in Int
BY SMT DEF Octet

(* One byte.                                                                *)
LEMMA ByteBack == \A v \in uint8_t : v \in Int /\ Octet(v, 1) = v
BY SMT DEF uint8_t, Octet

(* Two bytes, big endian and back.                                          *)
LEMMA WordBack ==
  \A v \in uint16_t : v \in Int /\ 256 * Octet(v, 256) + Octet(v, 1) = v
<1>1. \A v \in uint16_t : v \in Int /\ 0 <= v /\ v <= 65535
  <2>1. UINT16_MAX \in Int
    BY SMT DEF UINT16_MAX
  <2>2. \A v \in uint16_t : v \in Int /\ 0 <= v /\ v <= UINT16_MAX
    BY <2>1, SMT DEF uint16_t
  <2> QED BY <2>2, SMT DEF UINT16_MAX
<1> SUFFICES ASSUME NEW v \in Int, 0 <= v, v <= 65535
             PROVE  256 * Octet(v, 256) + Octet(v, 1) = v
  BY <1>1, SMT
<1>2. v \div 256 \in 0 .. 255 /\ 256 * (v \div 256) + (v % 256) = v
  BY SMT
<1>3. Octet(v, 1) = v % 256 /\ Octet(v, 256) = v \div 256
  BY <1>2, SMT DEF Octet
<1> QED BY <1>2, <1>3, SMT

(* Three bytes of a number are its lower 24 bits.                           *)
LEMMA TripleBack ==
  \A v \in Int :
    65536 * Octet(v, 65536) + (256 * Octet(v, 256) + Octet(v, 1)) = v % 16777216
BY SMT DEF Octet

(* Two bytes in two's complement.                                           *)
LEMMA SignedWordBack ==
  \A v \in int16_t :
    v \in Int /\ 256 * SignedByte(Octet(v, 256)) + Octet(v, 1) = v
<1>1. \A v \in int16_t : v \in Int /\ -32768 <= v /\ v <= 32767
  <2>1. INT16_MIN \in Int /\ INT16_MAX \in Int
    BY SMT DEF INT16_MIN, INT16_MAX
  <2>2. \A v \in int16_t : v \in Int /\ INT16_MIN <= v /\ v <= INT16_MAX
    BY <2>1, SMT DEF int16_t
  <2> QED BY <2>2, SMT DEF INT16_MIN, INT16_MAX
<1> SUFFICES ASSUME NEW v \in Int, -32768 <= v, v <= 32767
             PROVE  256 * SignedByte(Octet(v, 256)) + Octet(v, 1) = v
  BY <1>1, SMT
<1>2. v \div 256 \in -128 .. 127 /\ 256 * (v \div 256) + (v % 256) = v
  BY SMT
<1>3. Octet(v, 1) = v % 256 /\ SignedByte(Octet(v, 256)) = v \div 256
  BY <1>2, SMT DEF Octet, SignedByte
<1> QED BY <1>2, <1>3, SMT

(* Four bytes in two's complement.                                          *)
LEMMA SignedQuadBack ==
  \A v \in int32_t :
    /\ v \in Int
    /\ 65536 * (256 * SignedByte(Octet(v, 16777216)) + Octet(v, 65536))
         + (256 * Octet(v, 256) + Octet(v, 1)) = v
<1>1. \A v \in int32_t : v \in Int /\ -2147483647 - 1 <= v /\ v <= 2147483647
  <2>1. INT32_MIN \in Int /\ INT32_MAX \in Int
    BY SMT DEF INT32_MIN, INT32_MAX
  <2>2. \A v \in int32_t : v \in Int /\ INT32_MIN <= v /\ v <= INT32_MAX
    BY <2>1, SMT DEF int32_t
  <2> QED BY <2>2, SMT DEF INT32_MIN, INT32_MAX
<1> SUFFICES ASSUME NEW v \in Int, -2147483647 - 1 <= v, v <= 2147483647
    PROVE  65536 * (256 * SignedByte(Octet(v, 16777216)) + Octet(v, 65536))
             + (256 * Octet(v, 256) + Octet(v, 1)) = v
  BY <1>1, SMT
<1> DEFINE h == v \div 16777216
           r == v % 16777216
<1>2. h \in -128 .. 127 /\ r \in Nat /\ 16777216 * h + r = v
  BY SMT
<1>3. SignedByte(Octet(v, 16777216)) = h
  BY <1>2, SMT DEF Octet, SignedByte
<1>4. 65536 * Octet(v, 65536) + (256 * Octet(v, 256) + Octet(v, 1)) = r
  BY TripleBack, SMT
<1>5. Octet(v, 65536) \in Int /\ Octet(v, 256) \in Int /\ Octet(v, 1) \in Int
  BY OctetTyped, SMT
<1> HIDE DEF h, r
<1> QED BY <1>2, <1>3, <1>4, <1>5, SMT

(* The fields of Battery, byte by byte.                                     *)
LEMMA BatteryFields ==
  ASSUME NEW a1 \in Int, NEW a2 \in Int, NEW b1 \in Int, NEW b2 \in Int,
         NEW c1 \in Int, NEW c2 \in Int, NEW c3 \in Int, NEW d1 \in Int
  PROVE  LET f == <<a1, a2>> \o <<b1, b2>> \o <<c1, c2, c3>> \o <<d1>>
         IN  /\ f \in Seq(Int) /\ Len(f) = 8
             /\ f[1] = a1 /\ f[2] = a2 /\ f[3] = b1 /\ f[4] = b2
             /\ f[5] = c1 /\ f[6] = c2 /\ f[7] = c3 /\ f[8] = d1
BY SMT

(* The fields of Attitude, byte by byte.                                    *)
LEMMA AttitudeFields ==
  ASSUME NEW a1 \in Int, NEW a2 \in Int, NEW b1 \in Int, NEW b2 \in Int,
         NEW c1 \in Int, NEW c2 \in Int
  PROVE  LET f == <<a1, a2>> \o <<b1, b2>> \o <<c1, c2>>
         IN  /\ f \in Seq(Int) /\ Len(f) = 6
             /\ f[1] = a1 /\ f[2] = a2 /\ f[3] = b1 /\ f[4] = b2
             /\ f[5] = c1 /\ f[6] = c2
BY SMT

(* The fields of Gps, byte by byte.                                         *)
LEMMA GpsFields ==
  ASSUME NEW a1 \in Int, NEW a2 \in Int, NEW a3 \in Int, NEW a4 \in Int,
         NEW b1 \in Int, NEW b2 \in Int, NEW b3 \in Int, NEW b4 \in Int,
         NEW c1 \in Int, NEW c2 \in Int, NEW d1 \in Int, NEW d2 \in Int,
         NEW e1 \in Int, NEW e2 \in Int, NEW g1 \in Int
  PROVE  LET f == <<a1, a2, a3, a4>> \o <<b1, b2, b3, b4>> \o <<c1, c2>>
                    \o <<d1, d2>> \o <<e1, e2>> \o <<g1>>
         IN  /\ f \in Seq(Int) /\ Len(f) = 15
             /\ f[1] = a1 /\ f[2] = a2 /\ f[3] = a3 /\ f[4] = a4
             /\ f[5] = b1 /\ f[6] = b2 /\ f[7] = b3 /\ f[8] = b4
             /\ f[9] = c1 /\ f[10] = c2 /\ f[11] = d1 /\ f[12] = d2
             /\ f[13] = e1 /\ f[14] = e2 /\ f[15] = g1
BY SMT

(* What lies between three bytes and one is what the receiver finds.        *)
LEMMA Enclosed ==
  ASSUME NEW S, NEW h \in Seq(S), Len(h) = 3, NEW f \in Seq(S), NEW x \in S
  PROVE  LET p == h \o f \o <<x>>
         IN  /\ Len(p) = Len(f) + 4
             /\ p[2] = h[2]
             /\ Len(RcPayload(p)) = Len(f)
             /\ \A i \in 1 .. Len(f) : RcPayload(p)[i] = f[i]
<1> DEFINE a == h \o f
           p == a \o <<x>>
<1>1. /\ a \in Seq(S) /\ Len(a) = 3 + Len(f)
      /\ \A i \in 1 .. 3 + Len(f) : a[i] = IF i <= 3 THEN h[i] ELSE f[i - 3]
  <2>1. /\ a \in Seq(S) /\ Len(a) = Len(h) + Len(f)
        /\ \A i \in 1 .. Len(h) + Len(f) :
             a[i] = IF i <= Len(h) THEN h[i] ELSE f[i - Len(h)]
    BY ConcatProperties
  <2> HIDE DEF a
  <2> QED BY <2>1
<1>2. <<x>> \in Seq(S) /\ Len(<<x>>) = 1
  OBVIOUS
<1> HIDE DEF a
<1>3. /\ p \in Seq(S) /\ Len(p) = Len(a) + 1
      /\ \A i \in 1 .. Len(a) + 1 :
           p[i] = IF i <= Len(a) THEN a[i] ELSE <<x>>[i - Len(a)]
  BY <1>1, <1>2, ConcatProperties
<1>4. Len(f) \in Nat
  BY LenProperties
<1> HIDE DEF p
<1>5. Len(p) = Len(f) + 4 /\ p[2] = h[2]
  BY <1>1, <1>3, <1>4
<1>6. /\ Len(SubSeq(p, 4, Len(p) - 1)) = Len(p) - 4
      /\ \A i \in 1 .. Len(p) - 4 : SubSeq(p, 4, Len(p) - 1)[i] = p[i + 3]
  <2>1. \A i \in 4 .. Len(p) - 1 : p[i] \in S
    BY <1>3, <1>4, <1>5, ElementOfSeq
  <2>2. 4 \in Int /\ Len(p) - 1 \in Int
    BY <1>4, <1>5
  <2> QED BY <1>4, <1>5, <2>1, <2>2, SubSeqProperties
<1>7. \A i \in 1 .. Len(f) : p[i + 3] = f[i]
  BY <1>1, <1>3, <1>4
<1> QED BY <1>4, <1>5, <1>6, <1>7 DEF RcPayload, p, a

\* Frame p has room for the fields f and carries them.
Carries(p, f) ==
  /\ Len(p) = Len(f) + 4
  /\ Len(RcPayload(p)) = Len(f)
  /\ \A i \in 1 .. Len(f) : RcPayload(p)[i] = f[i]

(* A frame is three bytes, the fields and the checksum, whatever that is,   *)
(* and its header announces what was meant to be written.                   *)
LEMMA Written ==
  ASSUME NEW type \in Int, NEW size \in Int, NEW f \in Seq(Int)
  PROVE  /\ Carries(WholeFrame(type, size, f), f)
         /\ FrameLength(WholeFrame(type, size, f)) = size + 4
<1> DEFINE p == WholeFrame(type, size, f)
           h == <<CRSF_SYNC_BYTE, LengthByte(size), type>>
           x == crc8_dvb_s2_buf(<<type>> \o SubSeq(f, 1, size))
           S == Int \cup {x}
<1>1. p = h \o f \o <<x>>
  BY DEF WholeFrame
<1>2. /\ h \in Seq(Int) /\ Len(h) = 3 /\ h[2] = size + 2
  BY DEF CRSF_SYNC_BYTE, LengthByte
<1> HIDE DEF h, x
<1>3. h \in Seq(S) /\ f \in Seq(S) /\ x \in S
  BY <1>2
<1> HIDE DEF S
<1>4. /\ Len(p) = Len(f) + 4 /\ p[2] = h[2] /\ Len(RcPayload(p)) = Len(f)
      /\ \A i \in 1 .. Len(f) : RcPayload(p)[i] = f[i]
  BY <1>1, <1>2, <1>3, Enclosed
<1>5. FrameLength(p) = size + 4
  BY <1>2, <1>4 DEF FrameLength, HeaderSize
<1> QED BY <1>4, <1>5, Zenon DEF Carries

\* What the arrays and the header promise of a frame p for message m.
Fits(m, p) == Len(p) <= BufferSize(m) /\ Len(p) = FrameLength(p)

(* The frame of the battery fits, and says what it was written with.        *)
LEMMA BatterySaid ==
  ASSUME NEW m \in BatteryMessage
  PROVE  Fits(m, Encode(m)) /\ Understood(m, RcPayload(Encode(m)))
<1> DEFINE a == m.voltage
           b == m.current
           c == m.fuel
           d == m.remaining
           low == c % 16777216
           f == Uint16(a) \o Uint16(b) \o Uint24(c) \o Uint8(d)
<1>1. /\ m.kind = "battery" /\ c \in Int
      /\ a \in uint16_t /\ b \in uint16_t /\ d \in uint8_t
  BY DEF BatteryMessage
<1>2. Encode(m) = WholeFrame(battery_sensor, 8, f)
  BY <1>1, Zenon DEF Encode, Battery
<1>3. BufferSize(m) = 12
  BY <1>1 DEF BufferSize
<1>4. ASSUME NEW q
      PROVE  Understood(m, q) <=> /\ Word(q, 1) = a
                                  /\ Word(q, 3) = b
                                  /\ Triple(q, 5) = low
                                  /\ q[8] = d
  BY <1>1, SMT DEF Understood
<1> HIDE DEF a, b, c, d, low
<1>5. a \in Int /\ b \in Int /\ d \in Int
  BY <1>1, ByteBack, WordBack, SMT
<1>6. /\ f \in Seq(Int) /\ Len(f) = 8
      /\ f[1] = Octet(a, 256) /\ f[2] = Octet(a, 1)
      /\ f[3] = Octet(b, 256) /\ f[4] = Octet(b, 1)
      /\ f[5] = Octet(c, 65536) /\ f[6] = Octet(c, 256) /\ f[7] = Octet(c, 1)
      /\ f[8] = Octet(d, 1)
  <2>1. /\ Octet(a, 256) \in Int /\ Octet(a, 1) \in Int
        /\ Octet(b, 256) \in Int /\ Octet(b, 1) \in Int
        /\ Octet(c, 65536) \in Int /\ Octet(c, 256) \in Int
        /\ Octet(c, 1) \in Int /\ Octet(d, 1) \in Int
    BY <1>1, <1>5, OctetTyped, SMT
  <2> QED BY <2>1, BatteryFields, SMT DEF Uint16, Uint24, Uint8
<1> HIDE DEF f
<1>7. /\ Carries(WholeFrame(battery_sensor, 8, f), f)
      /\ FrameLength(WholeFrame(battery_sensor, 8, f)) = 8 + 4
  <2>1. battery_sensor \in Int
    BY DEF battery_sensor
  <2>2. 8 \in Int
    OBVIOUS
  <2>3. f \in Seq(Int)
    BY <1>6
  <2> QED BY <2>1, <2>2, <2>3, Written, Zenon
<1>p. PICK p : p = WholeFrame(battery_sensor, 8, f)
  OBVIOUS
<1>q. PICK q : q = RcPayload(p)
  OBVIOUS
<1>8. Fits(m, p)
  <2>1. Len(p) = 8 + 4 /\ FrameLength(p) = 8 + 4
    <3>1. Len(f) = 8
      BY <1>6
    <3>2. Len(p) = Len(f) + 4 /\ FrameLength(p) = 8 + 4
      BY <1>7, <1>p, Zenon DEF Carries
    <3> QED BY <3>1, <3>2
  <2>2. 8 + 4 = 12 /\ 12 <= 12
    OBVIOUS
  <2> QED BY <1>3, <2>1, <2>2, Zenon DEF Fits
<1>9. /\ q[1] = f[1] /\ q[2] = f[2] /\ q[3] = f[3] /\ q[4] = f[4]
      /\ q[5] = f[5] /\ q[6] = f[6] /\ q[7] = f[7] /\ q[8] = f[8]
  <2>1. \A i \in 1 .. 8 : q[i] = f[i]
    <3>1. Len(f) = 8
      BY <1>6
    <3>2. \A i \in 1 .. Len(f) : q[i] = f[i]
      BY <1>7, <1>p, <1>q, Zenon DEF Carries
    <3> QED BY <3>1, <3>2
  <2> QED BY <2>1
<1>10. Word(q, 1) = a /\ Word(q, 3) = b
  BY <1>1, <1>6, <1>9, WordBack, SMT DEF Word
<1>11. Triple(q, 5) = low
  <2>1. Triple(q, 5) = 65536 * q[5] + (256 * q[6] + q[7])
    BY <1>5, <1>6, <1>9, SMT DEF Triple, Word
  <2>2. 65536 * Octet(c, 65536) + (256 * Octet(c, 256) + Octet(c, 1)) = low
    BY <1>1, TripleBack, SMT DEF low
  <2> QED BY <1>6, <1>9, <2>1, <2>2, SMT
<1>12. q[8] = d
  BY <1>1, <1>6, <1>9, ByteBack, SMT
<1>13. Understood(m, q)
  BY <1>4, <1>10, <1>11, <1>12, Zenon
<1> QED BY <1>2, <1>8, <1>13, <1>p, <1>q, Zenon

(* The frame of the attitude fits, and says what it was written with.       *)
LEMMA AttitudeSaid ==
  ASSUME NEW m \in AttitudeMessage
  PROVE  Fits(m, Encode(m)) /\ Understood(m, RcPayload(Encode(m)))
<1> DEFINE a == m.pitch
           b == m.roll
           c == m.yaw
           f == Uint16(a) \o Uint16(b) \o Uint16(c)
<1>1. /\ m.kind = "attitude"
      /\ a \in int16_t /\ b \in int16_t /\ c \in int16_t
  BY DEF AttitudeMessage
<1>2. Encode(m) = WholeFrame(attitude, 6, f)
  BY <1>1, Zenon DEF Encode, Attitude
<1>3. BufferSize(m) = 10
  BY <1>1 DEF BufferSize
<1>4. ASSUME NEW q
      PROVE  Understood(m, q) <=> /\ SignedWord(q, 1) = a
                                  /\ SignedWord(q, 3) = b
                                  /\ SignedWord(q, 5) = c
  BY <1>1, SMT DEF Understood
<1> HIDE DEF a, b, c
<1>5. a \in Int /\ b \in Int /\ c \in Int
  BY <1>1, SignedWordBack, SMT
<1>6. /\ f \in Seq(Int) /\ Len(f) = 6
      /\ f[1] = Octet(a, 256) /\ f[2] = Octet(a, 1)
      /\ f[3] = Octet(b, 256) /\ f[4] = Octet(b, 1)
      /\ f[5] = Octet(c, 256) /\ f[6] = Octet(c, 1)
  <2>1. /\ Octet(a, 256) \in Int /\ Octet(a, 1) \in Int
        /\ Octet(b, 256) \in Int /\ Octet(b, 1) \in Int
        /\ Octet(c, 256) \in Int /\ Octet(c, 1) \in Int
    BY <1>5, OctetTyped, SMT
  <2> QED BY <2>1, AttitudeFields, SMT DEF Uint16
<1> HIDE DEF f
<1>7. /\ Carries(WholeFrame(attitude, 6, f), f)
      /\ FrameLength(WholeFrame(attitude, 6, f)) = 6 + 4
  <2>1. attitude \in Int
    BY DEF attitude
  <2>2. 6 \in Int
    OBVIOUS
  <2>3. f \in Seq(Int)
    BY <1>6
  <2> QED BY <2>1, <2>2, <2>3, Written, Zenon
<1>p. PICK p : p = WholeFrame(attitude, 6, f)
  OBVIOUS
<1>q. PICK q : q = RcPayload(p)
  OBVIOUS
<1>8. Fits(m, p)
  <2>1. Len(p) = 6 + 4 /\ FrameLength(p) = 6 + 4
    <3>1. Len(f) = 6
      BY <1>6
    <3>2. Len(p) = Len(f) + 4 /\ FrameLength(p) = 6 + 4
      BY <1>7, <1>p, Zenon DEF Carries
    <3> QED BY <3>1, <3>2
  <2>2. 6 + 4 = 10 /\ 10 <= 10
    OBVIOUS
  <2> QED BY <1>3, <2>1, <2>2, Zenon DEF Fits
<1>9. /\ q[1] = f[1] /\ q[2] = f[2] /\ q[3] = f[3] /\ q[4] = f[4]
      /\ q[5] = f[5] /\ q[6] = f[6]
  <2>1. \A i \in 1 .. 6 : q[i] = f[i]
    <3>1. Len(f) = 6
      BY <1>6
    <3>2. \A i \in 1 .. Len(f) : q[i] = f[i]
      BY <1>7, <1>p, <1>q, Zenon DEF Carries
    <3> QED BY <3>1, <3>2
  <2> QED BY <2>1
<1>10. SignedWord(q, 1) = a /\ SignedWord(q, 3) = b /\ SignedWord(q, 5) = c
  BY <1>1, <1>6, <1>9, SignedWordBack, SMT DEF SignedWord
<1>11. Understood(m, q)
  BY <1>4, <1>10, Zenon
<1> QED BY <1>2, <1>8, <1>11, <1>p, <1>q, Zenon

(* The frame of the position fits, and says what it was written with.       *)
LEMMA GpsSaid ==
  ASSUME NEW m \in GpsMessage
  PROVE  Fits(m, Encode(m)) /\ Understood(m, RcPayload(Encode(m)))
<1> DEFINE a == m.latitude
           b == m.longitude
           c == m.groundspeed
           d == m.gps_heading
           e == m.altitude
           g == m.num_satellites
           f == Int32(a) \o Int32(b) \o Uint16(c) \o Uint16(d) \o Uint16(e)
                  \o Uint8(g)
<1>1. /\ m.kind = "gps" /\ a \in int32_t /\ b \in int32_t
      /\ c \in uint16_t /\ d \in uint16_t /\ e \in uint16_t /\ g \in uint8_t
  BY DEF GpsMessage
<1>2. Encode(m) = WholeFrame(gps, 15, f)
  BY <1>1, Zenon DEF Encode, Gps
<1>3. BufferSize(m) = 19
  BY <1>1 DEF BufferSize
<1>4. ASSUME NEW q
      PROVE  Understood(m, q) <=> /\ SignedQuad(q, 1) = a
                                  /\ SignedQuad(q, 5) = b
                                  /\ Word(q, 9) = c
                                  /\ Word(q, 11) = d
                                  /\ Word(q, 13) = e
                                  /\ q[15] = g
  BY <1>1, SMT DEF Understood
<1> HIDE DEF a, b, c, d, e, g
<1>5. /\ a \in Int /\ b \in Int /\ c \in Int /\ d \in Int /\ e \in Int
      /\ g \in Int
  BY <1>1, ByteBack, WordBack, SignedQuadBack, SMT
<1>6. /\ f \in Seq(Int) /\ Len(f) = 15
      /\ f[1] = Octet(a, 16777216) /\ f[2] = Octet(a, 65536)
      /\ f[3] = Octet(a, 256) /\ f[4] = Octet(a, 1)
      /\ f[5] = Octet(b, 16777216) /\ f[6] = Octet(b, 65536)
      /\ f[7] = Octet(b, 256) /\ f[8] = Octet(b, 1)
      /\ f[9] = Octet(c, 256) /\ f[10] = Octet(c, 1)
      /\ f[11] = Octet(d, 256) /\ f[12] = Octet(d, 1)
      /\ f[13] = Octet(e, 256) /\ f[14] = Octet(e, 1)
      /\ f[15] = Octet(g, 1)
  <2>1. /\ Octet(a, 16777216) \in Int /\ Octet(a, 65536) \in Int
        /\ Octet(a, 256) \in Int /\ Octet(a, 1) \in Int
        /\ Octet(b, 16777216) \in Int /\ Octet(b, 65536) \in Int
        /\ Octet(b, 256) \in Int /\ Octet(b, 1) \in Int
        /\ Octet(c, 256) \in Int /\ Octet(c, 1) \in Int
        /\ Octet(d, 256) \in Int /\ Octet(d, 1) \in Int
        /\ Octet(e, 256) \in Int /\ Octet(e, 1) \in Int
        /\ Octet(g, 1) \in Int
    BY <1>5, OctetTyped, SMT
  <2> QED BY <2>1, GpsFields, SMT DEF Int32, Uint16, Uint8
<1> HIDE DEF f
<1>7. /\ Carries(WholeFrame(gps, 15, f), f)
      /\ FrameLength(WholeFrame(gps, 15, f)) = 15 + 4
  <2>1. gps \in Int
    BY DEF gps
  <2>2. 15 \in Int
    OBVIOUS
  <2>3. f \in Seq(Int)
    BY <1>6
  <2> QED BY <2>1, <2>2, <2>3, Written, Zenon
<1>p. PICK p : p = WholeFrame(gps, 15, f)
  OBVIOUS
<1>q. PICK q : q = RcPayload(p)
  OBVIOUS
<1>8. Fits(m, p)
  <2>1. Len(p) = 15 + 4 /\ FrameLength(p) = 15 + 4
    <3>1. Len(f) = 15
      BY <1>6
    <3>2. Len(p) = Len(f) + 4 /\ FrameLength(p) = 15 + 4
      BY <1>7, <1>p, Zenon DEF Carries
    <3> QED BY <3>1, <3>2
  <2>2. 15 + 4 = 19 /\ 19 <= 19
    OBVIOUS
  <2> QED BY <1>3, <2>1, <2>2, Zenon DEF Fits
<1>9. /\ q[1] = f[1] /\ q[2] = f[2] /\ q[3] = f[3] /\ q[4] = f[4]
      /\ q[5] = f[5] /\ q[6] = f[6] /\ q[7] = f[7] /\ q[8] = f[8]
      /\ q[9] = f[9] /\ q[10] = f[10] /\ q[11] = f[11] /\ q[12] = f[12]
      /\ q[13] = f[13] /\ q[14] = f[14] /\ q[15] = f[15]
  <2>1. \A i \in 1 .. 15 : q[i] = f[i]
    <3>1. Len(f) = 15
      BY <1>6
    <3>2. \A i \in 1 .. Len(f) : q[i] = f[i]
      BY <1>7, <1>p, <1>q, Zenon DEF Carries
    <3> QED BY <3>1, <3>2
  <2> QED BY <2>1
<1>10. SignedQuad(q, 1) = a /\ SignedQuad(q, 5) = b
  <2>1. /\ SignedQuad(q, 1)
             = 65536 * (256 * SignedByte(q[1]) + q[2]) + (256 * q[3] + q[4])
        /\ SignedQuad(q, 5)
             = 65536 * (256 * SignedByte(q[5]) + q[6]) + (256 * q[7] + q[8])
    BY SMT DEF SignedQuad, SignedWord, Word
  <2> QED BY <1>1, <1>6, <1>9, <2>1, SignedQuadBack, SMT
<1>11. Word(q, 9) = c /\ Word(q, 11) = d /\ Word(q, 13) = e
  BY <1>1, <1>6, <1>9, WordBack, SMTT(30) DEF Word
<1>12. q[15] = g
  BY <1>1, <1>6, <1>9, ByteBack, SMT
<1>13. Understood(m, q)
  BY <1>4, <1>10, <1>11, <1>12, Zenon
<1> QED BY <1>2, <1>8, <1>13, <1>p, <1>q, Zenon

(* What is cut off of a text leaves its first 15 characters, as crsf.h      *)
(* says, or all of them.                                                    *)
LEMMA CutOffText ==
  ASSUME NEW text \in Seq(uint8_t \ {0})
  PROVE  /\ CutOff(text) \in Seq(uint8_t \ {0})
         /\ Len(CutOff(text)) <= 15
         /\ CutOff(text)
              = IF Len(text) > 15 THEN SubSeq(text, 1, 15) ELSE text
<1> DEFINE C == uint8_t \ {0}
<1>1. Len(text) \in Nat /\ max_length = 16 /\ text \in Seq(C)
  BY LenProperties DEF max_length
<1> HIDE DEF C
<1>2. CASE Len(text) < max_length
  BY <1>1, <1>2 DEF CutOff, C
<1>3. CASE ~(Len(text) < max_length)
  <2>1. CutOff(text) = SubSeq(text, 1, 15) /\ Len(text) > 15
    BY <1>1, <1>3 DEF CutOff
  <2>2. \A i \in 1 .. 15 : text[i] \in C
    BY <1>1, <2>1, ElementOfSeq, SMTT(30)
  <2>3. SubSeq(text, 1, 15) \in Seq(C) /\ Len(SubSeq(text, 1, 15)) = 15
    BY <2>2, SubSeqProperties
  <2> QED BY <2>1, <2>3 DEF C
<1> QED BY <1>2, <1>3

(* The frame of the flight mode fits, and says what it was written with.    *)
LEMMA FlightModeSaid ==
  ASSUME NEW m \in FlightModeMessage
  PROVE  Fits(m, Encode(m)) /\ Understood(m, RcPayload(Encode(m)))
<1> DEFINE text == m.text
           t == CutOff(text)
           n == Len(t)
           f == t \o <<0>>
<1>1. m.kind = "flight_mode" /\ text \in Seq(uint8_t \ {0})
  BY DEF FlightModeMessage
<1>2. Encode(m) = WholeFrame(flight_mode, n + 1, f)
  BY <1>1, Zenon DEF Encode, FlightMode
<1>3. BufferSize(m) = 20
  BY <1>1 DEF BufferSize, max_length
<1>4. ASSUME NEW q
      PROVE  Understood(m, q) <=> IsText(q, t)
  <2>1. Understood(m, q)
          <=> IsText(q, IF Len(text) > 15 THEN SubSeq(text, 1, 15) ELSE text)
    BY <1>1, SMT DEF Understood
  <2>2. t = IF Len(text) > 15 THEN SubSeq(text, 1, 15) ELSE text
    BY <1>1, CutOffText
  <2> QED BY <2>1, <2>2, Zenon
<1>5. t \in Seq(uint8_t \ {0}) /\ n <= 15
  BY <1>1, CutOffText
<1> HIDE DEF text, t
<1>6. /\ f \in Seq(Int) /\ n \in Nat /\ Len(f) = n + 1 /\ f[n + 1] = 0
      /\ \A i \in 1 .. n : f[i] = t[i] /\ t[i] # 0
  <2>1. \A c \in uint8_t \ {0} : c \in Int /\ c # 0
    BY SMT DEF uint8_t
  <2>2. n \in Nat /\ \A i \in 1 .. n : t[i] \in uint8_t \ {0}
    BY <1>5, ElementOfSeq, LenProperties
  <2>3. \A i \in 1 .. n : t[i] \in Int /\ t[i] # 0
    BY <2>1, <2>2
  <2>4. t \in Seq(Int)
    BY <1>5, <2>1
  <2>5. <<0>> \in Seq(Int) /\ Len(<<0>>) = 1 /\ <<0>>[1] = 0
    OBVIOUS
  <2>6. /\ f \in Seq(Int) /\ Len(f) = n + Len(<<0>>)
        /\ \A i \in 1 .. n + Len(<<0>>) :
             f[i] = IF i <= n THEN t[i] ELSE <<0>>[i - n]
    BY <2>4, <2>5, ConcatProperties
  <2> HIDE DEF f, n
  <2> QED BY <2>2, <2>3, <2>5, <2>6
<1> HIDE DEF f, n
<1>7. /\ Carries(WholeFrame(flight_mode, n + 1, f), f)
      /\ FrameLength(WholeFrame(flight_mode, n + 1, f)) = n + 1 + 4
  <2>1. flight_mode \in Int
    BY DEF flight_mode
  <2>2. n + 1 \in Int
    BY <1>6
  <2>3. f \in Seq(Int)
    BY <1>6
  <2> QED BY <2>1, <2>2, <2>3, Written, Zenon
<1>p. PICK p : p = WholeFrame(flight_mode, n + 1, f)
  OBVIOUS
<1>q. PICK q : q = RcPayload(p)
  OBVIOUS
<1>8. Fits(m, p)
  <2>1. Len(p) = n + 1 + 4 /\ FrameLength(p) = n + 1 + 4
    <3>1. Len(f) = n + 1
      BY <1>6
    <3>2. Len(p) = Len(f) + 4 /\ FrameLength(p) = n + 1 + 4
      BY <1>7, <1>p, Zenon DEF Carries
    <3> QED BY <3>1, <3>2
  <2>2. n + 1 + 4 <= 20
    BY <1>5, <1>6 DEF n
  <2> QED BY <1>3, <2>1, <2>2, Zenon DEF Fits
<1>9. IsText(q, t)
  <2>1. Len(q) = Len(f) /\ \A i \in 1 .. Len(f) : q[i] = f[i]
    BY <1>7, <1>p, <1>q, Zenon DEF Carries
  <2>2. Len(q) = n + 1 /\ \A i \in 1 .. n + 1 : q[i] = f[i]
    BY <1>6, <2>1
  <2>3. q[n + 1] = 0 /\ \A i \in 1 .. n : q[i] = t[i] /\ q[i] # 0
    BY <1>6, <2>2
  <2>4. Len(t) = n
    BY DEF n
  <2> QED BY <2>2, <2>3, <2>4, Zenon DEF IsText
<1>10. Understood(m, q)
  BY <1>4, <1>9, Zenon
<1> QED BY <1>2, <1>8, <1>10, <1>p, <1>q, Zenon

(* Every message of the writers.                                            *)
LEMMA TelemetrySaid ==
  ASSUME NEW m \in TelemetryMessage
  PROVE  Fits(m, Encode(m)) /\ Understood(m, RcPayload(Encode(m)))
BY BatterySaid, GpsSaid, AttitudeSaid, FlightModeSaid, Zenon
   DEF TelemetryMessage

-----------------------------------------------------------------------------
(* The line carries nothing but messages.                                   *)
QueueInv == queue \in Seq(Messages)

(* It begins with one of them.                                              *)
LEMMA InitQueue == MixedInit => QueueInv
<1> SUFFICES ASSUME MixedInit
             PROVE  QueueInv
  OBVIOUS
<1>1. PICK m \in Messages : queue = <<m>>
  BY Zenon DEF MixedInit
<1> QED BY <1>1 DEF QueueInv

(* A message is sent at the end, and what is read goes at the beginning.    *)
LEMMA NextQueue == QueueInv /\ [MixedNext]_mixedVars => QueueInv'
<1> SUFFICES ASSUME QueueInv, [MixedNext]_mixedVars
             PROVE  QueueInv'
  OBVIOUS
<1>0. queue \in Seq(Messages)
  BY DEF QueueInv
<1>1. CASE Send
  <2>1. PICK m \in Messages : queue' = Append(queue, m)
    BY <1>1, Zenon DEF Send
  <2> QED BY <1>0, <2>1, AppendProperties DEF QueueInv
<1>2. CASE Receive
  <2>1. PICK k \in 0 .. Len(queue) : queue' = SubSeq(queue, k + 1, Len(queue))
    BY <1>2, Zenon DEF Receive
  <2>2. Len(queue) \in Nat
    BY <1>0, LenProperties
  <2>3. \A i \in k + 1 .. Len(queue) : queue[i] \in Messages
    BY <1>0, <2>2, ElementOfSeq
  <2>4. SubSeq(queue, k + 1, Len(queue)) \in Seq(Messages)
    BY <2>2, <2>3, SubSeqProperties
  <2> QED BY <2>1, <2>4 DEF QueueInv
<1>3. CASE Process
  BY <1>0, <1>3, Zenon DEF Process, QueueInv
<1>4. CASE UNCHANGED mixedVars
  BY <1>0, <1>4, Zenon DEF mixedVars, QueueInv
<1> QED BY <1>1, <1>2, <1>3, <1>4, Zenon DEF MixedNext

(* No frame but of messages is ever on the line.                            *)
THEOREM OnlyMessages == MixedSpec => []QueueInv
BY InitQueue, NextQueue, PTL DEF MixedSpec

(* What the frame on the line is that a writer's message stands for.        *)
LEMMA TelemetryOnTheLine ==
  ASSUME QueueInv, NEW i \in DOMAIN queue, Telemetry(i)
  PROVE  queue[i] \in TelemetryMessage /\ Frame[queue[i]] = Encode(queue[i])
<1>1. queue[i] \in Messages
  BY ElementOfSeq, LenProperties DEF QueueInv
<1>2. Frame[queue[i]] = Encode(queue[i])
  BY <1>1, Zenon DEF Frame
<1>3. queue[i].kind # "rc" /\ queue[i].kind # "link"
  BY DEF Telemetry
<1>4. ASSUME NEW m \in RcMessage \cup LinkMessage
      PROVE  m.kind = "rc" \/ m.kind = "link"
  BY DEF RcMessage, LinkMessage
<1> QED BY <1>1, <1>2, <1>3, <1>4, MessagesAssumption, Zenon

(* No telemetry writer of crsf.cpp leaves its array, and each fills exactly *)
(* what its header announces, whatever it is called with.                   *)
THEOREM WritersFit == MixedSpec => []FramesFit
<1>1. QueueInv => FramesFit
  <2> SUFFICES ASSUME QueueInv, NEW i \in DOMAIN queue, Telemetry(i)
               PROVE  /\ Len(Frame[queue[i]]) <= BufferSize(queue[i])
                      /\ Len(Frame[queue[i]]) = FrameLength(Frame[queue[i]])
    BY Zenon DEF FramesFit
  <2> QED BY TelemetryOnTheLine, TelemetrySaid, Zenon DEF Fits
<1> QED BY <1>1, OnlyMessages, PTL

(* An independent receiver, which reads the payload big endian and in two's *)
(* complement, understands every telemetry frame of crsf.cpp as the writer  *)
(* meant it, for every argument of the C types.                             *)
THEOREM WritersUnderstood == MixedSpec => []TelemetryReadsBack
<1>1. QueueInv => TelemetryReadsBack
  <2> SUFFICES ASSUME QueueInv, NEW i \in DOMAIN queue, Telemetry(i)
               PROVE  Understood(queue[i], RcPayload(Frame[queue[i]]))
    BY Zenon DEF TelemetryReadsBack
  <2> QED BY TelemetryOnTheLine, TelemetrySaid, Zenon
<1> QED BY <1>1, OnlyMessages, PTL

-----------------------------------------------------------------------------
(* The frames as the parser sees them.                                      *)

(* A byte of a number is a uint8_t.                                         *)
LEMMA OctetBytes ==
  \A v \in Int : /\ Octet(v, 1) \in uint8_t /\ Octet(v, 256) \in uint8_t
                 /\ Octet(v, 65536) \in uint8_t /\ Octet(v, 16777216) \in uint8_t
<1>1. uint8_t = 0 .. 255
  BY DEF uint8_t
<1> QED BY <1>1, SMT DEF Octet

(* crc8_dvb_s2_buf folds a whole buffer.                                    *)
LEMMA BufSteps ==
  ASSUME NEW S, Closed(S), NEW s \in Seq(S)
  PROVE  \E g \in [0 .. Len(s) -> S] :
           Checksums(g, s, Len(s)) /\ crc8_dvb_s2_buf(s) = g[Len(s)]
<1> DEFINE Unfolds(g) == g = [i \in 0 .. Len(s) |->
                             IF i = 0 THEN 0 ELSE Crc8(g[i - 1], s[i])]
           u == CHOOSE g : Unfolds(g)
<1>1. Len(s) \in Nat /\ \A i \in 1 .. Len(s) : s[i] \in S
  BY LenProperties, ElementOfSeq
<1>2. \E g : Unfolds(g)
  <2>1. PICK g \in [0 .. Len(s) -> S] : Checksums(g, s, Len(s))
    BY <1>1, ChecksumsExist
  <2>2. \A i \in 0 .. Len(s) : g[i] = IF i = 0 THEN 0 ELSE Crc8(g[i - 1], s[i])
    BY <1>1, <2>1 DEF Checksums
  <2>3. Unfolds(g)
    BY <2>2
  <2> QED BY <2>3
<1>3. Unfolds(u)
  BY <1>2
<1>4. crc8_dvb_s2_buf(s) = u[Len(s)]
  BY DEF crc8_dvb_s2_buf
<1> HIDE DEF u
<1>5. \A i \in 0 .. Len(s) : u[i] = IF i = 0 THEN 0 ELSE Crc8(u[i - 1], s[i])
  BY <1>3
<1>6. \A i \in 0 .. Len(s) : u[i] \in S
  <2> DEFINE I == {k \in Nat : k <= Len(s) => u[k] \in S}
  <2>1. 0 \in I
    BY <1>1, <1>5 DEF Closed
  <2>2. ASSUME NEW k \in Nat, k \in I
        PROVE  k + 1 \in I
    <3>1. SUFFICES ASSUME k + 1 <= Len(s)
                   PROVE  u[k + 1] \in S
      BY <1>1
    <3>2. u[k] \in S /\ s[k + 1] \in S /\ u[k + 1] = Crc8(u[k], s[k + 1])
      BY <1>1, <1>5, <2>2, <3>1
    <3> QED BY <3>2 DEF Closed
  <2> HIDE DEF I
  <2>3. Nat \subseteq I
    BY <2>1, <2>2, SetInduction
  <2> QED BY <1>1, <2>3 DEF I
<1>7. u \in [0 .. Len(s) -> S]
  BY <1>3, <1>6
<1>8. Checksums(u, s, Len(s))
  BY <1>1, <1>5 DEF Checksums
<1> QED BY <1>4, <1>7, <1>8

(* The writers compute the checksum that the parser does: from the type to  *)
(* the last byte of the payload.                                            *)
LEMMA SameChecksum ==
  ASSUME NEW S, Closed(S), NEW p \in Seq(S), Len(p) >= 3, NEW s \in Seq(S),
         Len(s) = Len(p) - 3, \A k \in 1 .. Len(s) : s[k] = p[k + 2]
  PROVE  crc8_dvb_s2_buf(s) = FrameCrc(p)
<1>1. PICK g \in [0 .. Len(s) -> S] :
        Checksums(g, s, Len(s)) /\ crc8_dvb_s2_buf(s) = g[Len(s)]
  BY BufSteps
<1>2. PICK h \in [2 .. Len(p) - 1 -> S] :
        /\ h[2] = 0
        /\ \A i \in 3 .. Len(p) - 1 : h[i] = Crc8(h[i - 1], p[i])
        /\ FrameCrc(p) = h[Len(p) - 1]
  BY CrcSteps
<1>3. Len(p) \in Nat /\ Len(s) \in Nat
  BY LenProperties
<1> DEFINE I == {k \in Nat : k <= Len(s) => g[k] = h[k + 2]}
<1>4. 0 \in I
  BY <1>1, <1>2 DEF Checksums
<1>5. ASSUME NEW k \in Nat, k \in I
      PROVE  k + 1 \in I
  <2>1. SUFFICES ASSUME k + 1 <= Len(s)
                 PROVE  g[k + 1] = h[k + 3]
    BY <1>3
  <2>2. /\ k + 1 \in 1 .. Len(s) /\ (k + 1) - 1 = k /\ (k + 1) + 2 = k + 3
        /\ k + 3 \in 3 .. Len(p) - 1 /\ (k + 3) - 1 = k + 2
    BY <1>3, <2>1
  <2>3. g[k + 1] = Crc8(g[k], s[k + 1]) /\ h[k + 3] = Crc8(h[k + 2], p[k + 3])
    BY <1>1, <1>2, <2>2 DEF Checksums
  <2>4. s[k + 1] = p[k + 3]
    BY <2>2
  <2>5. g[k] = h[k + 2]
    BY <1>3, <1>5, <2>1
  <2> QED BY <2>3, <2>4, <2>5
<1> HIDE DEF I
<1>6. Len(s) \in I
  BY <1>3, <1>4, <1>5, SetInduction
<1>7. g[Len(s)] = h[Len(s) + 2] /\ Len(s) + 2 = Len(p) - 1
  BY <1>3, <1>6 DEF I
<1> QED BY <1>1, <1>2, <1>7

(* A frame whose fields are as long as its header says.                     *)
LEMMA FrameWritten ==
  ASSUME NEW type \in uint8_t, NEW f \in Seq(uint8_t), NEW size \in Nat,
         Len(f) = size, size + 2 \in uint8_t
  PROVE  LET p == WholeFrame(type, size, f)
         IN  /\ p \in Seq(uint8_t)
             /\ Len(p) = size + 4
             /\ p[2] = size + 2
             /\ p[3] = type
             /\ p[Len(p)] = FrameCrc(p)
<1> DEFINE p == WholeFrame(type, size, f)
           h == <<CRSF_SYNC_BYTE, LengthByte(size), type>>
           s == <<type>> \o SubSeq(f, 1, size)
           x == crc8_dvb_s2_buf(s)
           a == h \o f
           S == uint8_t
<1>0. Closed(uint8_t)
  <2>1. 0 \in uint8_t
    BY DEF uint8_t
  <2> QED BY <2>1, Uint8Assumption, Zenon DEF Closed
<1>1. h \in Seq(S) /\ Len(h) = 3 /\ h[2] = size + 2 /\ h[3] = type
  <2>1. CRSF_SYNC_BYTE \in S /\ LengthByte(size) \in S /\ LengthByte(size) = size + 2
    BY DEF CRSF_SYNC_BYTE, LengthByte, uint8_t
  <2> QED BY <2>1
<1>2. /\ s \in Seq(S) /\ Len(s) = size + 1
      /\ s[1] = type /\ \A k \in 2 .. size + 1 : s[k] = f[k - 1]
  <2>1. SubSeq(f, 1, size) = f
    BY SubSeqFull
  <2>2. <<type>> \in Seq(S) /\ Len(<<type>>) = 1 /\ <<type>>[1] = type
    OBVIOUS
  <2>3. /\ <<type>> \o f \in Seq(S) /\ Len(<<type>> \o f) = 1 + size
        /\ \A i \in 1 .. 1 + size : (<<type>> \o f)[i]
             = IF i <= 1 THEN <<type>>[i] ELSE f[i - 1]
    <3>1. /\ <<type>> \o f \in Seq(S)
          /\ Len(<<type>> \o f) = Len(<<type>>) + Len(f)
          /\ \A i \in 1 .. Len(<<type>>) + Len(f) : (<<type>> \o f)[i]
               = IF i <= Len(<<type>>) THEN <<type>>[i] ELSE f[i - Len(<<type>>)]
      BY <2>2, ConcatProperties
    <3> QED BY <2>2, <3>1
  <2>4. s = <<type>> \o f
    BY <2>1
  <2> HIDE DEF s
  <2> QED BY <2>2, <2>3, <2>4
<1> HIDE DEF s
<1>3. x \in S
  <2>1. PICK g \in [0 .. Len(s) -> S] : x = g[Len(s)]
    BY <1>0, <1>2, BufSteps
  <2> QED BY <1>2, <2>1
<1>4. p = a \o <<x>>
  BY DEF WholeFrame, s
<1> HIDE DEF h, x
<1>5. /\ a \in Seq(S) /\ Len(a) = 3 + size
      /\ \A i \in 1 .. 3 + size : a[i] = IF i <= 3 THEN h[i] ELSE f[i - 3]
  <2>1. /\ a \in Seq(S) /\ Len(a) = Len(h) + Len(f)
        /\ \A i \in 1 .. Len(h) + Len(f) :
             a[i] = IF i <= Len(h) THEN h[i] ELSE f[i - Len(h)]
    BY <1>1, ConcatProperties
  <2> HIDE DEF a
  <2> QED BY <1>1, <2>1
<1> HIDE DEF a
<1>6. <<x>> \in Seq(S) /\ Len(<<x>>) = 1 /\ <<x>>[1] = x
  BY <1>3
<1> HIDE DEF p
<1>7. /\ p \in Seq(S) /\ Len(p) = Len(a) + 1
      /\ \A i \in 1 .. Len(a) + 1 :
           p[i] = IF i <= Len(a) THEN a[i] ELSE <<x>>[i - Len(a)]
  <2>1. /\ a \o <<x>> \in Seq(S) /\ Len(a \o <<x>>) = Len(a) + Len(<<x>>)
        /\ \A i \in 1 .. Len(a) + Len(<<x>>) :
             (a \o <<x>>)[i] = IF i <= Len(a) THEN a[i] ELSE <<x>>[i - Len(a)]
    BY <1>5, <1>6, ConcatProperties
  <2> QED BY <1>4, <1>6, <2>1
<1>8. Len(p) = size + 4 /\ p[2] = size + 2 /\ p[3] = type /\ p[size + 4] = x
  BY <1>1, <1>5, <1>6, <1>7
<1>9. ASSUME NEW k \in 1 .. Len(s)
      PROVE  s[k] = p[k + 2]
  <2>1. CASE k = 1
    BY <1>2, <1>8, <2>1
  <2>2. CASE k # 1
    <3>1. k \in 2 .. size + 1 /\ k + 2 \in 1 .. 3 + size /\ ~ (k + 2 <= 3)
          /\ (k + 2) - 3 = k - 1
      BY <1>2, <2>2
    <3>2. a[k + 2] = f[k - 1]
      BY <1>5, <3>1
    <3>3. p[k + 2] = a[k + 2]
      BY <1>5, <1>7, <3>1
    <3> QED BY <1>2, <3>1, <3>2, <3>3
  <2> QED BY <2>1, <2>2
<1>10. x = FrameCrc(p)
  <2>1. Len(p) >= 3 /\ Len(s) = Len(p) - 3
    BY <1>2, <1>8
  <2> QED BY <1>0, <1>2, <1>7, <1>9, <2>1, SameChecksum DEF x
<1> QED BY <1>7, <1>8, <1>10 DEF p

\* f is n bytes.
Sized(f, n) == f \in Seq(uint8_t) /\ Len(f) = n

(* The fields of numbers.                                                   *)
LEMMA FieldsSized ==
  \A v \in Int : /\ Sized(Uint8(v), 1) /\ Sized(Uint16(v), 2)
                 /\ Sized(Uint24(v), 3) /\ Sized(Int32(v), 4)
<1> SUFFICES ASSUME NEW v \in Int
             PROVE  /\ Sized(Uint8(v), 1) /\ Sized(Uint16(v), 2)
                    /\ Sized(Uint24(v), 3) /\ Sized(Int32(v), 4)
  OBVIOUS
<1>1. /\ Octet(v, 1) \in uint8_t /\ Octet(v, 256) \in uint8_t
      /\ Octet(v, 65536) \in uint8_t /\ Octet(v, 16777216) \in uint8_t
  BY OctetBytes
<1> QED BY <1>1 DEF Sized, Uint8, Uint16, Uint24, Int32

(* Fields one behind the other.                                             *)
LEMMA JoinedSized ==
  ASSUME NEW s, NEW t, NEW i \in Nat, NEW j \in Nat, Sized(s, i), Sized(t, j)
  PROVE  Sized(s \o t, i + j)
BY ConcatProperties DEF Sized

\* Message m is written as a frame of this type with these fields.
WrittenAs(m, type, size, f) ==
  /\ Encode(m) = WholeFrame(type, size, f)
  /\ type \in uint8_t
  /\ size \in Nat
  /\ Sized(f, size)

(* The writers of telemetry fill their frames.                              *)
LEMMA WrittenBattery ==
  ASSUME NEW m \in BatteryMessage
  PROVE  \E f : WrittenAs(m, battery_sensor, 8, f)
<1> DEFINE a == Uint16(m.voltage)
           b == Uint16(m.current)
           c == Uint24(m.fuel)
           d == Uint8(m.remaining)
<1>1. /\ m.kind = "battery" /\ m.fuel \in Int /\ m.voltage \in uint16_t
      /\ m.current \in uint16_t /\ m.remaining \in uint8_t
  BY DEF BatteryMessage
<1>2. Sized(a, 2) /\ Sized(b, 2) /\ Sized(c, 3) /\ Sized(d, 1)
  BY <1>1, ByteBack, WordBack, FieldsSized
<1>3. Encode(m) = WholeFrame(battery_sensor, 8, a \o b \o c \o d)
  BY <1>1, Zenon DEF Encode, Battery
<1> HIDE DEF a, b, c, d
<1>4. Sized(a \o b, 4)
  BY <1>2, JoinedSized
<1>5. Sized(a \o b \o c, 7)
  BY <1>2, <1>4, JoinedSized
<1>6. Sized(a \o b \o c \o d, 8)
  BY <1>2, <1>5, JoinedSized
<1>7. battery_sensor \in uint8_t /\ 8 \in Nat
  BY DEF battery_sensor, uint8_t
<1> QED BY <1>3, <1>6, <1>7, Zenon DEF WrittenAs

LEMMA WrittenGps ==
  ASSUME NEW m \in GpsMessage
  PROVE  \E f : WrittenAs(m, gps, 15, f)
<1> DEFINE a == Int32(m.latitude)
           b == Int32(m.longitude)
           c == Uint16(m.groundspeed)
           d == Uint16(m.gps_heading)
           e == Uint16(m.altitude)
           g == Uint8(m.num_satellites)
<1>1. /\ m.kind = "gps" /\ m.latitude \in int32_t /\ m.longitude \in int32_t
      /\ m.groundspeed \in uint16_t /\ m.gps_heading \in uint16_t
      /\ m.altitude \in uint16_t /\ m.num_satellites \in uint8_t
  BY DEF GpsMessage
<1>2. /\ Sized(a, 4) /\ Sized(b, 4) /\ Sized(c, 2) /\ Sized(d, 2)
      /\ Sized(e, 2) /\ Sized(g, 1)
  BY <1>1, ByteBack, WordBack, SignedQuadBack, FieldsSized
<1>3. Encode(m) = WholeFrame(gps, 15, a \o b \o c \o d \o e \o g)
  BY <1>1, Zenon DEF Encode, Gps
<1> HIDE DEF a, b, c, d, e, g
<1>4. Sized(a \o b, 8)
  BY <1>2, JoinedSized
<1>5. Sized(a \o b \o c, 10)
  BY <1>2, <1>4, JoinedSized
<1>6. Sized(a \o b \o c \o d, 12)
  BY <1>2, <1>5, JoinedSized
<1>7. Sized(a \o b \o c \o d \o e, 14)
  BY <1>2, <1>6, JoinedSized
<1>8. Sized(a \o b \o c \o d \o e \o g, 15)
  BY <1>2, <1>7, JoinedSized
<1>9. gps \in uint8_t /\ 15 \in Nat
  BY DEF gps, uint8_t
<1> QED BY <1>3, <1>8, <1>9, Zenon DEF WrittenAs

LEMMA WrittenAttitude ==
  ASSUME NEW m \in AttitudeMessage
  PROVE  \E f : WrittenAs(m, attitude, 6, f)
<1> DEFINE a == Uint16(m.pitch)
           b == Uint16(m.roll)
           c == Uint16(m.yaw)
<1>1. /\ m.kind = "attitude" /\ m.pitch \in int16_t /\ m.roll \in int16_t
      /\ m.yaw \in int16_t
  BY DEF AttitudeMessage
<1>2. Sized(a, 2) /\ Sized(b, 2) /\ Sized(c, 2)
  BY <1>1, SignedWordBack, FieldsSized
<1>3. Encode(m) = WholeFrame(attitude, 6, a \o b \o c)
  BY <1>1, Zenon DEF Encode, Attitude
<1> HIDE DEF a, b, c
<1>4. Sized(a \o b, 4)
  BY <1>2, JoinedSized
<1>5. Sized(a \o b \o c, 6)
  BY <1>2, <1>4, JoinedSized
<1>6. attitude \in uint8_t /\ 6 \in Nat
  BY DEF attitude, uint8_t
<1> QED BY <1>3, <1>5, <1>6, Zenon DEF WrittenAs

LEMMA WrittenFlightMode ==
  ASSUME NEW m \in FlightModeMessage
  PROVE  \E f : \E n \in 1 .. 16 : WrittenAs(m, flight_mode, n, f)
<1> DEFINE t == CutOff(m.text)
           l == Len(t)
<1>1. m.kind = "flight_mode" /\ m.text \in Seq(uint8_t \ {0})
  BY DEF FlightModeMessage
<1>2. t \in Seq(uint8_t \ {0}) /\ l <= 15
  BY <1>1, CutOffText
<1>3. Encode(m) = WholeFrame(flight_mode, l + 1, t \o <<0>>)
  BY <1>1, Zenon DEF Encode, FlightMode
<1> HIDE DEF t
<1>4. Sized(t, l) /\ l \in Nat
  BY <1>2, LenProperties, SeqMonotonic DEF Sized
<1>5. Sized(<<0>>, 1)
  BY DEF Sized, uint8_t
<1> HIDE DEF l
<1>6. Sized(t \o <<0>>, l + 1)
  BY <1>4, <1>5, JoinedSized
<1>7. flight_mode \in uint8_t /\ l + 1 \in Nat /\ l + 1 \in 1 .. 16
  BY <1>2, <1>4 DEF flight_mode, uint8_t
<1>8. WrittenAs(m, flight_mode, l + 1, t \o <<0>>)
  BY <1>3, <1>6, <1>7, Zenon DEF WrittenAs
<1> QED BY <1>7, <1>8

(* So do the senders of channels and of link statistics.                    *)
LEMMA WrittenRc ==
  ASSUME NEW m \in RcMessage
  PROVE  m.kind = "rc" /\ \E f : WrittenAs(m, RcType, RcLength - 2, f)
<1> DEFINE p == m.payload
<1>1. m.kind = "rc" /\ p \in [1 .. RcLength - 2 -> uint8_t]
  BY DEF RcMessage
<1>2. RcLength - 2 \in Nat
  BY SizeAssumption DEF HeaderSize
<1>3. Encode(m) = WholeFrame(RcType, Len(p), p)
  BY <1>1, Zenon DEF Encode
<1> HIDE DEF p
<1>4. p \in Seq(uint8_t) /\ Len(p) = RcLength - 2
  BY <1>1, <1>2
<1>5. RcType \in uint8_t
  BY Uint8Assumption
<1>6. WrittenAs(m, RcType, RcLength - 2, p)
  BY <1>2, <1>3, <1>4, <1>5 DEF WrittenAs, Sized
<1> QED BY <1>1, <1>6

LEMMA WrittenLink ==
  ASSUME NEW m \in LinkMessage
  PROVE  m.kind = "link" /\ \E f : WrittenAs(m, link_statistics, 10, f)
<1> DEFINE p == m.payload
<1>1. m.kind = "link" /\ p \in [1 .. 10 -> uint8_t]
  BY DEF LinkMessage
<1>2. Encode(m) = WholeFrame(link_statistics, 10, p)
  BY <1>1, Zenon DEF Encode
<1> HIDE DEF p
<1>3. p \in Seq(uint8_t) /\ Len(p) = 10
  <2>1. \A n \in Nat : \A q \in [1 .. n -> uint8_t] : q \in Seq(uint8_t) /\ Len(q) = n
    OBVIOUS
  <2> QED BY <1>1, <2>1
<1>4. link_statistics \in uint8_t /\ 10 \in Nat
  BY DEF link_statistics, uint8_t
<1>5. WrittenAs(m, link_statistics, 10, p)
  BY <1>2, <1>3, <1>4 DEF WrittenAs, Sized
<1> QED BY <1>1, <1>5

(* What the parser makes of a frame with fields of this size.               *)
LEMMA FrameParsed ==
  ASSUME NEW m \in Messages, NEW type, NEW size, NEW f,
         WrittenAs(m, type, size, f), size >= 1, size <= 16 \/ size = RcLength - 2
  PROVE  /\ Frame[m] \in Seq(Byte)
         /\ Len(Frame[m]) = size + 4
         /\ Len(Frame[m]) \in 5 .. FrameSize
         /\ FrameLength(Frame[m]) = Len(Frame[m])
         /\ Frame[m][2] = size + 2
         /\ Frame[m][3] = type
         /\ Frame[m][Len(Frame[m])] = FrameCrc(Frame[m])
<1>1. Frame[m] = WholeFrame(type, size, f)
  BY Zenon DEF Frame, WrittenAs
<1>2. type \in uint8_t /\ size \in Nat /\ f \in Seq(uint8_t) /\ Len(f) = size
  BY DEF WrittenAs, Sized
<1>3. size + 2 \in uint8_t /\ size + 4 <= FrameSize /\ FrameSize \in Nat
  <2>1. uint8_t = 0 .. 255 /\ RcLength \in uint8_t
    BY Uint8Assumption DEF uint8_t
  <2>2. FrameSize \in Nat /\ 16 + 4 <= FrameSize /\ RcLength + 2 <= FrameSize
    BY BufferAssumption, SizeAssumption DEF max_length, HeaderSize
  <2>3. CASE size <= 16
    BY <1>2, <2>1, <2>2, <2>3
  <2>4. CASE size = RcLength - 2
    BY <1>2, <2>1, <2>2, <2>4
  <2> QED BY <2>2, <2>3, <2>4
<1> DEFINE p == WholeFrame(type, size, f)
<1>4. /\ p \in Seq(uint8_t) /\ Len(p) = size + 4 /\ p[2] = size + 2
      /\ p[3] = type /\ p[Len(p)] = FrameCrc(p)
  BY <1>2, <1>3, FrameWritten
<1> HIDE DEF p
<1>5. p \in Seq(Byte)
  BY <1>4, Uint8Assumption
<1>6. Len(p) \in 5 .. FrameSize /\ FrameLength(p) = Len(p)
  BY <1>2, <1>3, <1>4 DEF FrameLength, HeaderSize
<1> QED BY <1>1, <1>4, <1>5, <1>6 DEF p

(* Frames fit the buffer and announce their length; those of channels, and  *)
(* no others, are RC frames, with the right checksum.                       *)
LEMMA FrameFacts ==
  ASSUME NEW m \in Messages
  PROVE  /\ Frame[m] \in Seq(Byte)
         /\ Len(Frame[m]) \in 5 .. FrameSize
         /\ FrameLength(Frame[m]) = Len(Frame[m])
         /\ m.kind = "rc" => /\ Len(Frame[m]) = RcLength + HeaderSize
                             /\ IsValidRc(Frame[m])
         /\ m.kind # "rc" => ~ IsValidRc(Frame[m])
<1>0. RcLength \in Nat /\ RcLength - 2 >= 1
  BY SizeAssumption, BufferAssumption DEF max_length, HeaderSize
<1>1. CASE m \in RcMessage
  <2>1. PICK f : WrittenAs(m, RcType, RcLength - 2, f)
    BY <1>1, WrittenRc
  <2>2. /\ Frame[m] \in Seq(Byte)
        /\ Len(Frame[m]) = RcLength - 2 + 4
        /\ Len(Frame[m]) \in 5 .. FrameSize
        /\ FrameLength(Frame[m]) = Len(Frame[m])
        /\ Frame[m][2] = RcLength - 2 + 2
        /\ Frame[m][3] = RcType
        /\ Frame[m][Len(Frame[m])] = FrameCrc(Frame[m])
    BY <1>0, <2>1, FrameParsed
  <2>3. m.kind = "rc"
    BY <1>1, WrittenRc
  <2>4. Len(Frame[m]) = RcLength + HeaderSize /\ Frame[m][2] = RcLength
    BY <1>0, <2>2 DEF HeaderSize
  <2> QED BY <2>2, <2>3, <2>4 DEF IsValidRc, IsRcFrame
<1>2. ASSUME NEW type, type # RcType, NEW size, NEW f, m.kind # "rc",
             WrittenAs(m, type, size, f), size \in 1 .. 16
      PROVE  /\ Frame[m] \in Seq(Byte)
             /\ Len(Frame[m]) \in 5 .. FrameSize
             /\ FrameLength(Frame[m]) = Len(Frame[m])
             /\ m.kind # "rc" /\ ~ IsValidRc(Frame[m])
  <2>1. size >= 1 /\ size <= 16
    BY <1>2
  <2>2. /\ Frame[m] \in Seq(Byte)
        /\ Len(Frame[m]) \in 5 .. FrameSize
        /\ FrameLength(Frame[m]) = Len(Frame[m])
        /\ Frame[m][3] = type
    BY <1>2, <2>1, FrameParsed
  <2> QED BY <1>2, <2>2 DEF IsValidRc, IsRcFrame
<1>3. /\ RcType # link_statistics /\ RcType # gps /\ RcType # battery_sensor
      /\ RcType # attitude /\ RcType # flight_mode
  BY Uint8Assumption
<1>4. CASE m \in LinkMessage
  <2>1. PICK f : WrittenAs(m, link_statistics, 10, f)
    BY <1>4, WrittenLink
  <2>2. m.kind # "rc" /\ 10 \in 1 .. 16
    BY <1>4, WrittenLink
  <2> QED BY <1>2, <1>3, <2>1, <2>2, Zenon
<1>5. CASE m \in BatteryMessage
  <2>1. PICK f : WrittenAs(m, battery_sensor, 8, f)
    BY <1>5, WrittenBattery
  <2>2. m.kind # "rc" /\ 8 \in 1 .. 16
    BY <1>5 DEF BatteryMessage
  <2> QED BY <1>2, <1>3, <2>1, <2>2, Zenon
<1>6. CASE m \in GpsMessage
  <2>1. PICK f : WrittenAs(m, gps, 15, f)
    BY <1>6, WrittenGps
  <2>2. m.kind # "rc" /\ 15 \in 1 .. 16
    BY <1>6 DEF GpsMessage
  <2> QED BY <1>2, <1>3, <2>1, <2>2, Zenon
<1>7. CASE m \in AttitudeMessage
  <2>1. PICK f : WrittenAs(m, attitude, 6, f)
    BY <1>7, WrittenAttitude
  <2>2. m.kind # "rc" /\ 6 \in 1 .. 16
    BY <1>7 DEF AttitudeMessage
  <2> QED BY <1>2, <1>3, <2>1, <2>2, Zenon
<1>8. CASE m \in FlightModeMessage
  <2>0. PICK f : \E n \in 1 .. 16 : WrittenAs(m, flight_mode, n, f)
    BY <1>8, WrittenFlightMode
  <2>1. PICK n \in 1 .. 16 : WrittenAs(m, flight_mode, n, f)
    BY <2>0
  <2>2. m.kind # "rc"
    BY <1>8 DEF FlightModeMessage
  <2> QED BY <1>2, <1>3, <2>1, <2>2, Zenon
<1> QED BY <1>1, <1>4, <1>5, <1>6, <1>7, <1>8, MessagesAssumption, Zenon
        DEF TelemetryMessage

-----------------------------------------------------------------------------
(* The frames of several messages, one behind the other.                    *)

(* Line adds frame after frame.                                             *)
LEMMA LineSteps ==
  ASSUME NEW s \in Seq(Messages)
  PROVE  \E g \in [0 .. Len(s) -> Seq(Byte)] :
           /\ g[0] = <<>>
           /\ \A i \in 1 .. Len(s) : g[i] = g[i - 1] \o Frame[s[i]]
           /\ Line(s) = g[Len(s)]
<1> DEFINE n == Len(s)
           fs == [i \in DOMAIN s |-> Frame[s[i]]]
           B == Seq(Byte)
<1>1. n \in Nat /\ DOMAIN s = 1 .. n /\ \A i \in 1 .. n : s[i] \in Messages
  BY LenProperties, ElementOfSeq
<1>2. \A i \in 1 .. n : fs[i] = Frame[s[i]] /\ fs[i] \in B
  BY <1>1, FrameFacts
<1>3. fs \in Seq(B) /\ Len(fs) = n
  <2>1. fs \in [1 .. n -> B]
    BY <1>1, <1>2
  <2> HIDE DEF fs, n
  <2> QED BY <1>1, <2>1
<1>4. Line(s) = FlattenSeq(fs)
  BY DEF Line
<1> HIDE DEF fs, n, B
<1>5. <<>> \in B
  BY DEF B
<1>6. \A a, b \in B : a \o b \in B
  BY ConcatProperties DEF B
<1>7. CASE n = 0
  <2> DEFINE g == [i \in 0 .. 0 |-> <<>>]
  <2>1. g \in [0 .. n -> B] /\ g[0] = <<>> /\ g[n] = <<>>
    BY <1>5, <1>7
  <2>2. fs = <<>>
    BY <1>3, <1>7, EmptySeq
  <2>3. Line(s) = <<>>
    BY <1>3, <1>4, <1>7, <2>2 DEF FlattenSeq
  <2>4. 1 .. n = {}
    BY <1>7
  <2> HIDE DEF g
  <2> QED BY <2>1, <2>3, <2>4 DEF n, B
<1>8. CASE n # 0
  <2> DEFINE Unfolds(g) == g = [i \in 1 .. Len(fs) |->
                               IF i = 1 THEN fs[i] ELSE g[i - 1] \o fs[i]]
             u == CHOOSE g : Unfolds(g)
  <2>1. \E g : Unfolds(g)
    <3> DEFINE op == [x \in B \X (1 .. n) |-> x[1] \o fs[x[2]]]
    <3>1. op \in [B \X (1 .. n) -> B]
      BY <1>2, <1>6
    <3>2. \A a \in B, i \in 1 .. n : op[<<a, i>>] = a \o fs[i]
      OBVIOUS
    <3> HIDE DEF op
    <3>3. PICK g : Iteration(g, B, <<>>, op, n)
      <4>1. n \in Nat
        BY <1>1
      <4> QED BY <1>5, <3>1, <4>1, Iterated
    <3>0. /\ g \in [0 .. n -> B] /\ g[0] = <<>>
          /\ \A i \in 1 .. n : g[i] = op[<<g[i - 1], i>>]
      BY <3>3 DEF Iteration
    <3>4. ASSUME NEW i \in 1 .. n
          PROVE  g[i] = IF i = 1 THEN fs[i] ELSE g[i - 1] \o fs[i]
      <4>1. g[i] = g[i - 1] \o fs[i]
        <5>1. i - 1 \in 0 .. n
          BY <1>1
        <5> QED BY <3>2, <3>0, <5>1
      <4>2. CASE i = 1
        <5>1. g[i] = <<>> \o fs[i]
          <6>1. i - 1 = 0
            BY <4>2
          <6>2. g[i - 1] = <<>>
            BY <3>0, <6>1
          <6> QED BY <4>1, <6>2
        <5>2. <<>> \o fs[i] = fs[i]
          BY <1>2, ConcatEmptySeq DEF B
        <5> QED BY <4>2, <5>1, <5>2
      <4> QED BY <4>1, <4>2
    <3> DEFINE h == [i \in 1 .. n |-> g[i]]
    <3>5. \A i \in 1 .. n : h[i] = IF i = 1 THEN fs[i] ELSE h[i - 1] \o fs[i]
      BY <1>1, <3>4
    <3>6. Unfolds(h)
      BY <1>3, <3>5
    <3> QED BY <3>6
  <2>2. Unfolds(u)
    BY <2>1
  <2>3. Line(s) = u[n]
    BY <1>3, <1>4, <1>8 DEF FlattenSeq
  <2> HIDE DEF u
  <2>4. \A i \in 1 .. n : u[i] = IF i = 1 THEN fs[i] ELSE u[i - 1] \o fs[i]
    BY <1>3, <2>2
  <2>5. \A i \in 1 .. n : u[i] \in B
    <3> DEFINE I == {k \in Nat : k + 1 <= n => u[k + 1] \in B}
    <3>1. 0 \in I
      BY <1>1, <1>2, <2>4
    <3>2. ASSUME NEW k \in Nat, k \in I
          PROVE  k + 1 \in I
      <4>1. SUFFICES ASSUME k + 2 <= n
                     PROVE  u[k + 2] \in B
        BY <1>1
      <4>2. k + 2 \in 1 .. n /\ k + 2 # 1 /\ (k + 2) - 1 = k + 1 /\ k + 1 <= n
        BY <1>1, <4>1
      <4>3. u[k + 2] = u[k + 1] \o fs[k + 2] /\ u[k + 1] \in B
        BY <2>4, <3>2, <4>2
      <4> QED BY <1>2, <1>6, <4>2, <4>3
    <3> HIDE DEF I
    <3>3. Nat \subseteq I
      BY <3>1, <3>2, SetInduction
    <3>4. ASSUME NEW i \in 1 .. n
          PROVE  u[i] \in B
      <4>1. i - 1 \in I /\ (i - 1) + 1 = i /\ i <= n
        BY <1>1, <3>3
      <4> QED BY <4>1 DEF I
    <3> QED BY <3>4
  <2> DEFINE g == [i \in 0 .. n |-> IF i = 0 THEN <<>> ELSE u[i]]
  <2>6. g \in [0 .. n -> B] /\ g[0] = <<>> /\ g[n] = u[n]
    BY <1>1, <1>5, <1>8, <2>5
  <2>7. ASSUME NEW i \in 1 .. n
        PROVE  g[i] = g[i - 1] \o Frame[s[i]]
    <3>1. CASE i = 1
      <4>1. g[i] = fs[i] /\ g[i - 1] = <<>>
        BY <1>1, <2>4, <3>1
      <4>2. <<>> \o fs[i] = fs[i]
        BY <1>2, ConcatEmptySeq DEF B
      <4> QED BY <1>2, <4>1, <4>2
    <3>2. CASE i # 1
      <4>1. g[i] = u[i] /\ g[i - 1] = u[i - 1] /\ u[i] = u[i - 1] \o fs[i]
        BY <1>1, <2>4, <3>2
      <4> QED BY <1>2, <4>1
    <3> QED BY <3>1, <3>2
  <2> HIDE DEF g
  <2> QED BY <2>3, <2>6, <2>7 DEF n, B
<1> QED BY <1>7, <1>8

(* The line of no messages is empty.                                        *)
LEMMA LineEmpty == Line(<<>>) = <<>>
<1>1. <<>> \in Seq(Messages) /\ Len(<<>>) = 0
  BY EmptySeq
<1> QED BY <1>1, LineSteps

(* The line of any messages is bytes.                                       *)
LEMMA LineTyped ==
  ASSUME NEW s \in Seq(Messages)
  PROVE  Line(s) \in Seq(Byte) /\ Len(Line(s)) \in Nat
<1>1. Len(s) \in 0 .. Len(s)
  BY LenProperties
<1>2. Line(s) \in Seq(Byte)
  BY <1>1, LineSteps
<1> QED BY <1>2, LenProperties

(* A message at the end adds its frame to the end.                          *)
LEMMA LineAppend ==
  ASSUME NEW s \in Seq(Messages), NEW m \in Messages
  PROVE  Line(Append(s, m)) = Line(s) \o Frame[m]
<1> DEFINE t == Append(s, m)
           n == Len(s)
<1>1. /\ t \in Seq(Messages) /\ Len(t) = n + 1 /\ n \in Nat
      /\ t[n + 1] = m /\ \A i \in 1 .. n : t[i] = s[i]
  BY AppendProperties, LenProperties
<1>2. PICK g \in [0 .. n -> Seq(Byte)] :
        /\ g[0] = <<>>
        /\ \A i \in 1 .. n : g[i] = g[i - 1] \o Frame[s[i]]
        /\ Line(s) = g[n]
  BY LineSteps
<1> HIDE DEF t, n
<1>3. PICK h \in [0 .. n + 1 -> Seq(Byte)] :
        /\ h[0] = <<>>
        /\ \A i \in 1 .. n + 1 : h[i] = h[i - 1] \o Frame[t[i]]
        /\ Line(t) = h[n + 1]
  <2>1. \E h \in [0 .. Len(t) -> Seq(Byte)] :
          /\ h[0] = <<>>
          /\ \A i \in 1 .. Len(t) : h[i] = h[i - 1] \o Frame[t[i]]
          /\ Line(t) = h[Len(t)]
    BY <1>1, LineSteps
  <2> QED BY <1>1, <2>1
<1> DEFINE I == {k \in Nat : k <= n => g[k] = h[k]}
<1>4. 0 \in I
  BY <1>2, <1>3
<1>5. ASSUME NEW k \in Nat, k \in I
      PROVE  k + 1 \in I
  <2>1. SUFFICES ASSUME k + 1 <= n
                 PROVE  g[k + 1] = h[k + 1]
    BY <1>1
  <2>2. k + 1 \in 1 .. n /\ k + 1 \in 1 .. n + 1 /\ (k + 1) - 1 = k /\ k <= n
    BY <1>1, <2>1
  <2>3. g[k] = h[k] /\ t[k + 1] = s[k + 1]
    BY <1>1, <1>5, <2>2
  <2> QED BY <1>2, <1>3, <2>2, <2>3
<1> HIDE DEF I
<1>6. n \in I
  BY <1>1, <1>4, <1>5, SetInduction
<1>7. g[n] = h[n] /\ n + 1 \in 1 .. n + 1 /\ (n + 1) - 1 = n
  BY <1>1, <1>6 DEF I
<1> QED BY <1>1, <1>2, <1>3, <1>7 DEF t

(* Two lines make one.                                                      *)
LEMMA LineConcat ==
  ASSUME NEW s \in Seq(Messages), NEW t \in Seq(Messages)
  PROVE  Line(s \o t) = Line(s) \o Line(t)
<1> DEFINE n == Len(t)
           I == {k \in Nat : k <= n =>
                   Line(s \o SubSeq(t, 1, k)) = Line(s) \o Line(SubSeq(t, 1, k))}
<1>1. n \in Nat
  BY LenProperties
<1>2. 0 \in I
  <2>1. SubSeq(t, 1, 0) = <<>>
    BY SubSeqEmpty
  <2>2. s \o <<>> = s /\ Line(s) \o <<>> = Line(s)
    BY ConcatEmptySeq, LineTyped
  <2> QED BY <2>1, <2>2, LineEmpty
<1>3. ASSUME NEW k \in Nat, k \in I
      PROVE  k + 1 \in I
  <2>1. SUFFICES ASSUME k + 1 <= n
                 PROVE  Line(s \o SubSeq(t, 1, k + 1))
                          = Line(s) \o Line(SubSeq(t, 1, k + 1))
    BY <1>1
  <2> DEFINE a == SubSeq(t, 1, k)
             m == t[k + 1]
  <2>2. k <= n /\ k + 1 \in 1 .. n /\ 1 \in 1 .. n /\ k + 1 \in 1 .. k + 1
    BY <1>1, <2>1
  <2>3. Line(s \o a) = Line(s) \o Line(a)
    BY <1>3, <2>2
  <2>4. m \in Messages
    BY <2>2, ElementOfSeq
  <2>5. \A i \in 1 .. k : t[i] \in Messages
    BY <1>1, <2>2, ElementOfSeq
  <2>6. a \in Seq(Messages)
    BY <2>5, SubSeqProperties
  <2>7. SubSeq(t, 1, k + 1) = a \o <<m>>
    <3>1. k + 1 \in 1 .. Len(t) /\ 1 \in 1 .. Len(t) /\ k + 1 \in 1 .. Len(t)
      BY <2>2
    <3>2. SubSeq(t, 1, k + 1) = SubSeq(t, 1, (k + 1) - 1) \o <<t[k + 1]>>
      BY <3>1, SubSeqRecursiveSecond
    <3>3. (k + 1) - 1 = k
      OBVIOUS
    <3> QED BY <3>2, <3>3
  <2> HIDE DEF a, m
  <2>8. a \o <<m>> = Append(a, m)
    BY <2>4, <2>6, AppendIsConcat
  <2>9. s \o Append(a, m) = Append(s \o a, m)
    <3>1. <<m>> \in Seq(Messages) /\ s \o a \in Seq(Messages)
      BY <2>4, <2>6, ConcatProperties
    <3>2. (s \o a) \o <<m>> = s \o (a \o <<m>>)
      BY <2>6, <3>1, ConcatAssociative
    <3>3. (s \o a) \o <<m>> = Append(s \o a, m)
      BY <2>4, <3>1, AppendIsConcat
    <3> QED BY <2>8, <3>2, <3>3
  <2>10. s \o a \in Seq(Messages)
    BY <2>6, ConcatProperties
  <2>11. /\ Line(Append(s \o a, m)) = Line(s \o a) \o Frame[m]
         /\ Line(Append(a, m)) = Line(a) \o Frame[m]
    BY <2>4, <2>6, <2>10, LineAppend
  <2>12. (Line(s) \o Line(a)) \o Frame[m] = Line(s) \o (Line(a) \o Frame[m])
    <3>1. Line(s) \in Seq(Byte) /\ Line(a) \in Seq(Byte) /\ Frame[m] \in Seq(Byte)
      BY <2>4, <2>6, LineTyped, FrameFacts
    <3> HIDE DEF a, m
    <3>2. ASSUME NEW x \in Seq(Byte), NEW y \in Seq(Byte), NEW z \in Seq(Byte)
          PROVE  (x \o y) \o z = x \o (y \o z)
      BY ConcatAssociative
    <3> QED BY <3>1, <3>2
  <2> QED BY <2>3, <2>7, <2>8, <2>9, <2>11, <2>12
<1> HIDE DEF I
<1>4. n \in I
  BY <1>1, <1>2, <1>3, SetInduction
<1>5. SubSeq(t, 1, n) = t /\ n <= n
  BY <1>1, SubSeqFull
<1>6. Line(s \o SubSeq(t, 1, n)) = Line(s) \o Line(SubSeq(t, 1, n))
  BY <1>4, <1>5 DEF I
<1> QED BY <1>5, <1>6

(* The line begins with the first frame.                                    *)
LEMMA LineHead ==
  ASSUME NEW s \in Seq(Messages), s # <<>>
  PROVE  /\ s[1] \in Messages
         /\ SubSeq(s, 2, Len(s)) \in Seq(Messages)
         /\ Line(s) = Frame[s[1]] \o Line(SubSeq(s, 2, Len(s)))
<1> DEFINE t == SubSeq(s, 2, Len(s))
<1>1. Len(s) \in Nat /\ 1 \in 1 .. Len(s)
  BY LenProperties, EmptySeq
<1>2. s[1] \in Messages
  BY <1>1, ElementOfSeq
<1>3. t \in Seq(Messages)
  <2>1. \A i \in 2 .. Len(s) : s[i] \in Messages
    BY <1>1, ElementOfSeq
  <2> QED BY <1>1, <2>1, SubSeqProperties
<1>4. s = <<s[1]>> \o t
  <2>1. SubSeq(s, 1, Len(s)) = <<s[1]>> \o SubSeq(s, 1 + 1, Len(s))
    <3>1. 1 \in 1 .. Len(s) /\ Len(s) \in 1 .. Len(s)
      BY <1>1
    <3> QED BY <3>1, SubSeqRecursiveFirst
  <2>2. SubSeq(s, 1, Len(s)) = s /\ 1 + 1 = 2
    BY SubSeqFull
  <2> QED BY <2>1, <2>2
<1>5. Line(<<s[1]>>) = Frame[s[1]]
  <2>1. <<>> \in Seq(Messages) /\ Append(<<>>, s[1]) = <<s[1]>>
    OBVIOUS
  <2>2. Line(<<s[1]>>) = <<>> \o Frame[s[1]]
    BY <1>2, <2>1, LineAppend, LineEmpty
  <2>3. <<>> \o Frame[s[1]] = Frame[s[1]]
    BY <1>2, FrameFacts, ConcatEmptySeq
  <2> QED BY <2>2, <2>3
<1>6. <<s[1]>> \in Seq(Messages)
  BY <1>2
<1> HIDE DEF t
<1>7. Line(<<s[1]>> \o t) = Line(<<s[1]>>) \o Line(t)
  BY <1>3, <1>6, LineConcat
<1>8. Line(s) = Frame[s[1]] \o Line(t)
  BY <1>4, <1>5, <1>7
<1> QED BY <1>2, <1>3, <1>8 DEF t

(* It can be cut between any two messages.                                  *)
LEMMA LineSplit ==
  ASSUME NEW s \in Seq(Messages), NEW k \in 0 .. Len(s)
  PROVE  LET q == SubSeq(s, 1, k)
             r == SubSeq(s, k + 1, Len(s))
         IN  /\ q \in Seq(Messages) /\ r \in Seq(Messages)
             /\ Len(q) = k /\ Len(r) = Len(s) - k
             /\ \A i \in 1 .. k : q[i] = s[i]
             /\ \A i \in 1 .. Len(s) - k : r[i] = s[k + i]
             /\ s = q \o r
             /\ Line(s) = Line(q) \o Line(r)
<1> DEFINE q == SubSeq(s, 1, k)
           r == SubSeq(s, k + 1, Len(s))
<1>1. Len(s) \in Nat /\ k \in Nat /\ k <= Len(s)
  BY LenProperties
<1>2. (\A i \in 1 .. k : s[i] \in Messages) /\ \A i \in k + 1 .. Len(s) : s[i] \in Messages
  BY <1>1, ElementOfSeq
<1>3. /\ q \in Seq(Messages) /\ Len(q) = k
      /\ \A i \in 1 .. k : q[i] = s[i]
  <2>1. /\ q \in Seq(Messages) /\ Len(q) = IF 1 <= k THEN k - 1 + 1 ELSE 0
        /\ \A i \in 1 .. k - 1 + 1 : q[i] = s[1 + i - 1]
    BY <1>1, <1>2, SubSeqProperties
  <2> HIDE DEF q
  <2> QED BY <1>1, <2>1
<1>4. /\ r \in Seq(Messages) /\ Len(r) = Len(s) - k
      /\ \A i \in 1 .. Len(s) - k : r[i] = s[k + i]
  <2>1. k + 1 \in Int /\ Len(s) \in Int
    BY <1>1
  <2>2. /\ r \in Seq(Messages)
        /\ Len(r) = IF k + 1 <= Len(s) THEN Len(s) - (k + 1) + 1 ELSE 0
        /\ \A i \in 1 .. Len(s) - (k + 1) + 1 : r[i] = s[k + 1 + i - 1]
    BY <1>2, <2>1, SubSeqProperties
  <2> HIDE DEF r
  <2> QED BY <1>1, <2>2
<1>5. s = q \o r
  <2>1. /\ 1 \in 1 .. Len(s) + 1 /\ k \in 1 - 1 .. Len(s) /\ Len(s) \in k .. Len(s)
    BY <1>1
  <2>2. SubSeq(s, 1, k) \o SubSeq(s, k + 1, Len(s)) = SubSeq(s, 1, Len(s))
    BY <2>1, ConcatAdjacentSubSeq
  <2> QED BY <2>2, SubSeqFull
<1> HIDE DEF q, r
<1>6. Line(q \o r) = Line(q) \o Line(r)
  BY <1>3, <1>4, LineConcat
<1> QED BY <1>3, <1>4, <1>5, <1>6 DEF q, r

(* And holds each of the frames.                                            *)
LEMMA LineHolds ==
  ASSUME NEW s \in Seq(Messages), NEW i \in 1 .. Len(s)
  PROVE  s[i] \in Messages /\ Len(Line(s)) >= Len(Frame[s[i]])
<1> DEFINE k == i - 1
           q == SubSeq(s, 1, k)
           r == SubSeq(s, k + 1, Len(s))
<1>1. Len(s) \in Nat /\ k \in 0 .. Len(s) /\ k + 1 = i
  BY LenProperties
<1> HIDE DEF k
<1>2. /\ q \in Seq(Messages) /\ r \in Seq(Messages)
      /\ Len(r) = Len(s) - k
      /\ \A j \in 1 .. Len(s) - k : r[j] = s[k + j]
      /\ Line(s) = Line(q) \o Line(r)
  BY <1>1, LineSplit
<1> HIDE DEF q, r
<1>3. 1 \in 1 .. Len(s) - k /\ r[1] = s[i] /\ r # <<>>
  <2>1. 1 \in 1 .. Len(s) - k
    BY <1>1
  <2> QED BY <1>1, <1>2, <2>1, EmptySeq
<1> DEFINE t == SubSeq(r, 2, Len(r))
<1>4. s[i] \in Messages /\ t \in Seq(Messages) /\ Line(r) = Frame[s[i]] \o Line(t)
  BY <1>2, <1>3, LineHead
<1> HIDE DEF t
<1>5. /\ Line(q) \in Seq(Byte) /\ Line(r) \in Seq(Byte) /\ Line(t) \in Seq(Byte)
      /\ Frame[s[i]] \in Seq(Byte)
  BY <1>2, <1>4, LineTyped, FrameFacts
<1>6. /\ Len(Line(s)) = Len(Line(q)) + Len(Line(r))
      /\ Len(Line(r)) = Len(Frame[s[i]]) + Len(Line(t))
  BY <1>2, <1>4, <1>5, ConcatProperties
<1>7. /\ Len(Line(q)) \in Nat /\ Len(Line(t)) \in Nat /\ Len(Line(r)) \in Nat
      /\ Len(Frame[s[i]]) \in Nat
  BY <1>5, LenProperties
<1> QED BY <1>4, <1>6, <1>7

-----------------------------------------------------------------------------
(* Cuts through two sequences of bytes, one behind the other.               *)

(* In the first of them.                                                    *)
LEMMA CutInFirst ==
  ASSUME NEW s \in Seq(Byte), NEW t \in Seq(Byte), NEW d \in 0 .. Len(s)
  PROVE  SubSeq(s \o t, 1, d) = SubSeq(s, 1, d)
<1>1. /\ s \o t \in Seq(Byte) /\ Len(s) \in Nat /\ Len(t) \in Nat
      /\ Len(s \o t) = Len(s) + Len(t)
      /\ \A i \in 1 .. Len(s) + Len(t) :
           (s \o t)[i] = IF i <= Len(s) THEN s[i] ELSE t[i - Len(s)]
  BY ConcatProperties, LenProperties
<1>2. d \in 0 .. Len(s \o t)
  BY <1>1
<1> DEFINE b == s \o t
           x == SubSeq(b, 1, d)
           y == SubSeq(s, 1, d)
<1>3. x \in Seq(Byte) /\ Len(x) = d /\ \A i \in 1 .. d : x[i] = b[i]
  <2> HIDE DEF b
  <2> QED BY <1>1, <1>2, Prefix DEF b
<1>4. y \in Seq(Byte) /\ Len(y) = d /\ \A i \in 1 .. d : y[i] = s[i]
  BY Prefix
<1>5. \A i \in 1 .. d : b[i] = s[i]
  BY <1>1
<1> HIDE DEF b, x, y
<1>6. x = y
  BY <1>3, <1>4, <1>5, SeqEqual
<1> QED BY <1>6 DEF x, y, b

(* In the second of them.                                                   *)
LEMMA CutInSecond ==
  ASSUME NEW s \in Seq(Byte), NEW t \in Seq(Byte), NEW d \in 0 .. Len(t)
  PROVE  SubSeq(s \o t, 1, Len(s) + d) = s \o SubSeq(t, 1, d)
<1>1. /\ s \o t \in Seq(Byte) /\ Len(s) \in Nat /\ Len(t) \in Nat
      /\ Len(s \o t) = Len(s) + Len(t)
      /\ \A i \in 1 .. Len(s) + Len(t) :
           (s \o t)[i] = IF i <= Len(s) THEN s[i] ELSE t[i - Len(s)]
  BY ConcatProperties, LenProperties
<1> DEFINE b == s \o t
           n == Len(s) + d
           x == SubSeq(b, 1, n)
           y == SubSeq(t, 1, d)
           z == s \o y
<1>2. n \in 0 .. Len(b) /\ n <= Len(s) + Len(t) /\ n \in Nat
  BY <1>1
<1>3. x \in Seq(Byte) /\ Len(x) = n /\ \A i \in 1 .. n : x[i] = b[i]
  <2> HIDE DEF b, n
  <2> QED BY <1>1, <1>2, Prefix DEF b
<1>4. y \in Seq(Byte) /\ Len(y) = d /\ \A i \in 1 .. d : y[i] = t[i]
  BY Prefix
<1> HIDE DEF y
<1>5. /\ z \in Seq(Byte) /\ Len(z) = n
      /\ \A i \in 1 .. n : z[i] = IF i <= Len(s) THEN s[i] ELSE y[i - Len(s)]
  BY <1>4, ConcatProperties
<1> HIDE DEF b, x, z
<1>6. ASSUME NEW i \in 1 .. n
      PROVE  x[i] = z[i]
  <2>1. x[i] = b[i] /\ i \in 1 .. Len(s) + Len(t)
    BY <1>1, <1>2, <1>3
  <2>2. b[i] = IF i <= Len(s) THEN s[i] ELSE t[i - Len(s)]
    BY <1>1, <2>1 DEF b
  <2>3. ~ (i <= Len(s)) => i - Len(s) \in 1 .. d
    BY <1>1
  <2> QED BY <1>4, <1>5, <2>1, <2>2, <2>3
<1> HIDE DEF n
<1>7. x = z
  BY <1>3, <1>5, <1>6, SeqEqual
<1> QED BY <1>7 DEF x, y, z, b, n

(* Between them.                                                            *)
LEMMA CutBetween ==
  ASSUME NEW s \in Seq(Byte), NEW t \in Seq(Byte)
  PROVE  SubSeq(s \o t, Len(s) + 1, Len(s \o t)) = t
<1>1. /\ s \o t \in Seq(Byte) /\ Len(s) \in Nat /\ Len(t) \in Nat
      /\ Len(s \o t) = Len(s) + Len(t)
      /\ \A i \in 1 .. Len(s) + Len(t) :
           (s \o t)[i] = IF i <= Len(s) THEN s[i] ELSE t[i - Len(s)]
  BY ConcatProperties, LenProperties
<1> DEFINE b == s \o t
           n == Len(s) + 1
           x == SubSeq(b, n, Len(b))
<1>2. n \in 1 .. Len(b) + 1 /\ Len(b) - n + 1 = Len(t)
  BY <1>1
<1>3. /\ x \in Seq(Byte) /\ Len(x) = Len(b) - n + 1
      /\ \A i \in 1 .. Len(b) - n + 1 : x[i] = b[n + i - 1]
  <2>1. b \in Seq(Byte)
    BY <1>1
  <2> HIDE DEF b, n
  <2> QED BY <1>2, <2>1, Suffix
<1>4. ASSUME NEW i \in 1 .. Len(t)
      PROVE  x[i] = t[i]
  <2>1. /\ n + i - 1 \in 1 .. Len(s) + Len(t) /\ ~ (n + i - 1 <= Len(s))
        /\ (n + i - 1) - Len(s) = i
    BY <1>1
  <2>2. b[n + i - 1] = t[i]
    BY <1>1, <2>1
  <2> HIDE DEF b, n, x
  <2> QED BY <1>2, <1>3, <2>2
<1> HIDE DEF b, n, x
<1>5. x = t
  BY <1>2, <1>3, <1>4, SeqEqual
<1> QED BY <1>5 DEF x, b, n

(* Where the messages with channels stand in two lists made one.            *)
LEMMA RcConcat ==
  ASSUME NEW s \in Seq(Messages), NEW t \in Seq(Messages)
  PROVE  /\ Rc(s) \subseteq 1 .. Len(s) /\ Rc(t) \subseteq 1 .. Len(t)
         /\ \A p \in Rc(s \o t) :
              \/ p \in Rc(s) /\ (s \o t)[p] = s[p]
              \/ p - Len(s) \in Rc(t) /\ (s \o t)[p] = t[p - Len(s)]
         /\ \A i \in Rc(s) : i \in Rc(s \o t)
         /\ \A i \in Rc(t) : Len(s) + i \in Rc(s \o t)
<1> DEFINE b == s \o t
<1>1. /\ b \in Seq(Messages)
      /\ Len(b) = Len(s) + Len(t)
      /\ \A i \in 1 .. Len(s) + Len(t) :
           b[i] = IF i <= Len(s) THEN s[i] ELSE t[i - Len(s)]
  BY ConcatProperties
<1> HIDE DEF b
<1>2. /\ Len(s) \in Nat /\ Len(t) \in Nat
      /\ DOMAIN s = 1 .. Len(s) /\ DOMAIN t = 1 .. Len(t)
      /\ DOMAIN b = 1 .. Len(s) + Len(t)
  BY <1>1, LenProperties
<1>3. Rc(s) \subseteq 1 .. Len(s) /\ Rc(t) \subseteq 1 .. Len(t)
  BY <1>2 DEF Rc
<1>4. ASSUME NEW p \in Rc(b)
      PROVE  \/ p \in Rc(s) /\ b[p] = s[p]
             \/ p - Len(s) \in Rc(t) /\ b[p] = t[p - Len(s)]
  <2>1. p \in 1 .. Len(s) + Len(t) /\ b[p].kind = "rc"
    BY <1>2 DEF Rc
  <2>2. CASE p <= Len(s)
    BY <1>1, <1>2, <2>1, <2>2 DEF Rc
  <2>3. CASE ~ (p <= Len(s))
    <3>1. p - Len(s) \in 1 .. Len(t) /\ b[p] = t[p - Len(s)]
      BY <1>1, <1>2, <2>1, <2>3
    <3> QED BY <1>2, <2>1, <3>1 DEF Rc
  <2> QED BY <2>2, <2>3
<1>5. ASSUME NEW i \in Rc(s)
      PROVE  i \in Rc(b)
  <2>1. i \in 1 .. Len(s) + Len(t) /\ i <= Len(s) /\ s[i].kind = "rc"
    BY <1>2 DEF Rc
  <2>2. b[i] = s[i]
    BY <1>1, <2>1
  <2> QED BY <1>2, <2>1, <2>2 DEF Rc
<1>6. ASSUME NEW i \in Rc(t)
      PROVE  Len(s) + i \in Rc(b)
  <2>1. /\ Len(s) + i \in 1 .. Len(s) + Len(t) /\ ~ (Len(s) + i <= Len(s))
        /\ (Len(s) + i) - Len(s) = i /\ t[i].kind = "rc"
    BY <1>2 DEF Rc
  <2>2. b[Len(s) + i] = t[i]
    BY <1>1, <2>1
  <2> QED BY <1>2, <2>1, <2>2 DEF Rc
<1> QED BY <1>3, <1>4, <1>5, <1>6 DEF b

-----------------------------------------------------------------------------
(* crsf_parse_buffer, on a buffer that begins with a frame or with its      *)
(* first bytes: it waits for the rest, or takes just that frame off.        *)
LEMMA Parsed ==
  ASSUME NEW b \in Seq(Byte), Len(b) \in 1 .. FrameSize, ParseBuffer(b),
         NEW F \in Seq(Byte), Len(F) \in 5 .. FrameSize, FrameLength(F) = Len(F),
         \A i \in 1 .. Len(b) : i <= Len(F) => b[i] = F[i],
         parser_state = "unsynced" => IsRcFrame(F)
  PROVE  IF Len(b) < Len(F)
         THEN /\ frame' = b /\ values' = values
              /\ parser_state' = "unsynced" => parser_state = "unsynced" /\ Len(b) < 3
              /\ parser_state' \in {"unsynced", "synced"}
         ELSE /\ frame' = SubSeq(b, Len(F) + 1, Len(b))
              /\ values' = IF IsValidRc(F) THEN DecodeRc(F) ELSE values
              /\ parser_state' = "synced"
<1> DEFINE l == Len(b)
           m == Len(F)
<1>1. l \in Nat /\ m \in Nat /\ l >= 1 /\ l <= FrameSize /\ m >= 5 /\ m <= FrameSize
  BY SizeAssumption, LenProperties
<1>2. l >= 3 => b[2] = F[2] /\ b[3] = F[3] /\ FrameLength(b) = m
  <2>1. l >= 3 => 2 \in 1 .. l /\ 3 \in 1 .. l /\ 2 <= m /\ 3 <= m
    BY <1>1
  <2> QED BY <2>1 DEF FrameLength
<1>3. ~ IsBogus(b) \/ l < 3
  BY <1>1, <1>2, SizeAssumption DEF IsBogus
<1>4. l >= m => SubSeq(b, 1, m) = F
  <2> HAVE l >= m
  <2>1. m \in 0 .. Len(b)
    BY <1>1
  <2> DEFINE p == SubSeq(b, 1, m)
  <2>2. p \in Seq(Byte) /\ Len(p) = m /\ \A i \in 1 .. m : p[i] = b[i]
    BY <2>1, Prefix
  <2>3. \A i \in 1 .. m : b[i] = F[i]
    BY <1>1
  <2> HIDE DEF p
  <2>4. p = F
    BY <2>2, <2>3, SeqEqual
  <2> QED BY <2>4 DEF p
<1> HIDE DEF l, m
<1>5. ASSUME ParseFrame(b)
      PROVE  /\ parser_state' = "synced"
             /\ IF l < m
                THEN frame' = b /\ values' = values
                ELSE /\ frame' = SubSeq(b, m + 1, l)
                     /\ values' = IF IsValidRc(F) THEN DecodeRc(F) ELSE values
  <2>1. CASE AwaitHeader(b)
    <3>1. l < m
      BY <1>1, <2>1 DEF AwaitHeader, l
    <3> QED BY <2>1, <3>1 DEF AwaitHeader, NothingDecoded
  <2>2. CASE DropBogus(b)
    BY <1>1, <1>3, <2>2 DEF DropBogus, l
  <2>3. CASE AwaitBody(b)
    <3>1. l < m
      BY <1>1, <1>2, <2>3 DEF AwaitBody, l
    <3> QED BY <2>3, <3>1 DEF AwaitBody, NothingDecoded
  <2>4. CASE TakeFrame(b)
    <3>1. ~ (l < m) /\ FrameLength(b) = m
      BY <1>1, <1>2, <2>4 DEF TakeFrame, l
    <3>2. SubSeq(b, 1, FrameLength(b)) = F
      BY <1>1, <1>4, <3>1
    <3>3. values' = IF IsValidRc(F) THEN DecodeRc(F) ELSE values
      BY <2>4, <3>2 DEF TakeFrame, NothingDecoded
    <3>4. frame' = SubSeq(b, m + 1, l) /\ parser_state' = "synced"
      BY <2>4, <3>1 DEF TakeFrame, l
    <3> QED BY <3>1, <3>3, <3>4
  <2> QED BY <1>5, <2>1, <2>2, <2>3, <2>4 DEF ParseFrame
<1>6. CASE Continue(b)
  BY <1>5, <1>6 DEF Continue, l, m
<1>7. ASSUME parser_state = "unsynced", l >= 3
      PROVE  2 \in HeaderPositions(b)
  <2>1. 2 \in 2 .. l - 1
    BY <1>1, <1>7
  <2>2. b[2] = RcLength /\ b[2 + 1] = RcType
    BY <1>2, <1>7 DEF IsRcFrame
  <2> QED BY <2>1, <2>2 DEF HeaderPositions, HeaderAt, l
<1>8. CASE Unrecognised(b)
  <2>1. l < 3 /\ parser_state = "unsynced"
    BY <1>1, <1>7, <1>8 DEF Unrecognised
  <2>2. l < m /\ ~ (l >= FrameSize)
    BY <1>1, <2>1, SizeAssumption
  <2> QED BY <1>8, <2>1, <2>2 DEF Unrecognised, NothingDecoded, l, m
<1>9. CASE Synchronise(b)
  <2>1. PICK j \in HeaderPositions(b) :
          IsFirstHeader(b, j) /\ ParseFrame(SubSeq(b, j - 1, l))
    BY <1>9 DEF Synchronise, l
  <2>2. j \in 2 .. l - 1 /\ parser_state = "unsynced"
    BY <1>9, <2>1 DEF HeaderPositions, Synchronise, l
  <2>3. j = 2
    <3>1. 2 \in HeaderPositions(b)
      BY <1>1, <1>7, <2>2
    <3>2. j <= 2
      BY <2>1, <3>1 DEF IsFirstHeader
    <3> QED BY <1>1, <2>2, <3>2
  <2>4. SubSeq(b, j - 1, l) = b
    <3>1. j - 1 = 1
      BY <2>3
    <3> QED BY <3>1, SubSeqFull DEF l
  <2> QED BY <1>5, <2>1, <2>4 DEF l, m
<1> QED BY <1>6, <1>8, <1>9 DEF ParseBuffer

-----------------------------------------------------------------------------
(* The invariant of the line.                                               *)

MixedTypeOK ==
  /\ frame \in Seq(Byte) /\ BufferNotFull
  /\ input \in Seq(Byte)
  /\ parser_state \in {"unsynced", "synced"}
  /\ queue \in Seq(Messages) /\ waiting \in Seq(Messages)
  /\ taken \in Nat

\* Of the first message on the line not all is read.
PartlyRead ==
  IF queue = <<>> THEN taken = 0 ELSE taken < Len(Frame[queue[1]])

\* What the parser has not taken is the frames that wait, and what is read of
\* the next one.
Received == frame \o input = Line(waiting) \o SubSeq(Line(queue), 1, taken)

\* An unsynced parser has an RC frame before it.
StartsWithRc ==
  parser_state = "unsynced" =>
    /\ Len(frame) < 3
    /\ waiting \o queue # <<>>
    /\ (waiting \o queue)[1].kind = "rc"

\* The last message with channels is the last of those that wait, or decoded.
HeardLast ==
  /\ Rc(waiting) = {} => values = LastHeard
  /\ \A i \in Rc(waiting) :
       (\A j \in Rc(waiting) : j <= i) => heard = <<waiting[i]>>
  /\ input = <<>> => Rc(waiting) = {}

MixedInv ==
  MixedTypeOK /\ PartlyRead /\ Received /\ StartsWithRc /\ HeardLast

(* What of the line is taken is within it.                                  *)
LEMMA TakenWithin ==
  ASSUME MixedTypeOK, PartlyRead
  PROVE  taken \in 0 .. Len(Line(queue))
<1>1. taken \in Nat /\ queue \in Seq(Messages) /\ Len(Line(queue)) \in Nat
  BY LineTyped DEF MixedTypeOK
<1>2. CASE queue = <<>>
  <2>1. taken = 0
    BY <1>2 DEF PartlyRead
  <2> QED BY <1>1, <2>1
<1>3. CASE queue # <<>>
  <2>1. 1 \in 1 .. Len(queue)
    BY <1>1, <1>3, EmptySeq
  <2>2. queue[1] \in Messages /\ Len(Line(queue)) >= Len(Frame[queue[1]])
    BY <1>1, <2>1, LineHolds
  <2>3. Len(Frame[queue[1]]) \in Nat
    BY <2>2, FrameFacts, LenProperties
  <2>4. taken < Len(Frame[queue[1]])
    BY <1>3 DEF PartlyRead
  <2> QED BY <1>1, <2>2, <2>3, <2>4
<1> QED BY <1>2, <1>3

(* The first message of a sequence.                                         *)
LEMMA FirstOf ==
  ASSUME NEW s \in Seq(Messages), NEW t \in Seq(Messages)
  PROVE  /\ s # <<>> => s \o t # <<>> /\ (s \o t)[1] = s[1]
         /\ s = <<>> => s \o t = t
         /\ s # <<>> => s[1] \in Messages
<1>1. ASSUME s # <<>>
      PROVE  s \o t # <<>> /\ (s \o t)[1] = s[1] /\ s[1] \in Messages
  <2>1. Len(s) \in Nat \ {0} /\ Len(t) \in Nat
    BY <1>1, EmptySeq, LenProperties
  <2>2. s \o t # <<>>
    BY <1>1, ConcatEqualIffEmpty
  <2>3. 1 \in 1 .. Len(s) + Len(t) /\ 1 <= Len(s) /\ 1 \in 1 .. Len(s)
    BY <2>1
  <2>4. (s \o t)[1] = s[1]
    BY <2>3, ConcatProperties
  <2> QED BY <2>2, <2>3, <2>4, ElementOfSeq
<1>2. s = <<>> => s \o t = t
  BY ConcatEmptySeq
<1> QED BY <1>1, <1>2

(* The line begins with channels, and nothing of them is read.              *)
LEMMA InitMixedInv == MixedInit => MixedInv
<1> SUFFICES ASSUME MixedInit PROVE MixedInv
  OBVIOUS
<1>1. PICK m \in Messages : queue = <<m>> /\ m.kind = "rc"
  BY DEF MixedInit
<1>2. /\ frame = <<>> /\ input = <<>> /\ parser_state = "unsynced" /\ values = Zero
      /\ taken = 0 /\ waiting = <<>> /\ heard = <<>>
  BY DEF MixedInit, ParserInit
<1>3. queue \in Seq(Messages) /\ queue # <<>> /\ queue[1] = m
  BY <1>1
<1>4. MixedTypeOK
  <2>1. <<>> \in Seq(Byte) /\ <<>> \in Seq(Messages) /\ Len(<<>>) = 0
    BY EmptySeq
  <2> QED BY <1>2, <1>3, <2>1, SizeAssumption DEF MixedTypeOK, BufferNotFull, Kept
<1>5. PartlyRead
  <2>1. Len(Frame[m]) > 0
    BY FrameFacts, SizeAssumption
  <2> QED BY <1>2, <1>3, <2>1 DEF PartlyRead
<1>6. Received
  <2>1. SubSeq(Line(queue), 1, 0) = <<>>
    BY SubSeqEmpty
  <2> QED BY <1>2, <2>1, LineEmpty DEF Received
<1>7. StartsWithRc
  <2>1. waiting \o queue = queue
    BY <1>2, <1>3, ConcatEmptySeq
  <2>2. Len(frame) < 3
    BY <1>2, EmptySeq
  <2> QED BY <1>1, <1>3, <2>1, <2>2 DEF StartsWithRc
<1>8. HeardLast
  <2>1. Rc(waiting) = {}
    BY <1>2 DEF Rc
  <2> QED BY <1>2, <2>1 DEF HeardLast, LastHeard
<1> QED BY <1>4, <1>5, <1>6, <1>7, <1>8 DEF MixedInv

(* What is sent comes behind what is on the line.                           *)
LEMMA SendInv ==
  ASSUME MixedInv, Send
  PROVE  MixedInv'
<1>1. PICK m \in Messages : queue' = Append(queue, m)
  BY DEF Send
<1>2. /\ frame' = frame /\ input' = input /\ parser_state' = parser_state
      /\ values' = values /\ taken' = taken /\ waiting' = waiting /\ heard' = heard
  BY DEF Send, parserVars
<1>3. MixedTypeOK /\ PartlyRead
  BY DEF MixedInv
<1>4. /\ queue \in Seq(Messages) /\ waiting \in Seq(Messages)
      /\ Len(queue) \in Nat
      /\ queue' \in Seq(Messages) /\ queue' # <<>>
      /\ \A i \in 1 .. Len(queue) : queue'[i] = queue[i]
      /\ queue'[Len(queue) + 1] = m
  BY <1>1, <1>3, AppendProperties, LenProperties DEF MixedTypeOK
<1>5. MixedTypeOK'
  BY <1>2, <1>3, <1>4 DEF MixedTypeOK, BufferNotFull
<1>6. PartlyRead'
  <2>1. CASE queue = <<>>
    <3>1. taken' = 0 /\ queue'[1] = m
      <4>1. Len(queue) = 0
        BY <2>1, EmptySeq
      <4>2. 0 + 1 = 1
        OBVIOUS
      <4> QED BY <1>2, <1>3, <1>4, <2>1, <4>1, <4>2 DEF PartlyRead
    <3>2. 0 < Len(Frame[m])
      BY FrameFacts, SizeAssumption
    <3> QED BY <1>4, <3>1, <3>2 DEF PartlyRead
  <2>2. CASE queue # <<>>
    <3>1. queue'[1] = queue[1]
      BY <1>4, <2>2, EmptySeq
    <3> QED BY <1>2, <1>3, <1>4, <2>2, <3>1 DEF PartlyRead
  <2> QED BY <2>1, <2>2
<1>7. Received'
  <2>1. taken \in 0 .. Len(Line(queue))
    BY <1>3, TakenWithin
  <2>2. Line(queue) \in Seq(Byte) /\ Frame[m] \in Seq(Byte)
    BY <1>4, LineTyped, FrameFacts
  <2>3. Line(queue') = Line(queue) \o Frame[m]
    BY <1>1, <1>4, LineAppend
  <2>4. SubSeq(Line(queue'), 1, taken) = SubSeq(Line(queue), 1, taken)
    BY <2>1, <2>2, <2>3, CutInFirst
  <2>5. Received
    BY DEF MixedInv
  <2>6. frame \o input = Line(waiting) \o SubSeq(Line(queue'), 1, taken)
    BY <2>4, <2>5 DEF Received
  <2> QED BY <1>2, <2>6 DEF Received
<1>8. StartsWithRc'
  <2>1. ASSUME parser_state = "unsynced"
        PROVE  waiting \o queue' # <<>> /\ (waiting \o queue')[1].kind = "rc"
    <3>1. waiting \o queue # <<>> /\ (waiting \o queue)[1].kind = "rc"
      BY <2>1 DEF MixedInv, StartsWithRc
    <3>2. waiting \o queue' = (waiting \o queue) \o <<m>>
      <4>1. queue' = queue \o <<m>> /\ <<m>> \in Seq(Messages)
        BY <1>1, <1>4, AppendIsConcat
      <4> QED BY <1>4, <4>1, ConcatAssociative
    <3>3. waiting \o queue \in Seq(Messages) /\ <<m>> \in Seq(Messages)
      BY <1>4, ConcatProperties
    <3> QED BY <3>1, <3>2, <3>3, FirstOf
  <2>2. StartsWithRc
    BY DEF MixedInv
  <2> QED BY <1>2, <2>1, <2>2 DEF StartsWithRc
<1>9. HeardLast'
  BY <1>2 DEF MixedInv, HeardLast, LastHeard
<1> QED BY <1>5, <1>6, <1>7, <1>8, <1>9 DEF MixedInv

(* What is read waits behind what is in the buffer.                         *)
LEMMA ReceiveInv ==
  ASSUME MixedInv, Receive
  PROVE  MixedInv'
<1> DEFINE read(i) == Len(Line(SubSeq(queue, 1, i)))
<1>1. PICK n \in Chunks : \E k \in 0 .. Len(queue) :
        /\ taken + n <= read(Len(queue))
        /\ read(k) <= taken + n
        /\ k < Len(queue) => taken + n < read(k + 1)
        /\ Call(SubSeq(Line(queue), taken + 1, taken + n))
        /\ queue' = SubSeq(queue, k + 1, Len(queue))
        /\ taken' = taken + n - read(k)
        /\ waiting' = waiting \o SubSeq(queue, 1, k)
        /\ Note(SubSeq(queue, 1, k))
  BY DEF Receive
<1>2. PICK k \in 0 .. Len(queue) :
        /\ taken + n <= read(Len(queue))
        /\ read(k) <= taken + n
        /\ k < Len(queue) => taken + n < read(k + 1)
        /\ Call(SubSeq(Line(queue), taken + 1, taken + n))
        /\ queue' = SubSeq(queue, k + 1, Len(queue))
        /\ taken' = taken + n - read(k)
        /\ waiting' = waiting \o SubSeq(queue, 1, k)
        /\ Note(SubSeq(queue, 1, k))
  BY <1>1
<1> DEFINE q == SubSeq(queue, 1, k)
           r == SubSeq(queue, k + 1, Len(queue))
           l == Line(queue)
           c == SubSeq(l, taken + 1, taken + n)
           d == taken + n - Len(Line(q))
<1>3. /\ MixedTypeOK /\ PartlyRead
      /\ frame \in Seq(Byte) /\ queue \in Seq(Messages) /\ waiting \in Seq(Messages)
      /\ taken \in Nat /\ n \in Nat /\ n >= 1 /\ n <= ReadSize
  BY ChunksAssumption, SizeAssumption DEF MixedInv, MixedTypeOK
<1>4. /\ q \in Seq(Messages) /\ r \in Seq(Messages)
      /\ Len(q) = k /\ Len(r) = Len(queue) - k
      /\ \A i \in 1 .. Len(queue) - k : r[i] = queue[k + i]
      /\ queue = q \o r
      /\ l = Line(q) \o Line(r)
  BY <1>3, LineSplit
<1>5. /\ l \in Seq(Byte) /\ Line(q) \in Seq(Byte) /\ Line(r) \in Seq(Byte)
      /\ Line(waiting) \in Seq(Byte)
      /\ Len(l) \in Nat /\ Len(Line(q)) \in Nat /\ Len(Line(r)) \in Nat
      /\ Len(queue) \in Nat
  BY <1>3, <1>4, LineTyped, LenProperties
<1>6. Len(l) = Len(Line(q)) + Len(Line(r))
  BY <1>4, <1>5, ConcatProperties
<1>7. taken + n <= Len(l) /\ Len(Line(q)) <= taken + n
  <2>1. SubSeq(queue, 1, Len(queue)) = queue
    BY <1>3, SubSeqFull
  <2> QED BY <1>2, <2>1
<1>8. d \in 0 .. Len(Line(r)) /\ Len(Line(q)) + d = taken + n
  BY <1>3, <1>5, <1>6, <1>7
<1>9. /\ queue' = r /\ waiting' = waiting \o q /\ taken' = d
      /\ input = <<>> /\ input' = c /\ frame' = frame
      /\ parser_state' = parser_state /\ values' = values
      /\ Note(q)
  BY <1>2 DEF Call
<1>10. k < Len(queue) => /\ r # <<>> /\ r[1] \in Messages
                         /\ d < Len(Frame[r[1]])
  <2> HAVE k < Len(queue)
  <2>1. /\ k + 1 \in 1 .. Len(queue) /\ 1 \in 1 .. Len(queue) - k
        /\ k + 1 \in 1 .. k + 1 /\ 1 \in 1 .. Len(queue) /\ Len(r) # 0
    BY <1>4, <1>5
  <2>2. r # <<>> /\ r[1] = queue[k + 1] /\ queue[k + 1] \in Messages
    <3>1. r[1] = queue[k + 1]
      BY <1>4, <2>1
    <3>2. r # <<>>
      BY <2>1, EmptySeq
    <3>3. queue[k + 1] \in Messages
      BY <1>3, <2>1, ElementOfSeq
    <3> QED BY <3>1, <3>2, <3>3
  <2>3. SubSeq(queue, 1, k + 1) = Append(q, queue[k + 1])
    <3>1. SubSeq(queue, 1, k + 1) = SubSeq(queue, 1, (k + 1) - 1) \o <<queue[k + 1]>>
      BY <1>3, <2>1, SubSeqRecursiveSecond
    <3>2. (k + 1) - 1 = k
      OBVIOUS
    <3>3. Append(q, queue[k + 1]) = q \o <<queue[k + 1]>>
      BY <1>4, <2>2, AppendIsConcat
    <3> QED BY <3>1, <3>2, <3>3
  <2> HIDE DEF r
  <2>4. Line(SubSeq(queue, 1, k + 1)) = Line(q) \o Frame[queue[k + 1]]
    BY <1>4, <2>2, <2>3, LineAppend
  <2>5. Frame[queue[k + 1]] \in Seq(Byte) /\ Len(Frame[queue[k + 1]]) \in Nat
    BY <2>2, FrameFacts, LenProperties
  <2>6. Len(Line(q) \o Frame[queue[k + 1]]) = Len(Line(q)) + Len(Frame[queue[k + 1]])
    BY <1>5, <2>5, ConcatProperties
  <2>7. taken + n < Len(Line(q) \o Frame[queue[k + 1]])
    BY <1>2, <2>4
  <2>8. d < Len(Frame[queue[k + 1]])
    <3> HIDE DEF d, q, read
    <3> QED BY <1>3, <1>5, <1>8, <2>5, <2>6, <2>7
  <2> QED BY <2>2, <2>8
<1>11. c \in Seq(Byte) /\ Len(c) = n
  <2>1. \A i \in taken + 1 .. taken + n : l[i] \in Byte
    BY <1>3, <1>5, <1>7, ElementOfSeq
  <2>2. taken + 1 \in Int /\ taken + n \in Int /\ taken + 1 <= taken + n
        /\ (taken + n) - (taken + 1) + 1 = n
    BY <1>3
  <2> HIDE DEF l
  <2>3. /\ c \in Seq(Byte)
        /\ Len(c) = IF taken + 1 <= taken + n THEN (taken + n) - (taken + 1) + 1 ELSE 0
    BY <2>1, <2>2, SubSeqProperties
  <2> QED BY <2>2, <2>3
<1>12. frame \o c = Line(waiting \o q) \o SubSeq(Line(r), 1, d)
  <2> DEFINE x == SubSeq(l, 1, taken)
             y == SubSeq(Line(r), 1, d)
  <2>1. frame = Line(waiting) \o x
    <3>1. frame \o input = Line(waiting) \o x
      BY DEF MixedInv, Received
    <3> QED BY <1>3, <1>9, <3>1, ConcatEmptySeq
  <2>2. taken \in 0 .. Len(l)
    BY <1>3, TakenWithin
  <2>3. x \in Seq(Byte)
    <3> HIDE DEF l
    <3> QED BY <1>5, <2>2, Prefix
  <2>4. y \in Seq(Byte)
    BY <1>5, <1>8, Prefix
  <2>5. x \o c = SubSeq(l, 1, taken + n)
    <3>1. /\ 1 \in 1 .. Len(l) + 1 /\ taken \in 1 - 1 .. Len(l)
          /\ taken + n \in taken .. Len(l)
      BY <1>3, <1>5, <1>7, <2>2
    <3> HIDE DEF l
    <3> QED BY <1>5, <3>1, ConcatAdjacentSubSeq
  <2>6. SubSeq(l, 1, taken + n) = Line(q) \o y
    <3>1. SubSeq(Line(q) \o Line(r), 1, Len(Line(q)) + d) = Line(q) \o y
      <4> HIDE DEF d, q, r
      <4> QED BY <1>5, <1>8, CutInSecond
    <3> QED BY <1>4, <1>8, <3>1
  <2>7. Line(waiting \o q) = Line(waiting) \o Line(q)
    BY <1>3, <1>4, LineConcat
  <2>0. ASSUME NEW s \in Seq(Byte), NEW t \in Seq(Byte), NEW u \in Seq(Byte)
        PROVE  (s \o t) \o u = s \o (t \o u)
    BY ConcatAssociative
  <2> HIDE DEF x, y, c, q, l
  <2>8. (Line(waiting) \o x) \o c = Line(waiting) \o (x \o c)
    BY <1>5, <1>11, <2>0, <2>3
  <2>9. (Line(waiting) \o Line(q)) \o y = Line(waiting) \o (Line(q) \o y)
    BY <1>5, <2>0, <2>4
  <2> QED BY <2>1, <2>5, <2>6, <2>7, <2>8, <2>9 DEF y
<1> HIDE DEF c, d, q, r, l
<1>13. c # <<>>
  BY <1>3, <1>11, EmptySeq
<1>14. MixedTypeOK'
  <2>1. waiting' \in Seq(Messages)
    BY <1>3, <1>4, <1>9, ConcatProperties
  <2> QED BY <1>3, <1>4, <1>8, <1>9, <1>11, <2>1 DEF MixedTypeOK, BufferNotFull
<1>15. PartlyRead'
  <2>1. CASE k < Len(queue)
    BY <1>9, <1>10, <2>1 DEF PartlyRead
  <2>2. CASE ~ (k < Len(queue))
    <3>1. Len(r) = 0
      BY <1>4, <1>5, <2>2
    <3>2. r = <<>>
      BY <1>4, <3>1, EmptySeq
    <3>3. d = 0
      <4>1. Len(Line(r)) = 0
        BY <3>2, LineEmpty, EmptySeq
      <4> QED BY <1>8, <4>1
    <3> QED BY <1>9, <3>2, <3>3 DEF PartlyRead
  <2> QED BY <2>1, <2>2
<1>16. Received'
  BY <1>9, <1>12 DEF Received
<1>17. StartsWithRc'
  <2>1. waiting' \o queue' = waiting \o queue
    BY <1>3, <1>4, <1>9, ConcatAssociative
  <2> QED BY <1>9, <2>1 DEF MixedInv, StartsWithRc
<1>18. HeardLast'
  <2>1. Rc(waiting) = {} /\ values = LastHeard
    BY <1>9 DEF MixedInv, HeardLast
  <2>2. /\ \A p \in Rc(waiting \o q) :
             p - Len(waiting) \in Rc(q) /\ (waiting \o q)[p] = q[p - Len(waiting)]
        /\ \A i \in Rc(q) : Len(waiting) + i \in Rc(waiting \o q)
        /\ Rc(q) \subseteq 1 .. Len(q)
    <3>1. /\ Rc(q) \subseteq 1 .. Len(q)
          /\ \A p \in Rc(waiting \o q) :
               \/ p \in Rc(waiting)
               \/ p - Len(waiting) \in Rc(q) /\ (waiting \o q)[p] = q[p - Len(waiting)]
          /\ \A i \in Rc(q) : Len(waiting) + i \in Rc(waiting \o q)
      BY <1>3, <1>4, RcConcat
    <3> QED BY <2>1, <3>1
  <2>3. CASE Rc(q) = {} /\ heard' = heard
    <3>1. Rc(waiting') = {}
      BY <1>9, <2>2, <2>3
    <3> QED BY <1>9, <2>1, <2>3, <3>1 DEF HeardLast, LastHeard
  <2>4. CASE \E i \in Rc(q) : (\A j \in Rc(q) : j <= i) /\ heard' = <<q[i]>>
    <3>1. PICK i \in Rc(q) : (\A j \in Rc(q) : j <= i) /\ heard' = <<q[i]>>
      BY <2>4
    <3>2. Len(waiting) + i \in Rc(waiting')
      BY <1>9, <2>2
    <3>3. ASSUME NEW p \in Rc(waiting'), \A j \in Rc(waiting') : j <= p
          PROVE  heard' = <<waiting'[p]>>
      <4>1. /\ p - Len(waiting) \in Rc(q)
            /\ waiting'[p] = q[p - Len(waiting)]
        BY <1>9, <2>2
      <4>2. Len(waiting) + i <= p /\ p - Len(waiting) <= i
        BY <3>1, <3>2, <3>3, <4>1
      <4>3. Len(waiting) \in Nat /\ i \in Int /\ p \in Int
        <5>1. Len(waiting) \in Nat /\ Len(q) \in Nat /\ Len(waiting') \in Nat
          BY <1>3, <1>4, <1>14, LenProperties DEF MixedTypeOK
        <5>2. DOMAIN waiting' = 1 .. Len(waiting')
          BY <1>14, LenProperties DEF MixedTypeOK
        <5> QED BY <2>2, <5>1, <5>2 DEF Rc
      <4>4. p - Len(waiting) = i
        BY <4>2, <4>3
      <4> QED BY <3>1, <4>1, <4>4
    <3> QED BY <1>9, <1>13, <3>2, <3>3 DEF HeardLast
  <2> QED BY <1>9, <2>3, <2>4 DEF Note
<1> QED BY <1>14, <1>15, <1>16, <1>17, <1>18 DEF MixedInv

(* The frame that comes first of what the parser has not taken.             *)
LEMMA Ahead ==
  ASSUME MixedInv, input # <<>>
  PROVE  LET b == frame \o input
             m == (waiting \o queue)[1]
         IN  /\ m \in Messages
             /\ \A i \in 1 .. Len(b) : i <= Len(Frame[m]) => b[i] = Frame[m][i]
             /\ waiting = <<>> => Len(b) < Len(Frame[m])
             /\ waiting # <<>> =>
                  /\ m = waiting[1]
                  /\ LET tail == SubSeq(waiting, 2, Len(waiting))
                         t == Line(tail) \o SubSeq(Line(queue), 1, taken)
                     IN  /\ tail \in Seq(Messages)
                         /\ t \in Seq(Byte)
                         /\ Len(t) >= Len(Line(tail))
                         /\ b = Frame[m] \o t
<1> DEFINE b == frame \o input
           m == (waiting \o queue)[1]
           y == SubSeq(Line(queue), 1, taken)
           tail == SubSeq(waiting, 2, Len(waiting))
           t == Line(tail) \o y
<1>1. /\ frame \in Seq(Byte) /\ input \in Seq(Byte)
      /\ queue \in Seq(Messages) /\ waiting \in Seq(Messages)
      /\ MixedTypeOK /\ PartlyRead
  BY DEF MixedInv, MixedTypeOK
<1>2. /\ Line(queue) \in Seq(Byte) /\ Len(Line(queue)) \in Nat
      /\ Line(waiting) \in Seq(Byte)
  BY <1>1, LineTyped
<1>3. taken \in 0 .. Len(Line(queue)) /\ taken \in Nat
  BY <1>1, <1>2, TakenWithin
<1>4. y \in Seq(Byte) /\ Len(y) = taken /\ \A i \in 1 .. taken : y[i] = Line(queue)[i]
  BY <1>2, <1>3, Prefix
<1>5. b = Line(waiting) \o y
  BY DEF MixedInv, Received
<1>6. b # <<>> /\ b \in Seq(Byte)
  BY <1>1, ConcatProperties, ConcatEqualIffEmpty
<1> HIDE DEF b, y
<1>7. CASE waiting = <<>>
  <2>1. b = y
    BY <1>4, <1>5, <1>7, LineEmpty, ConcatEmptySeq
  <2>2. queue # <<>>
    <3>1. ASSUME queue = <<>> PROVE FALSE
      <4>1. Len(b) = 0
        BY <1>1, <1>4, <2>1, <3>1 DEF PartlyRead
      <4> QED BY <1>6, <4>1, EmptySeq
    <3> QED BY <3>1
  <2>3. m = queue[1]
    BY <1>1, <1>7, FirstOf
  <2> DEFINE r == SubSeq(queue, 2, Len(queue))
  <2>4. /\ queue[1] \in Messages /\ r \in Seq(Messages)
        /\ Line(queue) = Frame[queue[1]] \o Line(r)
    BY <1>1, <2>2, LineHead
  <2> HIDE DEF r, m
  <2>5. /\ Frame[m] \in Seq(Byte) /\ Line(r) \in Seq(Byte)
        /\ Len(Frame[m]) \in Nat /\ Len(Line(r)) \in Nat
    BY <2>3, <2>4, FrameFacts, LineTyped, LenProperties
  <2>6. taken < Len(Frame[m])
    BY <1>1, <2>2, <2>3 DEF PartlyRead
  <2>7. ASSUME NEW i \in 1 .. taken
        PROVE  b[i] = Frame[m][i]
    <3>1. i \in 1 .. Len(Frame[m]) + Len(Line(r)) /\ i <= Len(Frame[m])
      BY <1>3, <2>5, <2>6
    <3>2. Line(queue)[i] = Frame[m][i]
      BY <2>3, <2>4, <2>5, <3>1, ConcatProperties
    <3> QED BY <1>4, <2>1, <3>2
  <2>8. /\ m \in Messages /\ Len(b) < Len(Frame[m])
        /\ \A i \in 1 .. Len(b) : b[i] = Frame[m][i]
    BY <1>4, <2>1, <2>3, <2>4, <2>6, <2>7
  <2> QED BY <1>7, <2>8 DEF b, m
<1>8. CASE waiting # <<>>
  <2>1. m = waiting[1]
    BY <1>1, <1>8, FirstOf
  <2>2. /\ waiting[1] \in Messages /\ tail \in Seq(Messages)
        /\ Line(waiting) = Frame[waiting[1]] \o Line(tail)
    BY <1>1, <1>8, LineHead
  <2> HIDE DEF m, tail
  <2>3. /\ Frame[m] \in Seq(Byte) /\ Line(tail) \in Seq(Byte)
        /\ Len(Frame[m]) \in Nat /\ Len(Line(tail)) \in Nat
    BY <2>1, <2>2, FrameFacts, LineTyped, LenProperties
  <2>4. t \in Seq(Byte) /\ Len(t) = Len(Line(tail)) + Len(y)
    BY <1>4, <2>3, ConcatProperties
  <2>5. b = Frame[m] \o t
    <3>1. ASSUME NEW u \in Seq(Byte), NEW v \in Seq(Byte), NEW w \in Seq(Byte)
          PROVE  (u \o v) \o w = u \o (v \o w)
      BY ConcatAssociative
    <3>2. b = (Frame[m] \o Line(tail)) \o y
      BY <1>5, <2>1, <2>2
    <3>3. (Frame[m] \o Line(tail)) \o y = Frame[m] \o (Line(tail) \o y)
      BY <1>4, <2>3, <3>1
    <3> QED BY <3>2, <3>3
  <2> HIDE DEF t
  <2>6. ASSUME NEW i \in 1 .. Len(b), i <= Len(Frame[m])
        PROVE  b[i] = Frame[m][i]
    <3>1. Len(t) \in Nat /\ Len(b) = Len(Frame[m]) + Len(t)
      BY <2>3, <2>4, <2>5, ConcatProperties, LenProperties
    <3>2. i \in 1 .. Len(Frame[m]) + Len(t)
      BY <3>1
    <3> QED BY <2>3, <2>4, <2>5, <2>6, <3>2, ConcatProperties
  <2>7. Len(t) >= Len(Line(tail))
    BY <1>3, <1>4, <2>3, <2>4
  <2>8. m \in Messages
    BY <2>1, <2>2
  <2> QED BY <1>8, <2>1, <2>2, <2>4, <2>5, <2>6, <2>7, <2>8 DEF b, m, t, tail, y
<1> QED BY <1>7, <1>8

(* The frame taken off, the rest of what waits goes on.                     *)
LEMMA HeardTaken ==
  ASSUME HeardLast, waiting \in Seq(Messages), waiting # <<>>,
         waiting' = SubSeq(waiting, 2, Len(waiting)), heard' = heard,
         values' = IF IsValidRc(Frame[waiting[1]])
                   THEN DecodeRc(Frame[waiting[1]]) ELSE values
  PROVE  /\ Rc(waiting') = {} => values' = LastHeard'
         /\ \A i \in Rc(waiting') :
              (\A j \in Rc(waiting') : j <= i) => heard' = <<waiting'[i]>>
<1> DEFINE w == waiting
           v == waiting'
           n == Len(waiting)
<1>1. n \in Nat /\ n >= 1 /\ DOMAIN w = 1 .. n /\ w[1] \in Messages
  BY EmptySeq, LenProperties, LineHead
<1>2. /\ v \in Seq(Messages) /\ Len(v) = n - 1 /\ DOMAIN v = 1 .. n - 1
      /\ \A i \in 1 .. n - 1 : v[i] = w[i + 1]
  <2>1. 1 \in 0 .. Len(w) /\ 1 + 1 = 2
    BY <1>1
  <2>2. /\ v \in Seq(Messages) /\ Len(v) = n - 1
        /\ \A i \in 1 .. n - 1 : v[i] = w[1 + i]
    <3> DEFINE r == SubSeq(w, 1 + 1, Len(w))
    <3>1. /\ r \in Seq(Messages) /\ Len(r) = Len(w) - 1
          /\ \A i \in 1 .. Len(w) - 1 : r[i] = w[1 + i]
      BY <2>1, LineSplit
    <3>2. v = r
      BY <2>1
    <3> HIDE DEF r, v
    <3> QED BY <3>1, <3>2
  <2>3. DOMAIN v = 1 .. n - 1
    BY <2>2, LenProperties
  <2> QED BY <1>1, <2>2, <2>3
<1> HIDE DEF v, n, w
<1>3. \A i \in Rc(v) : i \in 1 .. n - 1 /\ i + 1 \in Rc(w) /\ v[i] = w[i + 1]
  BY <1>1, <1>2 DEF Rc
<1>4. \A j \in Rc(w) : j \in 1 .. n /\ (j = 1 \/ j - 1 \in Rc(v))
  <2> TAKE j \in Rc(w)
  <2>1. j \in 1 .. n /\ w[j].kind = "rc"
    BY <1>1 DEF Rc
  <2>2. ASSUME j # 1 PROVE j - 1 \in Rc(v)
    <3>1. j - 1 \in 1 .. n - 1 /\ (j - 1) + 1 = j
      BY <1>1, <2>1, <2>2
    <3>2. v[j - 1] = w[j]
      BY <1>2, <3>1
    <3> QED BY <1>2, <2>1, <3>1, <3>2 DEF Rc
  <2> QED BY <2>1, <2>2
<1>5. ASSUME Rc(v) = {}
      PROVE  values' = LastHeard'
  <2>1. LastHeard' = LastHeard
    BY DEF LastHeard
  <2>2. CASE w[1].kind = "rc"
    <3>1. 1 \in Rc(w) /\ \A j \in Rc(w) : j <= 1
      BY <1>1, <1>4, <1>5, <2>2 DEF Rc
    <3>2. heard = <<w[1]>>
      BY <3>1 DEF HeardLast, w
    <3>3. IsValidRc(Frame[w[1]])
      BY <1>1, <2>2, FrameFacts
    <3>4. values' = DecodeRc(Frame[w[1]])
      BY <3>3 DEF w
    <3>5. LastHeard = DecodeRc(Frame[w[1]])
      <4>1. heard # <<>> /\ heard[1] = w[1]
        BY <3>2
      <4> QED BY <4>1 DEF LastHeard
    <3> QED BY <2>1, <3>4, <3>5
  <2>3. CASE w[1].kind # "rc"
    <3>1. Rc(w) = {}
      <4>1. 1 \notin Rc(w)
        BY <2>3 DEF Rc
      <4> QED BY <1>4, <1>5, <4>1
    <3>2. ~ IsValidRc(Frame[w[1]])
      BY <1>1, <2>3, FrameFacts
    <3> QED BY <2>1, <3>1, <3>2 DEF HeardLast, w
  <2> QED BY <2>2, <2>3
<1>6. ASSUME NEW i \in Rc(v), \A j \in Rc(v) : j <= i
      PROVE  heard' = <<v[i]>>
  <2>1. i + 1 \in Rc(w) /\ v[i] = w[i + 1] /\ i \in 1 .. n - 1
    BY <1>3
  <2>2. ASSUME NEW j \in Rc(w) PROVE j <= i + 1
    <3>1. CASE j = 1
      BY <1>1, <2>1, <3>1
    <3>2. CASE j - 1 \in Rc(v)
      BY <1>1, <1>4, <1>6, <2>1, <3>2
    <3> QED BY <1>4, <3>1, <3>2
  <2>3. heard = <<w[i + 1]>>
    BY <2>1, <2>2 DEF HeardLast, w
  <2> QED BY <2>1, <2>3
<1> QED BY <1>5, <1>6 DEF v

(* The parser takes off one frame, or waits for the rest of it.             *)
LEMMA ProcessInv ==
  ASSUME MixedInv, Process
  PROVE  MixedInv'
<1>1. /\ frame \in Seq(Byte) /\ Len(frame) < FrameSize /\ input \in Seq(Byte)
      /\ queue \in Seq(Messages) /\ waiting \in Seq(Messages) /\ taken \in Nat
      /\ MixedTypeOK /\ input # <<>> /\ Iterate
  BY DEF MixedInv, MixedTypeOK, BufferNotFull, Process, Iterate
<1> DEFINE b == frame \o input
           m == (waiting \o queue)[1]
           F == Frame[m]
           N == Len(Filled)
<1>2. /\ CopyLen \in 1 .. Len(input) /\ Len(input) \in Nat /\ Len(frame) \in Nat
      /\ Filled \in Seq(Byte) /\ N \in 1 .. FrameSize /\ N = Len(frame) + CopyLen
      /\ Rest \in Seq(Byte) /\ Len(Rest) = Len(input) - CopyLen
  BY <1>1, Filling, LenProperties
<1>3. ParseBuffer(Filled) /\ input' = Rest
  <2>1. CopyLen # 0
    BY <1>2
  <2> QED BY <1>1, <2>1, Zenon DEF Iterate, Filled, Rest
<1>4. /\ waiting' = SubSeq(waiting, IF TakenOff THEN 2 ELSE 1, Len(waiting))
      /\ queue' = queue /\ taken' = taken /\ heard' = heard
  BY DEF Process
<1>5. /\ m \in Messages
      /\ \A i \in 1 .. Len(b) : i <= Len(F) => b[i] = F[i]
      /\ waiting = <<>> => Len(b) < Len(F)
  BY <1>1, Ahead
<1>6. /\ F \in Seq(Byte) /\ Len(F) \in 5 .. FrameSize /\ FrameLength(F) = Len(F)
      /\ m.kind = "rc" => IsRcFrame(F)
  <2> HIDE DEF m
  <2> QED BY <1>5, FrameFacts DEF IsValidRc
<1>7. /\ b \in Seq(Byte) /\ Len(b) = Len(frame) + Len(input) /\ N <= Len(b)
      /\ \A i \in 1 .. N : Filled[i] = b[i]
      /\ \A d \in 1 .. N + 1 : /\ SubSeq(Filled, d, N) \in Seq(Byte)
                               /\ Len(SubSeq(Filled, d, N)) = N - d + 1
                               /\ SubSeq(Filled, d, N) \o Rest = SubSeq(b, d, Len(b))
  <2>1. ASSUME NEW d \in 1 .. N + 1, NEW f, f = SubSeq(Filled, d, N)
        PROVE  /\ b \in Seq(Byte) /\ Len(b) = Len(frame) + Len(input) /\ N <= Len(b)
               /\ \A i \in 1 .. N : Filled[i] = b[i]
               /\ f \in Seq(Byte) /\ Len(f) = N - d + 1
               /\ f \o Rest = SubSeq(b, d, Len(b))
    BY <1>1, <2>1, Taking
  <2>2. 1 \in 1 .. N + 1
    BY <1>2, SizeAssumption
  <2> HIDE DEF b, N
  <2> QED BY <2>1, <2>2
<1> HIDE DEF b, m, F, N
<1>8. parser_state = "unsynced" => IsRcFrame(F)
  BY <1>6 DEF MixedInv, StartsWithRc, m
<1>9. FrameSize \in Nat /\ Len(F) \in Nat /\ Len(F) <= FrameSize /\ Len(F) >= 5
      /\ N \in Nat
  BY <1>2, <1>6, SizeAssumption, LenProperties
<1>10. IF N < Len(F)
       THEN /\ frame' = Filled /\ values' = values
            /\ parser_state' = "unsynced" => parser_state = "unsynced" /\ N < 3
            /\ parser_state' \in {"unsynced", "synced"}
       ELSE /\ frame' = SubSeq(Filled, Len(F) + 1, N)
            /\ values' = IF IsValidRc(F) THEN DecodeRc(F) ELSE values
            /\ parser_state' = "synced"
  <2>1. \A i \in 1 .. Len(Filled) : i <= Len(F) => Filled[i] = F[i]
    <3>1. \A i \in 1 .. N : i \in 1 .. Len(b)
      BY <1>2, <1>7, <1>9
    <3> QED BY <1>5, <1>7, <3>1 DEF N, F
  <2>2. Len(Filled) \in 1 .. FrameSize
    BY <1>2 DEF N
  <2> QED BY <1>2, <1>3, <1>6, <1>8, <2>1, <2>2, Parsed DEF N
<1>11. CASE N < Len(F)
  <2>1. Len(Rest) = 0 /\ CopyLen = Len(input) /\ Len(b) = N
    <3>1. CopyLen = Len(input)
      BY <1>1, <1>2, <1>9, <1>11 DEF CopyLen, Room
    <3> QED BY <1>2, <1>7, <3>1
  <2>2. input' = <<>>
    BY <1>2, <1>3, <2>1, EmptySeq
  <2>3. waiting = <<>>
    <3>1. ASSUME waiting # <<>> PROVE FALSE
      <4>1. \E t \in Seq(Byte) : b = F \o t
        BY <1>1, <3>1, Ahead DEF b, F, m
      <4>2. PICK t \in Seq(Byte) : b = F \o t
        BY <4>1
      <4>3. Len(b) = Len(F) + Len(t) /\ Len(t) \in Nat
        BY <1>6, <4>2, ConcatProperties, LenProperties
      <4> QED BY <1>9, <1>11, <2>1, <4>3
    <3> QED BY <3>1
  <2>4. frame' = Filled /\ values' = values
    BY <1>10, <1>11
  <2>5. waiting' = <<>>
    <3>1. Len(waiting) = 0
      BY <2>3, EmptySeq
    <3>2. waiting' = SubSeq(waiting, 1, 0) \/ waiting' = SubSeq(waiting, 2, 0)
      BY <1>4, <3>1
    <3> QED BY <3>2, SubSeqEmpty
  <2>6. frame' \o input' = frame \o input
    <3>1. SubSeq(Filled, 1, N) = Filled /\ SubSeq(b, 1, Len(b)) = b
      BY <1>2, <1>7, SubSeqFull DEF N
    <3>2. 1 \in 1 .. N + 1
      BY <1>9
    <3> QED BY <1>3, <1>7, <2>4, <3>1, <3>2 DEF b
  <2>7. MixedTypeOK'
    <3>1. N < FrameSize
      BY <1>9, <1>11
    <3> QED BY <1>1, <1>2, <1>3, <1>4, <1>10, <1>11, <2>3, <2>4, <2>5, <3>1
            DEF MixedTypeOK, BufferNotFull, N
  <2>8. PartlyRead' /\ Received'
    BY <1>4, <2>3, <2>5, <2>6 DEF MixedInv, PartlyRead, Received
  <2>9. StartsWithRc'
    BY <1>4, <1>10, <1>11, <2>3, <2>4, <2>5 DEF MixedInv, StartsWithRc, N
  <2>10. HeardLast'
    <3>1. Rc(waiting) = {}
      BY <2>3 DEF Rc
    <3>2. values = LastHeard
      BY <3>1 DEF MixedInv, HeardLast
    <3> QED BY <1>4, <2>3, <2>4, <2>5, <3>1, <3>2 DEF HeardLast, LastHeard
  <2> QED BY <2>7, <2>8, <2>9, <2>10 DEF MixedInv
<1>12. CASE ~ (N < Len(F))
  <2> DEFINE tail == SubSeq(waiting, 2, Len(waiting))
             t == Line(tail) \o SubSeq(Line(queue), 1, taken)
  <2>1. waiting # <<>>
    <3>1. ~ (Len(b) < Len(F))
      BY <1>2, <1>7, <1>9, <1>12, LenProperties
    <3> QED BY <1>5, <3>1 DEF F
  <2>2. /\ m = waiting[1] /\ tail \in Seq(Messages) /\ t \in Seq(Byte)
        /\ Len(t) >= Len(Line(tail)) /\ b = F \o t
    BY <1>1, <2>1, Ahead DEF b, F, m
  <2> HIDE DEF tail, t
  <2>3. frame' = SubSeq(Filled, Len(F) + 1, N) /\ parser_state' = "synced"
    BY <1>10, <1>12
  <2>4. Len(F) + 1 \in 1 .. N + 1
    BY <1>9, <1>12
  <2>5. frame' \in Seq(Byte) /\ Len(frame') = N - (Len(F) + 1) + 1
        /\ frame' \o input' = SubSeq(b, Len(F) + 1, Len(b))
    BY <1>3, <1>7, <2>3, <2>4
  <2>6. frame' \o input' = t
    BY <1>6, <2>2, <2>5, CutBetween
  <2>7. TakenOff
    BY <1>2, <1>3, <1>9, <2>5 DEF TakenOff
  <2>8. waiting' = tail
    BY <1>4, <2>7 DEF tail
  <2>9. MixedTypeOK'
    <3>1. Len(frame') < FrameSize
      BY <1>2, <1>9, <2>5
    <3> QED BY <1>1, <1>2, <1>3, <1>4, <2>2, <2>3, <2>5, <2>8, <3>1
            DEF MixedTypeOK, BufferNotFull
  <2>10. PartlyRead' /\ Received'
    BY <1>4, <2>6, <2>8 DEF MixedInv, PartlyRead, Received, t
  <2>11. StartsWithRc'
    BY <2>3 DEF StartsWithRc
  <2>12. ASSUME input' = <<>>
         PROVE  Rc(tail) = {}
    <3>1. Len(b) <= FrameSize
      <4>1. Len(Rest) = 0
        BY <1>3, <2>12, EmptySeq
      <4>2. CopyLen = Len(input)
        BY <1>2, <4>1
      <4> QED BY <1>2, <1>7, <1>9, <4>2
    <3>2. ASSUME NEW i \in Rc(tail) PROVE FALSE
      <4>1. i \in 1 .. Len(tail) /\ tail[i].kind = "rc"
        BY <2>2, LenProperties DEF Rc
      <4>2. tail[i] \in Messages /\ Len(Line(tail)) >= Len(Frame[tail[i]])
        BY <2>2, <4>1, LineHolds
      <4>3. Len(Frame[tail[i]]) = RcLength + HeaderSize
        BY <4>1, <4>2, FrameFacts
      <4>4. Len(b) = Len(F) + Len(t) /\ Len(t) \in Nat /\ Len(Line(tail)) \in Nat
        BY <1>6, <2>2, ConcatProperties, LenProperties, LineTyped
      <4>5. Len(b) >= 5 + (RcLength + HeaderSize)
        <5>1. RcLength + HeaderSize \in Nat
          BY SizeAssumption DEF HeaderSize
        <5> QED BY <1>9, <2>2, <4>2, <4>3, <4>4, <5>1
      <4> QED BY <1>9, <3>1, <4>4, <4>5, BufferAssumption, SizeAssumption
              DEF HeaderSize
    <3> QED BY <3>2
  <2>13. HeardLast'
    <3>1. values' = IF IsValidRc(Frame[waiting[1]])
                    THEN DecodeRc(Frame[waiting[1]]) ELSE values
      BY <1>10, <1>12, <2>2 DEF F
    <3>2. /\ Rc(waiting') = {} => values' = LastHeard'
          /\ \A i \in Rc(waiting') :
               (\A j \in Rc(waiting') : j <= i) => heard' = <<waiting'[i]>>
      <4>1. HeardLast
        BY DEF MixedInv
      <4> QED BY <1>1, <1>4, <2>1, <2>8, <3>1, <4>1, HeardTaken DEF tail
    <3> QED BY <2>8, <2>12, <3>2 DEF HeardLast
  <2> QED BY <2>9, <2>10, <2>11, <2>13 DEF MixedInv
<1> QED BY <1>11, <1>12

(* The inductive invariant of the mixed line.                               *)
THEOREM MixedInvariance == MixedSpec => []MixedInv
<1>1. MixedInv /\ UNCHANGED mixedVars => MixedInv'
  BY DEF mixedVars, parserVars, MixedInv, MixedTypeOK, BufferNotFull, PartlyRead,
         Received, StartsWithRc, HeardLast, LastHeard
<1>2. MixedInv /\ [MixedNext]_mixedVars => MixedInv'
  BY <1>1, SendInv, ReceiveInv, ProcessInv DEF MixedNext
<1> QED BY <1>2, InitMixedInv, PTL DEF MixedSpec

(* The parser never falls out of step with a line that loses nothing:       *)
(* whichever messages are sent, whatever is in their payloads and wherever  *)
(* the reads cut them, the buffer starts where a frame starts, and after    *)
(* every call the channels are those of the last RC frame that came in.     *)
THEOREM InStep == MixedSpec => []StaysInStep
<1>1. MixedInv => StaysInStep
  <2> SUFFICES ASSUME MixedInv, input = <<>> PROVE StaysInStep
    BY DEF StaysInStep
  <2>1. frame \o input = frame
    BY ConcatEmptySeq DEF MixedInv, MixedTypeOK
  <2>2. Rc(waiting) = {} /\ values = LastHeard
    BY DEF MixedInv, HeardLast
  <2>3. frame = Line(waiting) \o SubSeq(Line(queue), 1, taken)
    BY <2>1 DEF MixedInv, Received
  <2>4. parser_state = "unsynced" => Len(frame) < 3
    BY DEF MixedInv, StartsWithRc
  <2> QED BY <2>2, <2>3, <2>4 DEF StaysInStep
<1> QED BY <1>1, MixedInvariance, PTL

=============================================================================
