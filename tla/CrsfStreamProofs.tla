-------------------------- MODULE CrsfStreamProofs --------------------------
(***************************************************************************)
(* Proofs about the parser on an arbitrary byte stream, for every buffer   *)
(* size, frame length, byte alphabet and checksum function, and about the  *)
(* parser at the end of a link that repeats one frame, for every frame and *)
(* checksum that the assumptions of CrsfLink allow.                        *)
(***************************************************************************)
EXTENDS CrsfStream, CrsfLink, SequenceTheorems, FiniteSetTheorems,
        WellFoundedInduction, TLAPS

-----------------------------------------------------------------------------
(* What an RC payload decodes to, for every payload. *)

(* A quotient modulo 2048 is an 11-bit number. *)
LEMMA Quotient ==
  ASSUME NEW w \in Nat, NEW d \in Nat \ {0}
  PROVE  (w \div d) % 2048 \in Nat /\ (w \div d) % 2048 < 2048
<1>1. w \div d \in Int
  OBVIOUS
<1>2. \A x \in Int : x % 2048 \in Nat /\ x % 2048 < 2048
  OBVIOUS
<1> DEFINE q == w \div d
<1> HIDE DEF q
<1> QED BY <1>1, <1>2 DEF q

(* Every bit-field of the packed payload is read inside the payload and is an
   11-bit number. *)
LEMMA FieldRange ==
  ASSUME NEW p \in Seq(Nat), NEW k \in 0 .. ChannelsIn(Len(p)) - 1
  PROVE  Field(p, k) \in Nat /\ Field(p, k) < 2048
<1>1. /\ FirstByte(k) \in 1 .. Len(p)
      /\ FirstByte(k) + 1 \in 1 .. Len(p)
  BY DEF ChannelsIn, ChannelBits, FirstByte
<1>2. FirstByte(k) + 2 <= Len(p) => FirstByte(k) + 2 \in 1 .. Len(p)
  BY <1>1
<1>3. \A i \in 1 .. Len(p) : p[i] \in Nat
  BY ElementOfSeq
<1>4. Window(p, k) \in Nat
  <2> DEFINE b == p[FirstByte(k)]
             c == p[FirstByte(k) + 1]
             d == IF FirstByte(k) + 2 <= Len(p)
                  THEN 65536 * p[FirstByte(k) + 2]
                  ELSE 0
  <2>1. b \in Nat /\ c \in Nat
    BY <1>1, <1>3
  <2>2. d \in Nat
    BY <1>2, <1>3
  <2>3. Window(p, k) = b + 256 * c + d
    BY DEF Window
  <2> HIDE DEF b, c, d
  <2> QED BY <2>1, <2>2, <2>3
<1>5. PowerOfTwo[(ChannelBits * k) % 8] \in Nat \ {0}
  <2>1. (ChannelBits * k) % 8 \in 0 .. 7
    BY DEF ChannelBits
  <2> QED BY <2>1 DEF PowerOfTwo
<1> DEFINE w == Window(p, k)
           d == PowerOfTwo[(ChannelBits * k) % 8]
<1>6. Field(p, k) = (w \div d) % 2048
  BY DEF Field
<1> QED
  <2>1. w \in Nat /\ d \in Nat \ {0}
    BY <1>4, <1>5
  <2> HIDE DEF w, d
  <2>2. (w \div d) % 2048 \in Nat /\ (w \div d) % 2048 < 2048
    BY <2>1, Quotient
  <2> QED BY <1>6, <2>2

(* convert_channel_value never leaves 880..2159 microseconds, so the uint16_t
   result neither wraps nor truncates. *)
THEOREM PulseRange ==
  ASSUME NEW c \in Nat, c < 2048
  PROVE  /\ convert_channel_value(c) \in Nat
         /\ 880 <= convert_channel_value(c)
         /\ convert_channel_value(c) <= 2159
BY DEF convert_channel_value

(* The channels of a payload are as many as its length says, all of them
   pulse widths. *)
LEMMA ChannelsRange ==
  ASSUME NEW p \in Seq(Nat)
  PROVE  Channels(p) \in [0 .. ChannelsIn(Len(p)) - 1 -> Nat]
<1>1. ASSUME NEW k \in 0 .. ChannelsIn(Len(p)) - 1
      PROVE  convert_channel_value(Field(p, k)) \in Nat
  BY FieldRange, PulseRange
<1> QED BY <1>1, Zenon DEF Channels

-----------------------------------------------------------------------------
(* The invariant of the receiver. *)

(* A copy always finds room. *)
BufferNotFull == Len(frame) < FrameSize

(* What is not copied yet is the end of the line. *)
InputIsLineEnd ==
  /\ Len(input) <= Len(line)
  /\ \A i \in 1 .. Len(input) : input[i] = line[Copied + i]

(* While unsynced the buffer still holds everything since the bytes that were
   dropped, or the Kept bytes that a cut header needs. *)
SearchReaches ==
  /\ lost <= Copied
  /\ parser_state = "unsynced" =>
       /\ lost <= Copied - Len(frame)
       /\ Len(frame) >= Kept \/ lost = Copied - Len(frame)

StreamInv ==
  /\ TypeOK
  /\ BufferNotFull
  /\ InputIsLineEnd
  /\ BufferIsLineSuffix
  /\ SearchReaches
  /\ NoHeaderMissed

-----------------------------------------------------------------------------
(* The end of a sequence from position m on. *)
LEMMA Suffix ==
  ASSUME NEW s \in Seq(Byte), NEW m \in 1 .. Len(s) + 1
  PROVE  /\ SubSeq(s, m, Len(s)) \in Seq(Byte)
         /\ Len(SubSeq(s, m, Len(s))) = Len(s) - m + 1
         /\ \A i \in 1 .. Len(s) - m + 1 : SubSeq(s, m, Len(s))[i] = s[m + i - 1]
<1>1. Len(s) \in Nat
  BY LenProperties
<1>2. \A i \in m .. Len(s) : s[i] \in Byte
  BY <1>1, ElementOfSeq
<1>3. m \in Int /\ Len(s) \in Int
  BY <1>1
<1> QED BY <1>1, <1>2, <1>3, SubSeqProperties

(* The beginning of a sequence. *)
LEMMA Prefix ==
  ASSUME NEW s \in Seq(Byte), NEW n \in 0 .. Len(s)
  PROVE  /\ SubSeq(s, 1, n) \in Seq(Byte)
         /\ Len(SubSeq(s, 1, n)) = n
         /\ \A i \in 1 .. n : SubSeq(s, 1, n)[i] = s[i]
<1>1. Len(s) \in Nat
  BY LenProperties
<1>2. \A i \in 1 .. n : s[i] \in Byte
  BY <1>1, ElementOfSeq
<1>3. n \in Int /\ 1 \in Int
  BY <1>1
<1> QED BY <1>1, <1>2, <1>3, SubSeqProperties

(* Two windows into the same sequence that hold the same bytes are equal. *)
LEMMA SameWindow ==
  ASSUME NEW s \in Seq(Byte), NEW m \in 1 .. Len(s), NEW n \in m .. Len(s),
         NEW t \in Seq(Byte), NEW k \in Nat,
         k + n <= Len(t),
         \A i \in m .. n : s[i] = t[k + i]
  PROVE  SubSeq(s, m, n) = SubSeq(t, k + m, k + n)
<1>1. Len(s) \in Nat /\ Len(t) \in Nat
  BY LenProperties
<1>2. /\ m \in Int /\ n \in Int /\ k + m \in Int /\ k + n \in Int
      /\ m <= n
  BY <1>1
<1>3. \A i \in m .. n : s[i] \in Byte
  BY <1>1, ElementOfSeq
<1>4. \A i \in k + m .. k + n : t[i] \in Byte
  BY <1>1, ElementOfSeq
<1>5. /\ SubSeq(s, m, n) \in Seq(Byte)
      /\ Len(SubSeq(s, m, n)) = n - m + 1
      /\ \A i \in 1 .. n - m + 1 : SubSeq(s, m, n)[i] = s[m + i - 1]
  BY <1>2, <1>3, SubSeqProperties
<1>6. /\ SubSeq(t, k + m, k + n) \in Seq(Byte)
      /\ Len(SubSeq(t, k + m, k + n)) = (k + n) - (k + m) + 1
      /\ \A i \in 1 .. (k + n) - (k + m) + 1 :
           SubSeq(t, k + m, k + n)[i] = t[(k + m) + i - 1]
  BY <1>2, <1>4, SubSeqProperties
<1>7. Len(SubSeq(s, m, n)) = Len(SubSeq(t, k + m, k + n))
  BY <1>1, <1>5, <1>6
<1>8. \A i \in 1 .. Len(SubSeq(s, m, n)) :
        SubSeq(s, m, n)[i] = SubSeq(t, k + m, k + n)[i]
  <2> SUFFICES ASSUME NEW i \in 1 .. n - m + 1
               PROVE  SubSeq(s, m, n)[i] = SubSeq(t, k + m, k + n)[i]
    BY <1>5
  <2>1. m + i - 1 \in m .. n /\ k + (m + i - 1) = (k + m) + i - 1
    BY <1>1
  <2>2. i \in 1 .. (k + n) - (k + m) + 1
    BY <1>1
  <2> QED BY <1>5, <1>6, <2>1, <2>2
<1> QED BY <1>5, <1>6, <1>7, <1>8, SeqEqual

-----------------------------------------------------------------------------
(* What parsing a buffer b may do: cut something off its front, and decode an
   RC frame only when the last bytes cut off are a valid one. *)
Cut(b, m) == frame' = SubSeq(b, m, Len(b))

DecodedBefore(b, m) ==
  \E k \in 1 .. m :
    /\ m - k = RcLength + HeaderSize
    /\ IsValidRc(SubSeq(b, k, m - 1))
    /\ values' = DecodeRc(SubSeq(b, k, m - 1))

ValuesTyped ==
  /\ values' \in [0 .. ChannelCount - 1 -> Nat]
  /\ num_values' \in {0, ChannelCount}
  /\ ret' \in BOOLEAN

(* A byte is a number. *)
LEMMA BytesAreNumbers ==
  ASSUME NEW q \in Seq(Byte), NEW i \in 1 .. Len(q)
  PROVE  q[i] \in Nat
<1>1. q[i] \in Byte
  BY ElementOfSeq
<1> QED BY <1>1, ByteAssumption

(* A valid RC frame decodes to the channels the type invariant asks for. *)
LEMMA DecodeRange ==
  ASSUME NEW q \in Seq(Byte), Len(q) = RcLength + HeaderSize
  PROVE  DecodeRc(q) \in [0 .. ChannelCount - 1 -> Nat]
<1> USE ByteAssumption, SizeAssumption
<1> DEFINE p == RcPayload(q)
<1>1. \A i \in 4 .. Len(q) - 1 : q[i] \in Nat
  BY BytesAreNumbers, LenProperties
<1>2. 4 \in Int /\ Len(q) - 1 \in Int
  BY DEF HeaderSize
<1>3. /\ p \in Seq(Nat)
      /\ Len(p) = IF 4 <= Len(q) - 1 THEN (Len(q) - 1) - 4 + 1 ELSE 0
  BY <1>1, <1>2, SubSeqProperties DEF RcPayload
<1>4. Len(p) = RcLength - 2
  BY <1>3 DEF HeaderSize
<1> HIDE DEF p
<1>5. Channels(p) \in [0 .. ChannelsIn(Len(p)) - 1 -> Nat]
  BY <1>3, ChannelsRange
<1> QED BY <1>4, <1>5 DEF DecodeRc, ChannelCount, p

(* crsf_parse_buffer behind the synchronisation. *)
LEMMA ParsedFrame ==
  ASSUME NEW f \in Seq(Byte), Len(f) \in 1 .. FrameSize, ParseFrame(f),
         values \in [0 .. ChannelCount - 1 -> Nat],
         num_values \in {0, ChannelCount}, ret \in BOOLEAN
  PROVE  /\ \E m \in 1 .. Len(f) + 1 :
              /\ Cut(f, m)
              /\ values' = values \/ DecodedBefore(f, m)
         /\ Len(frame') < FrameSize
         /\ parser_state' \in {"unsynced", "synced"}
         /\ parser_state' = "unsynced" => frame' = <<>>
         /\ ValuesTyped
<1> USE ByteAssumption, SizeAssumption
<1>1. Len(f) \in Nat
  BY LenProperties
<1>2. SubSeq(f, 1, Len(f)) = f
  <2>1. /\ SubSeq(f, 1, Len(f)) \in Seq(Byte)
        /\ Len(SubSeq(f, 1, Len(f))) = Len(f)
        /\ \A i \in 1 .. Len(f) : SubSeq(f, 1, Len(f))[i] = f[i]
    BY <1>1, Prefix
  <2> QED BY <2>1, SeqEqual
<1>3. SubSeq(f, Len(f) + 1, Len(f)) = <<>>
  BY <1>1, SubSeqEmpty
<1>4. 1 \in 1 .. Len(f) + 1 /\ Len(f) + 1 \in 1 .. Len(f) + 1
  BY <1>1
<1>5. NothingDecoded => values' = values /\ ValuesTyped
  BY DEF NothingDecoded, ValuesTyped
<1>6. CASE AwaitHeader(f)
  <2>1. Cut(f, 1) /\ Len(frame') < FrameSize
    BY <1>1, <1>2, <1>6 DEF AwaitHeader, Cut, Kept
  <2> QED BY <1>4, <1>5, <1>6, <2>1 DEF AwaitHeader
<1>7. CASE DropBogus(f)
  <2>1. Cut(f, Len(f) + 1) /\ Len(frame') < FrameSize
    BY <1>3, <1>7 DEF DropBogus, Cut, Kept
  <2> QED BY <1>4, <1>5, <1>7, <2>1 DEF DropBogus
<1>8. CASE AwaitBody(f)
  <2>1. f[2] \in Nat
    <3>1. 2 \in 1 .. Len(f)
      BY <1>1, <1>8 DEF AwaitBody
    <3> QED BY <3>1, BytesAreNumbers
  <2>2. Cut(f, 1) /\ Len(frame') < FrameSize
    BY <1>1, <1>2, <1>8, <2>1 DEF AwaitBody, Cut, IsBogus, FrameLength, HeaderSize
  <2> QED BY <1>4, <1>5, <1>8, <2>2 DEF AwaitBody
<1>9. CASE TakeFrame(f)
  <2> DEFINE n == FrameLength(f)
             packet == SubSeq(f, 1, n)
  <2>1. f[2] \in Nat
    <3>1. 2 \in 1 .. Len(f)
      BY <1>1, <1>9 DEF TakeFrame
    <3> QED BY <3>1, BytesAreNumbers
  <2>2. n \in 4 .. Len(f)
    BY <1>1, <1>9, <2>1 DEF TakeFrame, IsBogus, FrameLength, HeaderSize
  <2>3. Cut(f, n + 1) /\ n + 1 \in 1 .. Len(f) + 1
    BY <1>1, <1>9, <2>2 DEF TakeFrame, Cut
  <2>4. /\ packet \in Seq(Byte)
        /\ Len(packet) = n
        /\ packet[2] = f[2]
    <3>1. n \in 0 .. Len(f) /\ 2 \in 1 .. n
      BY <2>2
    <3> HIDE DEF n
    <3> QED BY <3>1, Prefix
  <2>5. Len(frame') = Len(f) - n /\ Len(frame') < FrameSize
    <3>1. Len(SubSeq(f, n + 1, Len(f))) = Len(f) - (n + 1) + 1
      BY <2>3, Suffix
    <3> QED BY <1>1, <2>2, <2>3, <3>1 DEF Cut
  <2>6. parser_state' = "synced"
    BY <1>9 DEF TakeFrame
  <2>7. CASE IsValidRc(packet)
    <3>1. values' = DecodeRc(packet) /\ num_values' = ChannelCount /\ ret' = TRUE
      BY <1>9, <2>7 DEF TakeFrame
    <3>2. n = RcLength + HeaderSize
      BY <2>4, <2>7 DEF IsValidRc, IsRcFrame, FrameLength
    <3>3. ValuesTyped
      BY <2>4, <3>1, <3>2, DecodeRange DEF ValuesTyped
    <3>4. DecodedBefore(f, n + 1)
      <4>1. /\ 1 \in 1 .. n + 1
            /\ (n + 1) - 1 = RcLength + HeaderSize
            /\ (n + 1) - 1 = n
        BY <2>2, <3>2
      <4> HIDE DEF n
      <4> QED BY <2>7, <3>1, <4>1 DEF DecodedBefore
    <3> HIDE DEF n, packet
    <3> QED BY <2>3, <2>5, <2>6, <3>3, <3>4
  <2>8. CASE ~ IsValidRc(packet)
    <3>1. NothingDecoded
      BY <1>9, <2>8 DEF TakeFrame
    <3> HIDE DEF n, packet
    <3> QED BY <1>5, <2>3, <2>5, <2>6, <3>1
  <2> QED BY <2>7, <2>8
<1> QED BY <1>6, <1>7, <1>8, <1>9 DEF ParseFrame

(* A window of the rest of a buffer is a window of the buffer. *)
LEMMA WindowOfRest ==
  ASSUME NEW b \in Seq(Byte), NEW d \in 0 .. Len(b),
         NEW f, f = SubSeq(b, d + 1, Len(b)),
         NEW k \in Nat \ {0}, NEW n \in Nat, n <= Len(b) - d, k <= n + 1
  PROVE  SubSeq(f, k, n) = SubSeq(b, d + k, d + n)
<1>1. Len(b) \in Nat
  BY LenProperties
<1>2. d + 1 \in 1 .. Len(b) + 1
  BY <1>1
<1>3. /\ f \in Seq(Byte)
      /\ Len(f) = Len(b) - (d + 1) + 1
      /\ \A i \in 1 .. Len(b) - (d + 1) + 1 : f[i] = b[(d + 1) + i - 1]
  BY <1>2, Suffix
<1>4. CASE k = n + 1
  <2>1. SubSeq(f, k, n) = <<>>
    BY <1>4, SubSeqEmpty
  <2>2. d + k \in Int /\ d + n \in Int /\ d + n < d + k
    BY <1>1, <1>4
  <2>3. SubSeq(b, d + k, d + n) = <<>>
    BY <2>2, SubSeqEmpty
  <2> QED BY <2>1, <2>3
<1>5. CASE k <= n
  <2>1. Len(f) = Len(b) - d
    BY <1>1, <1>3
  <2>2. k \in 1 .. Len(f) /\ n \in k .. Len(f) /\ d + n <= Len(b) /\ d \in Nat
    BY <1>1, <1>5, <2>1
  <2>3. \A i \in k .. n : f[i] = b[d + i]
    <3> SUFFICES ASSUME NEW i \in k .. n
                 PROVE  f[i] = b[d + i]
      OBVIOUS
    <3>1. i \in 1 .. Len(b) - (d + 1) + 1 /\ (d + 1) + i - 1 = d + i
      BY <1>1, <1>5, <2>1, <2>2
    <3> QED BY <1>3, <3>1
  <2> QED BY <1>3, <2>2, <2>3, SameWindow
<1> QED BY <1>1, <1>4, <1>5

(* Cutting the rest of a buffer after its first d bytes cuts the buffer. *)
LEMMA CutRest ==
  ASSUME NEW b \in Seq(Byte), NEW d \in 0 .. Len(b),
         NEW f, f = SubSeq(b, d + 1, Len(b)), Len(f) = Len(b) - d,
         NEW m \in 1 .. Len(f) + 1
  PROVE  /\ Cut(f, m) => Cut(b, d + m)
         /\ DecodedBefore(f, m) => DecodedBefore(b, d + m)
         /\ d + m \in 1 .. Len(b) + 1
<1> USE SizeAssumption
<1>1. Len(b) \in Nat
  BY LenProperties
<1>2. d + m \in 1 .. Len(b) + 1
  BY <1>1
<1>3. Cut(f, m) => Cut(b, d + m)
  <2>1. /\ m \in Nat \ {0} /\ Len(f) \in Nat
        /\ Len(f) <= Len(b) - d /\ m <= Len(f) + 1
        /\ d + Len(f) = Len(b)
    BY <1>1
  <2>2. SubSeq(f, m, Len(f)) = SubSeq(b, d + m, d + Len(f))
    BY <2>1, WindowOfRest
  <2> QED BY <2>1, <2>2 DEF Cut
<1>4. ASSUME DecodedBefore(f, m)
      PROVE  DecodedBefore(b, d + m)
  <2>1. PICK k \in 1 .. m :
          /\ m - k = RcLength + HeaderSize
          /\ IsValidRc(SubSeq(f, k, m - 1))
          /\ values' = DecodeRc(SubSeq(f, k, m - 1))
    BY <1>4 DEF DecodedBefore
  <2>2. /\ k \in Nat \ {0} /\ m - 1 \in Nat
        /\ m - 1 <= Len(b) - d /\ k <= (m - 1) + 1
        /\ d + (m - 1) = (d + m) - 1
        /\ d + k \in 1 .. d + m
        /\ (d + m) - (d + k) = m - k
    BY <1>1
  <2>3. SubSeq(f, k, m - 1) = SubSeq(b, d + k, d + (m - 1))
    BY <2>2, WindowOfRest
  <2>4. SubSeq(f, k, m - 1) = SubSeq(b, d + k, (d + m) - 1)
    BY <2>2, <2>3
  <2> QED BY <2>1, <2>2, <2>4 DEF DecodedBefore
<1> QED BY <1>2, <1>3, <1>4

(* While the parser stays unsynced without dropping its buffer, no header was
   in it, and what it keeps is all of it or its last Kept bytes. *)
StillSearching(b) ==
  /\ parser_state = "unsynced"
  /\ HeaderPositions(b) = {}
  /\ \/ frame' = b
     \/ Len(frame') = Kept /\ Len(b) > Kept

(* crsf_parse_buffer. *)
LEMMA ParsedBuffer ==
  ASSUME NEW b \in Seq(Byte), Len(b) \in 1 .. FrameSize, ParseBuffer(b),
         values \in [0 .. ChannelCount - 1 -> Nat],
         num_values \in {0, ChannelCount}, ret \in BOOLEAN
  PROVE  /\ \E m \in 1 .. Len(b) + 1 :
              /\ Cut(b, m)
              /\ values' = values \/ DecodedBefore(b, m)
         /\ Len(frame') < FrameSize
         /\ parser_state' \in {"unsynced", "synced"}
         /\ parser_state' = "unsynced" => frame' = <<>> \/ StillSearching(b)
         /\ ValuesTyped
<1> USE SizeAssumption
<1>1. Len(b) \in Nat
  BY LenProperties
<1>2. CASE Unrecognised(b)
  <2>1. values' = values /\ ValuesTyped
    BY <1>2 DEF Unrecognised, NothingDecoded, ValuesTyped
  <2>2. CASE Len(b) >= FrameSize
    <3>1. frame' = SubSeq(b, Len(b) - Kept + 1, Len(b))
      BY <1>2, <2>2 DEF Unrecognised
    <3>2. Len(b) - Kept + 1 \in 1 .. Len(b) + 1 /\ Len(b) > Kept
      BY <1>1, <2>2 DEF Kept
    <3>3. Len(frame') = Len(b) - (Len(b) - Kept + 1) + 1
      BY <3>1, <3>2, Suffix
    <3>4. Len(frame') = Kept /\ Len(frame') < FrameSize
      BY <1>1, <2>2, <3>3 DEF Kept
    <3>5. StillSearching(b) /\ parser_state' = "unsynced"
      BY <1>2, <3>2, <3>4 DEF Unrecognised, StillSearching
    <3> QED BY <2>1, <3>1, <3>2, <3>4, <3>5 DEF Cut
  <2>3. CASE Len(b) < FrameSize
    <3>1. frame' = b
      BY <1>1, <1>2, <2>3 DEF Unrecognised
    <3>2. frame' = SubSeq(b, 1, Len(b)) /\ 1 \in 1 .. Len(b) + 1
      <4>1. /\ SubSeq(b, 1, Len(b)) \in Seq(Byte)
            /\ Len(SubSeq(b, 1, Len(b))) = Len(b)
            /\ \A i \in 1 .. Len(b) : SubSeq(b, 1, Len(b))[i] = b[i]
        BY <1>1, Prefix
      <4> QED BY <1>1, <3>1, <4>1, SeqEqual
    <3>3. StillSearching(b) /\ parser_state' = "unsynced"
      BY <1>2, <3>1 DEF Unrecognised, StillSearching
    <3> QED BY <2>1, <2>3, <3>1, <3>2, <3>3 DEF Cut
  <2> QED BY <1>1, <2>2, <2>3
<1>3. CASE Synchronise(b)
  <2>1. PICK j \in HeaderPositions(b) : ParseFrame(SubSeq(b, j - 1, Len(b)))
    BY <1>3 DEF Synchronise
  <2> DEFINE d == j - 2
             f == SubSeq(b, d + 1, Len(b))
  <2>2. d \in 0 .. Len(b) - 3 /\ d + 1 = j - 1 /\ d + 1 \in 1 .. Len(b) + 1
    BY <1>1 DEF HeaderPositions
  <2>3. f \in Seq(Byte) /\ Len(f) = Len(b) - (d + 1) + 1
    <3> HIDE DEF d
    <3> QED BY <2>2, Suffix
  <2>4. Len(f) \in 1 .. FrameSize /\ Len(f) = Len(b) - d /\ d \in 0 .. Len(b)
    BY <1>1, <2>2, <2>3, SMTT(20)
  <2>5. ParseFrame(f)
    BY <2>1, <2>2
  <2> HIDE DEF f, d
  <2>6. /\ \E m \in 1 .. Len(f) + 1 :
             /\ Cut(f, m)
             /\ values' = values \/ DecodedBefore(f, m)
        /\ Len(frame') < FrameSize
        /\ parser_state' \in {"unsynced", "synced"}
        /\ parser_state' = "unsynced" => frame' = <<>>
        /\ ValuesTyped
    BY <2>3, <2>4, <2>5, ParsedFrame
  <2>7. PICK m \in 1 .. Len(f) + 1 :
          /\ Cut(f, m)
          /\ values' = values \/ DecodedBefore(f, m)
    BY <2>6
  <2>8. /\ Cut(b, d + m)
        /\ values' = values \/ DecodedBefore(b, d + m)
        /\ d + m \in 1 .. Len(b) + 1
    BY <2>4, <2>7, CutRest DEF f
  <2> QED BY <2>6, <2>8
<1>4. CASE Continue(b)
  <2>1. ParseFrame(b)
    BY <1>4 DEF Continue
  <2> QED BY <2>1, ParsedFrame
<1> QED BY <1>2, <1>3, <1>4 DEF ParseBuffer

-----------------------------------------------------------------------------
(* The buffer and the rest of the input after a copy. *)
Filled == frame \o SubSeq(input, 1, CopyLen)
Rest == SubSeq(input, CopyLen + 1, Len(input))

(* A copy finds room, and splits the bytes that wait for it.                *)
LEMMA Filling ==
  ASSUME frame \in Seq(Byte), Len(frame) < FrameSize,
         input \in Seq(Byte), input # <<>>
  PROVE  /\ CopyLen \in 1 .. Len(input)
         /\ Filled \in Seq(Byte)
         /\ Len(Filled) = Len(frame) + CopyLen
         /\ Len(Filled) \in 1 .. FrameSize
         /\ \A i \in 1 .. Len(Filled) :
              Filled[i] = IF i <= Len(frame) THEN frame[i]
                                             ELSE input[i - Len(frame)]
         /\ Rest \in Seq(Byte)
         /\ Len(Rest) = Len(input) - CopyLen
         /\ \A i \in 1 .. Len(Rest) : Rest[i] = input[CopyLen + i]
<1> USE SizeAssumption
<1>1. Len(frame) \in Nat /\ Len(input) \in Nat /\ Len(input) # 0
  BY LenProperties, EmptySeq
<1>2. CopyLen \in 1 .. Len(input) /\ Len(frame) + CopyLen <= FrameSize
  BY <1>1 DEF CopyLen, Room
<1> DEFINE c == CopyLen
           head == SubSeq(input, 1, c)
<1>3. c \in 0 .. Len(input) /\ c + 1 \in 1 .. Len(input) + 1 /\ c >= 1
  BY <1>1, <1>2
<1> HIDE DEF c
<1>4. head \in Seq(Byte) /\ Len(head) = c /\ \A i \in 1 .. c : head[i] = input[i]
  BY <1>3, Prefix
<1>5. /\ SubSeq(input, c + 1, Len(input)) \in Seq(Byte)
      /\ Len(SubSeq(input, c + 1, Len(input))) = Len(input) - (c + 1) + 1
      /\ \A i \in 1 .. Len(input) - (c + 1) + 1 :
           SubSeq(input, c + 1, Len(input))[i] = input[(c + 1) + i - 1]
  BY <1>3, Suffix
<1>6. /\ Rest \in Seq(Byte)
      /\ Len(Rest) = Len(input) - c
      /\ \A i \in 1 .. Len(Rest) : Rest[i] = input[c + i]
  <2>1. Rest = SubSeq(input, c + 1, Len(input))
    BY DEF Rest, c
  <2>2. Len(input) - (c + 1) + 1 = Len(input) - c
    BY <1>1, <1>3
  <2>3. \A i \in 1 .. Len(input) - c : (c + 1) + i - 1 = c + i
    BY <1>1, <1>3
  <2> QED BY <1>5, <2>1, <2>2, <2>3
<1> HIDE DEF head
<1>7. /\ Filled = frame \o head
      /\ Filled \in Seq(Byte)
      /\ Len(Filled) = Len(frame) + c
      /\ \A i \in 1 .. Len(frame) + c :
           Filled[i] = IF i <= Len(frame) THEN frame[i] ELSE head[i - Len(frame)]
  BY <1>4, ConcatProperties, SMTT(20) DEF Filled, head, c
<1>8. ASSUME NEW i \in 1 .. Len(Filled)
      PROVE  Filled[i] = IF i <= Len(frame) THEN frame[i]
                                            ELSE input[i - Len(frame)]
  <2>1. CASE i <= Len(frame)
    BY <1>7, <2>1
  <2>2. CASE ~ (i <= Len(frame))
    <3>1. i - Len(frame) \in 1 .. c /\ i \in 1 .. Len(frame) + c
      BY <1>1, <1>3, <1>7, <2>2
    <3>2. Filled[i] = head[i - Len(frame)]
      BY <1>7, <2>2, <3>1
    <3> QED BY <1>4, <2>2, <3>1, <3>2
  <2> QED BY <2>1, <2>2
<1>9. Len(Filled) \in 1 .. FrameSize
  BY <1>1, <1>2, <1>3, <1>7 DEF c
<1> QED BY <1>2, <1>6, <1>7, <1>8, <1>9 DEF c

(* Before the copy the filled buffer is the beginning of what the parser    *)
(* has not taken, and what is left after a cut is the rest of that.         *)
LEMMA Taking ==
  ASSUME frame \in Seq(Byte), Len(frame) < FrameSize,
         input \in Seq(Byte), input # <<>>,
         NEW m \in 1 .. Len(Filled) + 1,
         NEW f, f = SubSeq(Filled, m, Len(Filled))
  PROVE  LET b == frame \o input
         IN  /\ b \in Seq(Byte) /\ Len(b) = Len(frame) + Len(input)
             /\ Len(Filled) <= Len(b)
             /\ \A i \in 1 .. Len(Filled) : Filled[i] = b[i]
             /\ f \in Seq(Byte) /\ Len(f) = Len(Filled) - m + 1
             /\ f \o Rest = SubSeq(b, m, Len(b))
<1> DEFINE b == frame \o input
           n == Len(Filled)
           t == SubSeq(b, m, Len(b))
<1>1. /\ Len(frame) \in Nat /\ Len(input) \in Nat
      /\ CopyLen \in 1 .. Len(input) /\ n = Len(frame) + CopyLen
      /\ Filled \in Seq(Byte)
      /\ \A i \in 1 .. n : Filled[i] = IF i <= Len(frame) THEN frame[i]
                                                          ELSE input[i - Len(frame)]
      /\ Rest \in Seq(Byte)
      /\ Len(Rest) = Len(input) - CopyLen
      /\ \A i \in 1 .. Len(Rest) : Rest[i] = input[CopyLen + i]
  BY Filling, LenProperties
<1>2. /\ b \in Seq(Byte) /\ Len(b) = Len(frame) + Len(input)
      /\ \A i \in 1 .. Len(frame) + Len(input) :
           b[i] = IF i <= Len(frame) THEN frame[i] ELSE input[i - Len(frame)]
  BY ConcatProperties
<1>3. n \in Nat /\ n <= Len(b)
  BY <1>1, <1>2
<1>4. \A i \in 1 .. n : Filled[i] = b[i]
  BY <1>1, <1>2, <1>3
<1>5. ASSUME NEW i \in 1 .. Len(Rest)
      PROVE  Rest[i] = b[n + i]
  <2>1. /\ n + i \in 1 .. Len(frame) + Len(input) /\ ~ (n + i <= Len(frame))
        /\ (n + i) - Len(frame) = CopyLen + i
    BY <1>1
  <2> QED BY <1>1, <1>2, <2>1
<1> HIDE DEF b, n
<1>6. m \in 1 .. n + 1 /\ m \in 1 .. Len(b) + 1
  BY <1>3 DEF n
<1>7. /\ f \in Seq(Byte) /\ Len(f) = n - m + 1
      /\ \A i \in 1 .. n - m + 1 : f[i] = Filled[m + i - 1]
  BY <1>1, <1>6, Suffix DEF n
<1>8. /\ t \in Seq(Byte) /\ Len(t) = Len(b) - m + 1
      /\ \A i \in 1 .. Len(b) - m + 1 : t[i] = b[m + i - 1]
  BY <1>2, <1>6, Suffix
<1>9. /\ f \o Rest \in Seq(Byte) /\ Len(f \o Rest) = Len(f) + Len(Rest)
      /\ \A i \in 1 .. Len(f) + Len(Rest) :
           (f \o Rest)[i] = IF i <= Len(f) THEN f[i] ELSE Rest[i - Len(f)]
  <2>1. f \in Seq(Byte) /\ Rest \in Seq(Byte)
    BY <1>1, <1>7
  <2> QED BY <2>1, ConcatProperties, Zenon
<1>10. Len(Rest) = Len(b) - n /\ Len(b) \in Nat
  BY <1>1, <1>2 DEF n
<1>11. Len(f \o Rest) = Len(t)
  BY <1>3, <1>6, <1>7, <1>8, <1>9, <1>10
<1>12. ASSUME NEW i \in 1 .. Len(f \o Rest)
       PROVE  (f \o Rest)[i] = t[i]
  <2> HIDE DEF t
  <2>0. i \in 1 .. Len(b) - m + 1 /\ m + i - 1 \in Int
        /\ i \in 1 .. Len(f) + Len(Rest)
    BY <1>3, <1>6, <1>7, <1>8, <1>9, <1>10, <1>11
  <2>1. CASE i <= Len(f)
    <3>1. i \in 1 .. n - m + 1 /\ m + i - 1 \in 1 .. n
      BY <1>3, <1>6, <1>7, <2>0, <2>1
    <3> QED BY <1>4, <1>7, <1>8, <1>9, <2>0, <2>1, <3>1 DEF n
  <2>2. CASE ~ (i <= Len(f))
    <3>1. i - Len(f) \in 1 .. Len(Rest) /\ n + (i - Len(f)) = m + i - 1
      BY <1>3, <1>6, <1>7, <1>10, <2>0, <2>2
    <3> QED BY <1>5, <1>8, <1>9, <2>0, <2>2, <3>1
  <2> QED BY <2>1, <2>2
<1>13. f \o Rest = t
  <2> HIDE DEF t
  <2> QED BY <1>8, <1>9, <1>11, <1>12, SeqEqual
<1> QED BY <1>2, <1>3, <1>4, <1>7, <1>13 DEF b, n

(* A copy leaves the buffer the last bytes copied, with all that was in it
   before still at its front, and the rest of the input the end of the line. *)
LEMMA Copying ==
  ASSUME StreamInv, input # <<>>
  PROVE  /\ CopyLen \in 1 .. Len(input)
         /\ Filled \in Seq(Byte)
         /\ Len(Filled) = Len(frame) + CopyLen
         /\ Len(Filled) <= FrameSize
         /\ Rest \in Seq(Byte)
         /\ Len(Rest) = Len(input) - CopyLen
         /\ \A i \in 1 .. Len(Rest) : Rest[i] = line[(Len(line) - Len(Rest)) + i]
         /\ Len(Filled) <= Len(line) - Len(Rest)
         /\ \A i \in 1 .. Len(Filled) :
              Filled[i] = line[(Len(line) - Len(Rest)) - Len(Filled) + i]
         /\ (Len(line) - Len(Rest)) - Len(Filled) = Copied - Len(frame)
<1> USE SizeAssumption
<1>1. /\ frame \in Seq(Byte) /\ input \in Seq(Byte) /\ line \in Seq(Byte)
      /\ Len(frame) < FrameSize
      /\ Len(input) <= Len(line)
      /\ Len(frame) <= Len(line) - Len(input)
  BY DEF StreamInv, TypeOK, ParserTypeOK, BufferNotFull, InputIsLineEnd,
         BufferIsLineSuffix, Copied
<1>2. /\ Len(frame) \in Nat /\ Len(input) \in Nat /\ Len(line) \in Nat
      /\ Len(input) # 0
  BY <1>1, LenProperties, EmptySeq
<1> DEFINE c == CopyLen
<1>3. c \in 0 .. Len(input) /\ c >= 1 /\ CopyLen \in 1 .. Len(input)
  BY <1>1, <1>2, Filling
<1>7. /\ Rest \in Seq(Byte)
      /\ Len(Rest) = Len(input) - c
      /\ \A i \in 1 .. Len(Rest) : Rest[i] = input[c + i]
  BY <1>1, Filling
<1>8. /\ Filled \in Seq(Byte)
      /\ Len(Filled) = Len(frame) + c
      /\ Len(Filled) <= FrameSize
      /\ \A i \in 1 .. Len(frame) + c :
           Filled[i] = IF i <= Len(frame) THEN frame[i] ELSE input[i - Len(frame)]
  BY <1>1, <1>2, Filling
<1> HIDE DEF c
<1>9. \A i \in 1 .. Len(input) : input[i] = line[(Len(line) - Len(input)) + i]
  BY DEF StreamInv, InputIsLineEnd, Copied
<1>10. \A i \in 1 .. Len(frame) :
         frame[i] = line[(Len(line) - Len(input)) - Len(frame) + i]
  BY DEF StreamInv, BufferIsLineSuffix, Copied
<1>11. \A i \in 1 .. Len(Rest) : Rest[i] = line[(Len(line) - Len(Rest)) + i]
  <2> SUFFICES ASSUME NEW i \in 1 .. Len(Rest)
               PROVE  Rest[i] = line[(Len(line) - Len(Rest)) + i]
    OBVIOUS
  <2>1. /\ c + i \in 1 .. Len(input)
        /\ (Len(line) - Len(input)) + (c + i) = (Len(line) - Len(Rest)) + i
    BY <1>2, <1>3, <1>7
  <2> QED BY <1>7, <1>9, <2>1
<1>12. ASSUME NEW i \in 1 .. Len(Filled)
       PROVE  Filled[i] = line[(Len(line) - Len(Rest)) - Len(Filled) + i]
  <2>1. CASE i <= Len(frame)
    <3>1. /\ i \in 1 .. Len(frame)
          /\ (Len(line) - Len(input)) - Len(frame) + i
               = (Len(line) - Len(Rest)) - Len(Filled) + i
      BY <1>2, <1>3, <1>7, <1>8, <2>1
    <3> QED BY <1>8, <1>10, <2>1, <3>1
  <2>2. CASE i > Len(frame)
    <3>1. /\ i - Len(frame) \in 1 .. c
          /\ i - Len(frame) \in 1 .. Len(input)
          /\ ~ (i <= Len(frame))
          /\ (Len(line) - Len(input)) + (i - Len(frame))
               = (Len(line) - Len(Rest)) - Len(Filled) + i
      BY <1>2, <1>3, <1>7, <1>8, <2>2, SMTT(20)
    <3> QED BY <1>8, <1>9, <2>2, <3>1
  <2> QED BY <1>2, <1>8, <2>1, <2>2
<1>13. /\ Len(Filled) <= Len(line) - Len(Rest)
       /\ (Len(line) - Len(Rest)) - Len(Filled) = Copied - Len(frame)
  BY <1>1, <1>2, <1>3, <1>7, <1>8 DEF Copied
<1> QED BY <1>3, <1>7, <1>8, <1>11, <1>12, <1>13 DEF c

-----------------------------------------------------------------------------
(* The invariant holds before the first byte. *)
LEMMA InitInv == Init => StreamInv
<1> SUFFICES ASSUME Init PROVE StreamInv
  OBVIOUS
<1>1. /\ frame = <<>> /\ input = <<>> /\ line = <<>>
      /\ parser_state = "unsynced" /\ lost = 0
      /\ values = Zero /\ num_values = 0 /\ ret = FALSE
  BY DEF Init, ParserInit
<1>2. <<>> \in Seq(Byte) /\ Len(<<>>) = 0
  BY EmptySeq
<1>3. Zero \in [0 .. ChannelCount - 1 -> Nat]
  BY Zenon DEF Zero
<1>4. Len(frame) = 0 /\ Len(input) = 0 /\ Len(line) = 0
  BY <1>1, <1>2
<1>5. Copied = 0
  <2>1. Copied = Len(line) - Len(input)
    BY DEF Copied
  <2> QED BY <1>4, <2>1
<1>6. TypeOK
  <2>1. lost \in 0 .. Len(line)
    BY <1>1, <1>4
  <2>2. num_values \in {0, ChannelCount} /\ ret \in BOOLEAN
    BY <1>1
  <2>3. frame \in Seq(Byte) /\ input \in Seq(Byte) /\ line \in Seq(Byte)
    BY <1>1, <1>2
  <2> QED BY <1>1, <1>3, <2>1, <2>2, <2>3 DEF TypeOK, ParserTypeOK
<1>7. BufferNotFull
  BY <1>4, SizeAssumption DEF BufferNotFull, Kept
<1>8. InputIsLineEnd
  BY <1>4 DEF InputIsLineEnd
<1>9. BufferIsLineSuffix
  BY <1>4, <1>5 DEF BufferIsLineSuffix
<1>10. SearchReaches
  <2>1. lost = 0
    BY <1>1
  <2>2. lost <= Copied /\ lost <= Copied - Len(frame) /\ lost = Copied - Len(frame)
    BY <1>4, <1>5, <2>1
  <2> QED BY <2>2 DEF SearchReaches
<1>11. NoHeaderMissed
  BY <1>1, <1>5 DEF NoHeaderMissed
<1> QED BY <1>6, <1>7, <1>8, <1>9, <1>10, <1>11 DEF StreamInv

(* A read appends the same bytes to the line and to the input. *)
LEMMA ReadInv ==
  ASSUME StreamInv, Read
  PROVE  StreamInv' /\ Copied' = Copied
<1>0. PICK n \in 1 .. ReadSize : \E chunk \in [1 .. n -> Byte] :
        Call(chunk) /\ line' = line \o chunk /\ UNCHANGED lost
  BY DEF Read
<1>1. PICK chunk \in [1 .. n -> Byte] :
        Call(chunk) /\ line' = line \o chunk /\ UNCHANGED lost
  BY <1>0
<1>2. /\ input = <<>> /\ input' = chunk /\ ret' = FALSE
      /\ UNCHANGED <<frame, parser_state, values, num_values, lost>>
      /\ line' = line \o chunk
  BY <1>1 DEF Call
<1>3. chunk \in Seq(Byte) /\ Len(chunk) = n /\ n \in Nat
  BY SizeAssumption
<1>4. /\ frame \in Seq(Byte) /\ line \in Seq(Byte) /\ lost \in 0 .. Len(line)
      /\ Len(line) \in Nat /\ Len(frame) \in Nat /\ Len(input) = 0
  BY <1>2, LenProperties, EmptySeq DEF StreamInv, TypeOK, ParserTypeOK
<1>5. /\ line' \in Seq(Byte)
      /\ Len(line') = Len(line) + n
      /\ \A i \in 1 .. Len(line) + n :
           line'[i] = IF i <= Len(line) THEN line[i] ELSE chunk[i - Len(line)]
  <2>1. /\ line \o chunk \in Seq(Byte)
        /\ Len(line \o chunk) = Len(line) + Len(chunk)
        /\ \A i \in 1 .. Len(line) + Len(chunk) :
             (line \o chunk)[i] =
               IF i <= Len(line) THEN line[i] ELSE chunk[i - Len(line)]
    BY <1>3, <1>4, ConcatProperties
  <2> QED BY <1>2, <1>3, <2>1, Zenon
<1>6. Copied' = Len(line) /\ Copied = Len(line)
  BY <1>2, <1>3, <1>4, <1>5 DEF Copied
<1>7. TypeOK'
  <2>1. lost \in 0 .. Len(line')
    BY <1>3, <1>4, <1>5
  <2> QED BY <1>2, <1>3, <1>5, <2>1 DEF StreamInv, TypeOK, ParserTypeOK
<1>8. BufferNotFull'
  BY <1>2 DEF StreamInv, BufferNotFull
<1>9. InputIsLineEnd'
  <2>1. Len(input') <= Len(line')
    BY <1>2, <1>3, <1>4, <1>5
  <2>2. ASSUME NEW i \in 1 .. Len(input')
        PROVE  input'[i] = line'[Copied' + i]
    <3>1. Len(line) + i \in 1 .. Len(line) + n
      BY <1>2, <1>3, <1>4
    <3>2. ~ (Len(line) + i <= Len(line)) /\ (Len(line) + i) - Len(line) = i
      BY <1>2, <1>3, <1>4
    <3> QED BY <1>2, <1>5, <1>6, <3>1, <3>2
  <2> QED BY <2>1, <2>2 DEF InputIsLineEnd
<1>10. BufferIsLineSuffix'
  <2>1. /\ Len(frame) <= Len(line)
        /\ \A i \in 1 .. Len(frame) : frame[i] = line[Len(line) - Len(frame) + i]
    BY <1>6 DEF StreamInv, BufferIsLineSuffix
  <2>2. ASSUME NEW i \in 1 .. Len(frame)
        PROVE  frame[i] = line'[Len(line) - Len(frame) + i]
    <3>1. /\ Len(line) - Len(frame) + i \in 1 .. Len(line) + n
          /\ Len(line) - Len(frame) + i <= Len(line)
      BY <1>3, <1>4, <2>1
    <3> QED BY <1>5, <2>1, <3>1
  <2> QED BY <1>2, <1>6, <2>1, <2>2 DEF BufferIsLineSuffix
<1>11. SearchReaches'
  BY <1>2, <1>6 DEF StreamInv, SearchReaches
<1>12. NoHeaderMissed'
  <2>1. ASSUME NEW j \in lost + 2 .. Len(line) - 1
        PROVE  line'[j] = line[j] /\ line'[j + 1] = line[j + 1]
    <3>1. /\ j \in 1 .. Len(line) + n /\ j <= Len(line)
          /\ j + 1 \in 1 .. Len(line) + n /\ j + 1 <= Len(line)
      BY <1>3, <1>4
    <3> QED BY <1>5, <3>1
  <2> QED BY <1>2, <1>6, <2>1 DEF StreamInv, NoHeaderMissed, HeaderAt
<1> QED BY <1>6, <1>7, <1>8, <1>9, <1>10, <1>11, <1>12 DEF StreamInv

(* Every iteration copies something and parses the filled buffer. *)
LEMMA StepParses ==
  ASSUME StreamInv, Step
  PROVE  /\ input # <<>>
         /\ input' = Rest
         /\ line' = line
         /\ ParseBuffer(Filled)
         /\ lost' = IF parser_state' = "unsynced" /\ frame' = <<>>
                    THEN Len(line) - Len(Rest)
                    ELSE lost
<1>1. input # <<>>
  BY DEF Step, Iterate
<1>2. CopyLen \in 1 .. Len(input) /\ Len(input) \in Nat
  BY <1>1, Copying, LenProperties DEF StreamInv, TypeOK, ParserTypeOK
<1>3. CopyLen # 0
  BY <1>2
<1> QED BY <1>1, <1>3 DEF Step, Iterate, Filled, Rest

(* What one iteration does to the buffer, in terms of the line. *)
LEMMA StepInv ==
  ASSUME StreamInv, Step
  PROVE  /\ StreamInv'
         /\ \E m \in 1 .. Len(Filled) + 1 :
              /\ Copied' - Len(frame') = (Copied - Len(frame)) + (m - 1)
              /\ values' = values \/ DecodedBefore(Filled, m)
<1> DEFINE b == Filled
           copied == Len(line) - Len(Rest)
<1>1. /\ input # <<>>
      /\ input' = Rest
      /\ line' = line
      /\ ParseBuffer(b)
      /\ lost' = IF parser_state' = "unsynced" /\ frame' = <<>>
                 THEN copied
                 ELSE lost
  BY StepParses
<1>2. /\ frame \in Seq(Byte) /\ input \in Seq(Byte) /\ line \in Seq(Byte)
      /\ values \in [0 .. ChannelCount - 1 -> Nat]
      /\ num_values \in {0, ChannelCount}
      /\ ret \in BOOLEAN
      /\ lost \in 0 .. Len(line)
      /\ Len(frame) \in Nat /\ Len(input) \in Nat /\ Len(line) \in Nat
  BY LenProperties DEF StreamInv, TypeOK, ParserTypeOK
<1>3. /\ CopyLen \in 1 .. Len(input)
      /\ b \in Seq(Byte)
      /\ Len(b) = Len(frame) + CopyLen
      /\ Len(b) <= FrameSize
      /\ Rest \in Seq(Byte)
      /\ Len(Rest) = Len(input) - CopyLen
      /\ \A i \in 1 .. Len(Rest) : Rest[i] = line[copied + i]
      /\ Len(b) <= copied
      /\ \A i \in 1 .. Len(b) : b[i] = line[copied - Len(b) + i]
      /\ copied - Len(b) = Copied - Len(frame)
  BY <1>1, Copying
<1> HIDE DEF b, copied
<1>4. /\ Len(b) \in Nat /\ Len(Rest) \in Nat /\ copied \in Nat
      /\ Len(b) \in 1 .. FrameSize
      /\ Copied \in Nat /\ Copied < copied /\ copied <= Len(line)
  <2>1. Len(Rest) \in Nat
    BY <1>3, LenProperties
  <2> QED BY <1>2, <1>3, <2>1, SizeAssumption DEF copied, Copied
<1>5. /\ \E m \in 1 .. Len(b) + 1 :
           /\ Cut(b, m)
           /\ values' = values \/ DecodedBefore(b, m)
      /\ Len(frame') < FrameSize
      /\ parser_state' \in {"unsynced", "synced"}
      /\ parser_state' = "unsynced" => frame' = <<>> \/ StillSearching(b)
      /\ ValuesTyped
  BY <1>1, <1>2, <1>3, <1>4, ParsedBuffer
<1>6. PICK m \in 1 .. Len(b) + 1 :
        Cut(b, m) /\ (values' = values \/ DecodedBefore(b, m))
  BY <1>5
<1>7. /\ frame' \in Seq(Byte)
      /\ Len(frame') = Len(b) - m + 1
      /\ \A i \in 1 .. Len(b) - m + 1 : frame'[i] = b[m + i - 1]
  BY <1>3, <1>6, Suffix DEF Cut
<1>8. Copied' = copied
  BY <1>1 DEF Copied, copied
<1>9. Copied' - Len(frame') = (Copied - Len(frame)) + (m - 1)
  BY <1>2, <1>3, <1>4, <1>7, <1>8
<1>10. TypeOK'
  <2>1. lost' \in 0 .. Len(line)
    BY <1>1, <1>2, <1>4
  <2> QED BY <1>1, <1>2, <1>3, <1>5, <1>7, <2>1
          DEF TypeOK, ParserTypeOK, ValuesTyped
<1>11. BufferNotFull'
  BY <1>5 DEF BufferNotFull
<1>12. InputIsLineEnd'
  <2>1. Len(Rest) <= Len(line)
    BY <1>2, <1>4 DEF copied
  <2> QED BY <1>1, <1>3, <1>8, <2>1 DEF InputIsLineEnd
<1>13. BufferIsLineSuffix'
  <2>1. Len(frame') <= copied
    BY <1>3, <1>4, <1>7
  <2>2. ASSUME NEW i \in 1 .. Len(frame')
        PROVE  frame'[i] = line[copied - Len(frame') + i]
    <3>1. /\ i \in 1 .. Len(b) - m + 1
          /\ m + i - 1 \in 1 .. Len(b)
          /\ copied - Len(b) + (m + i - 1) = copied - Len(frame') + i
      BY <1>3, <1>4, <1>7
    <3> QED BY <1>3, <1>7, <3>1
  <2> QED BY <1>1, <1>8, <2>1, <2>2 DEF BufferIsLineSuffix
<1>14. SearchReaches' /\ NoHeaderMissed'
  <2>1. CASE parser_state' = "synced"
    <3>1. lost' = lost /\ lost <= copied
      BY <1>1, <1>2, <1>4, <2>1 DEF StreamInv, SearchReaches
    <3> QED BY <1>8, <2>1, <3>1 DEF SearchReaches, NoHeaderMissed
  <2>2. CASE parser_state' = "unsynced" /\ frame' = <<>>
    <3>1. lost' = copied /\ Len(frame') = 0
      BY <1>1, <2>2, EmptySeq
    <3>2. SearchReaches'
      BY <1>4, <1>8, <3>1 DEF SearchReaches
    <3>3. NoHeaderMissed'
      BY <1>4, <1>8, <3>1 DEF NoHeaderMissed
    <3> QED BY <3>2, <3>3
  <2>3. CASE parser_state' = "unsynced" /\ frame' # <<>>
    <3>1. StillSearching(b) /\ lost' = lost
      BY <1>1, <1>5, <2>3
    <3>2. /\ parser_state = "unsynced"
          /\ \A j \in 2 .. Len(b) - 1 : ~ HeaderAt(b, j)
      <4>1. parser_state = "unsynced" /\ HeaderPositions(b) = {}
        BY <3>1 DEF StillSearching
      <4>2. ASSUME NEW j \in 2 .. Len(b) - 1, HeaderAt(b, j)
            PROVE  FALSE
        <5>1. j \in HeaderPositions(b)
          BY <4>2 DEF HeaderPositions
        <5> QED BY <4>1, <5>1
      <4> QED BY <4>1, <4>2
    <3> DEFINE n == Len(frame')
    <3>7. n = Len(b) \/ (n = Kept /\ Len(b) > Kept)
      <4>1. frame' = b \/ (Len(frame') = Kept /\ Len(b) > Kept)
        BY <3>1 DEF StillSearching
      <4> QED BY <4>1
    <3>3. /\ lost <= copied - Len(b)
          /\ Len(frame) >= Kept \/ lost = copied - Len(b)
      BY <1>3, <3>2 DEF StreamInv, SearchReaches
    <3>4. SearchReaches'
      <4>1. lost <= copied /\ lost <= copied - n
        <5> HIDE DEF n
        <5> QED BY <1>2, <1>4, <3>7, <3>3 DEF Kept
      <4>2. n >= Kept \/ lost = copied - n
        <5>1. CopyLen \in Nat /\ Len(b) = Len(frame) + CopyLen
          BY <1>2, <1>3
        <5> HIDE DEF n
        <5> QED BY <1>2, <1>4, <3>7, <3>3, <5>1 DEF Kept
      <4> QED BY <1>8, <3>1, <4>1, <4>2 DEF SearchReaches
    <3>5. ASSUME NEW j \in lost + 2 .. copied - 1
          PROVE  ~ HeaderAt(line, j)
      <4>1. CASE j <= Copied - 1
        <5>1. j \in lost + 2 .. Copied - 1
          BY <1>2, <1>4, <4>1
        <5> QED BY <3>2, <5>1 DEF StreamInv, NoHeaderMissed
      <4>2. CASE j > Copied - 1
        <5> DEFINE i == j - (copied - Len(b))
        <5>1. i \in 2 .. Len(b) - 1
          <6>1. /\ Len(b) \in Nat /\ copied \in Nat /\ lost \in Nat
                /\ Copied \in Nat /\ Len(frame) \in Nat /\ j \in Int
            BY <1>2, <1>4
          <6>2. lost + 2 <= j /\ j <= copied - 1 /\ Copied <= j
            BY <6>1, <4>2
          <6>3. copied - Len(b) = Copied - Len(frame)
            BY <1>2, <1>3, <1>4
          <6>4. Len(frame) >= 2 \/ lost = copied - Len(b)
            BY <3>3 DEF Kept
          <6> HIDE DEF b, copied, Copied
          <6> QED BY <6>1, <6>2, <6>3, <6>4
        <5>2. /\ i \in 1 .. Len(b) /\ i + 1 \in 1 .. Len(b)
              /\ copied - Len(b) + i = j
              /\ copied - Len(b) + (i + 1) = j + 1
          BY <1>2, <1>4, <5>1
        <5> HIDE DEF i
        <5>3. b[i] = line[j] /\ b[i + 1] = line[j + 1]
          BY <1>3, <5>2
        <5> QED BY <3>2, <5>1, <5>3 DEF HeaderAt
      <4> QED BY <1>2, <1>4, <4>1, <4>2
    <3>6. NoHeaderMissed'
      BY <1>1, <1>8, <3>1, <3>5 DEF NoHeaderMissed, HeaderAt
    <3> QED BY <3>4, <3>6
  <2> QED BY <1>5, <2>1, <2>2, <2>3
<1>15. StreamInv'
  BY <1>10, <1>11, <1>12, <1>13, <1>14 DEF StreamInv
<1> QED BY <1>6, <1>9, <1>15 DEF b

(* A stuttering step changes nothing. *)
LEMMA StutterInv ==
  ASSUME StreamInv, UNCHANGED vars
  PROVE  StreamInv'
BY DEF StreamInv, vars, parserVars, TypeOK, ParserTypeOK, BufferNotFull,
       InputIsLineEnd, BufferIsLineSuffix, SearchReaches, NoHeaderMissed,
       Copied

(* The inductive invariant of the parser on a stream. *)
THEOREM Invariance == Spec => []StreamInv
<1>1. Init => StreamInv
  BY InitInv
<1>2. StreamInv /\ [Next]_vars => StreamInv'
  BY ReadInv, StepInv, StutterInv DEF Next
<1> QED BY <1>1, <1>2, PTL DEF Spec

-----------------------------------------------------------------------------
(* Every variable of the receiver keeps its type: in particular a decoded
   payload has its sixteen channels and each is a pulse width. *)
THEOREM TypeCorrect == Spec => []TypeOK
<1>1. StreamInv => TypeOK
  BY DEF StreamInv
<1> QED BY <1>1, Invariance, PTL

(* crsf_parse never reaches its "no progress" branch, for any sizes with room
   for a frame and for the bytes kept by a discard. *)
THEOREM Progress == Spec => []MakesProgress
<1>1. StreamInv => MakesProgress
  <2> SUFFICES ASSUME StreamInv, input # <<>> PROVE CopyLen > 0
    BY DEF MakesProgress
  <2>1. CopyLen \in 1 .. Len(input) /\ Len(input) \in Nat
    BY Copying, LenProperties DEF StreamInv, TypeOK, ParserTypeOK
  <2> QED BY <2>1
<1> QED BY <1>1, Invariance, PTL

(* The buffer is always the last bytes received and copied. *)
THEOREM BufferCorrect == Spec => []BufferIsLineSuffix
<1>1. StreamInv => BufferIsLineSuffix
  BY DEF StreamInv
<1> QED BY <1>1, Invariance, PTL

(* An unsynced parser has passed no RC header since it last dropped bytes. *)
THEOREM SearchCorrect == Spec => []NoHeaderMissed
<1>1. StreamInv => NoHeaderMissed
  BY DEF StreamInv
<1> QED BY <1>1, Invariance, PTL

-----------------------------------------------------------------------------
(* A frame decoded out of the buffer is a frame of the line. *)
LEMMA DecodedFromLine ==
  ASSUME StreamInv, Step,
         NEW m \in 1 .. Len(Filled) + 1, DecodedBefore(Filled, m)
  PROVE  \E start \in Copied - Len(frame) .. Len(line) - (RcLength + HeaderSize) :
           /\ start + (RcLength + HeaderSize) = (Copied - Len(frame)) + (m - 1)
           /\ IsValidRc(SubSeq(line, start + 1, start + (RcLength + HeaderSize)))
           /\ values' = DecodeRc(SubSeq(line, start + 1,
                                        start + (RcLength + HeaderSize)))
<1> USE SizeAssumption
<1> DEFINE b == Filled
           base == Copied - Len(frame)
           size == RcLength + HeaderSize
<1>1. /\ frame \in Seq(Byte) /\ line \in Seq(Byte)
      /\ Len(frame) \in Nat /\ Len(line) \in Nat /\ size \in 4 .. FrameSize
      /\ Len(frame) <= Copied
      /\ input # <<>>
  BY StepParses, LenProperties DEF StreamInv, TypeOK, ParserTypeOK, BufferIsLineSuffix
<1>2. /\ b \in Seq(Byte)
      /\ Len(Rest) \in Nat
      /\ Len(b) <= Len(line) - Len(Rest)
      /\ (Len(line) - Len(Rest)) - Len(b) = base
      /\ \A i \in 1 .. Len(b) : b[i] = line[(Len(line) - Len(Rest)) - Len(b) + i]
  BY <1>1, Copying, LenProperties
<1>3. /\ Len(b) \in Nat /\ base \in Nat /\ base + Len(b) <= Len(line)
      /\ \A i \in 1 .. Len(b) : b[i] = line[base + i]
  <2>1. Len(b) \in Nat
    BY <1>2, LenProperties
  <2> HIDE DEF b, base
  <2> QED BY <1>1, <1>2, <2>1, SMTT(30)
<1>4. PICK k \in 1 .. m :
        /\ m - k = size
        /\ IsValidRc(SubSeq(b, k, m - 1))
        /\ values' = DecodeRc(SubSeq(b, k, m - 1))
  BY DEF DecodedBefore
<1> HIDE DEF b, base, size
<1>5. /\ m \in 1 .. Len(b) + 1
      /\ k \in 1 .. Len(b) /\ m - 1 \in k .. Len(b)
      /\ base + (m - 1) <= Len(line)
      /\ k + size = m
  <2>1. m \in 1 .. Len(b) + 1
    BY DEF b
  <2>2. size \in Nat /\ size >= 4 /\ m \in Int /\ k \in Int /\ 1 <= k
    BY <1>1, <2>1
  <2>3. k + size = m /\ m - 1 <= Len(b)
    BY <1>3, <1>4, <2>1, <2>2
  <2>4. base \in Nat /\ Len(b) \in Nat /\ base + Len(b) <= Len(line) /\ Len(line) \in Nat
    BY <1>1, <1>3
  <2>5. k \in 1 .. Len(b) /\ m - 1 \in k .. Len(b)
    BY <2>2, <2>3, <2>4
  <2>6. base + (m - 1) <= Len(line)
    BY <2>2, <2>3, <2>4
  <2> QED BY <2>1, <2>3, <2>5, <2>6, Zenon
<1>6. \A i \in k .. m - 1 : b[i] = line[base + i]
  <2> SUFFICES ASSUME NEW i \in k .. m - 1 PROVE i \in 1 .. Len(b)
    BY <1>3
  <2>1. Len(b) \in Nat
    BY <1>3
  <2> QED BY <1>5, <2>1
<1>7. SubSeq(b, k, m - 1) = SubSeq(line, base + k, base + (m - 1))
  BY <1>1, <1>2, <1>3, <1>5, <1>6, SameWindow
<1> DEFINE start == base + (k - 1)
<1>8. /\ start \in base .. Len(line) - size
      /\ start + 1 = base + k
      /\ start + size = base + (m - 1)
  BY <1>1, <1>3, <1>5
<1> HIDE DEF start
<1>9. /\ IsValidRc(SubSeq(line, start + 1, start + size))
      /\ values' = DecodeRc(SubSeq(line, start + 1, start + size))
  BY <1>4, <1>7, <1>8
<1> QED BY <1>8, <1>9 DEF base, size

(* The abstract cursor is a place in the line. *)
LEMMA TypedCursor ==
  StreamInv => /\ Len(line) \in Nat
               /\ Copied - Len(frame) \in Nat
               /\ Copied - Len(frame) <= Len(line)
<1> SUFFICES ASSUME StreamInv
             PROVE  /\ Len(line) \in Nat
                    /\ Copied - Len(frame) \in Nat
                    /\ Copied - Len(frame) <= Len(line)
  OBVIOUS
<1>1. Len(frame) \in Nat /\ Len(input) \in Nat /\ Len(line) \in Nat
  BY LenProperties DEF StreamInv, TypeOK, ParserTypeOK
<1>2. Len(frame) <= Len(line) - Len(input)
  BY DEF StreamInv, BufferIsLineSuffix, Copied
<1> QED BY <1>1, <1>2 DEF Copied

(* The parser implements the abstract receiver: on any stream it hands its
   caller only valid frames that stand in the line, in their order, and never
   the same bytes twice. *)
THEOREM Refinement == Spec => ImplementsDelivery
<1>1. Init => Delivery!Init
  <2> SUFFICES ASSUME Init PROVE Delivery!Init
    OBVIOUS
  <2>1. Len(<<>>) = 0
    BY EmptySeq
  <2>2. frame = <<>> /\ input = <<>> /\ line = <<>> /\ values = Zero
    BY DEF Init, ParserInit
  <2>3. Copied - Len(frame) = 0
    <3>1. Len(frame) = 0 /\ Len(input) = 0 /\ Len(line) = 0
      BY <2>1, <2>2
    <3>2. Copied - Len(frame) = (Len(line) - Len(input)) - Len(frame)
      BY DEF Copied
    <3> QED BY <3>1, <3>2
  <2> QED BY <2>2, <2>3 DEF Delivery!Init
<1>2. StreamInv /\ [Next]_vars => [Delivery!Next]_(Delivery!vars)
  <2> SUFFICES ASSUME StreamInv, [Next]_vars
               PROVE  [Delivery!Next]_(Delivery!vars)
    OBVIOUS
  <2>1. CASE Read
    <3>1. Len(line) < Len(line') /\ \A i \in 1 .. Len(line) : line'[i] = line[i]
      <4>1. PICK n \in 1 .. ReadSize : \E chunk \in [1 .. n -> Byte] :
              line' = line \o chunk
        BY <2>1 DEF Read
      <4>2. PICK chunk \in [1 .. n -> Byte] : line' = line \o chunk
        BY <4>1
      <4>3. chunk \in Seq(Byte) /\ Len(chunk) = n /\ n \in Nat /\ n > 0
        BY SizeAssumption
      <4>4. line \in Seq(Byte) /\ Len(line) \in Nat
        BY LenProperties DEF StreamInv, TypeOK
      <4>5. /\ Len(line \o chunk) = Len(line) + Len(chunk)
            /\ \A i \in 1 .. Len(line) + Len(chunk) :
                 (line \o chunk)[i] =
                   IF i <= Len(line) THEN line[i] ELSE chunk[i - Len(line)]
        BY <4>3, <4>4, ConcatProperties
      <4>6. Len(line') = Len(line) + n
        BY <4>2, <4>3, <4>5, Zenon
      <4>7. ASSUME NEW i \in 1 .. Len(line)
            PROVE  line'[i] = line[i]
        <5>1. i \in 1 .. Len(line) + n /\ i <= Len(line)
          BY <4>3, <4>4
        <5> QED BY <4>2, <4>3, <4>5, <5>1, Zenon
      <4> QED BY <4>3, <4>4, <4>6, <4>7
    <3>2. Copied' = Copied /\ frame' = frame /\ values' = values
      BY <2>1, ReadInv DEF Read, Call
    <3>3. (Copied - Len(frame))' = Copied - Len(frame)
      BY <3>2
    <3> QED BY <3>1, <3>2, <3>3 DEF Delivery!Next, Delivery!Receive
  <2>2. CASE Step
    <3>1. PICK m \in 1 .. Len(Filled) + 1 :
            /\ Copied' - Len(frame') = (Copied - Len(frame)) + (m - 1)
            /\ values' = values \/ DecodedBefore(Filled, m)
      BY <2>2, StepInv
    <3>2. line' = line
      BY <2>2, StepParses
    <3> DEFINE cursor == Copied - Len(frame)
    <3>3. cursor' = cursor + (m - 1)
      BY <3>1
    <3>4. /\ Len(line) \in Nat /\ cursor \in Nat
          /\ m \in Nat \ {0} /\ cursor + (m - 1) <= Len(line)
      <4>1. /\ Len(Filled) \in Nat /\ Len(Rest) \in Nat
            /\ (Len(line) - Len(Rest)) - Len(Filled) = cursor
        BY <2>2, StepParses, Copying, LenProperties
      <4>2. Len(line) \in Nat /\ cursor \in Nat
        BY TypedCursor
      <4> HIDE DEF cursor
      <4> QED BY <4>1, <4>2
    <3>5. CASE DecodedBefore(Filled, m)
      <4>1. Delivery!Deliver
        BY <2>2, <3>2, <3>3, <3>5, DecodedFromLine DEF Delivery!Deliver
      <4> QED BY <4>1 DEF Delivery!Next
    <3>6. CASE values' = values /\ m = 1
      <4>1. cursor' = cursor
        BY <3>3, <3>4, <3>6
      <4> QED BY <3>2, <3>6, <4>1 DEF Delivery!vars
    <3>7. CASE values' = values /\ m # 1
      <4>1. cursor' \in cursor + 1 .. Len(line)
        <5> HIDE DEF cursor
        <5> QED BY <3>3, <3>4, <3>7
      <4>2. Delivery!Skip
        BY <3>2, <3>7, <4>1 DEF Delivery!Skip
      <4> QED BY <4>2 DEF Delivery!Next
    <3> QED BY <3>1, <3>5, <3>6, <3>7
  <2>3. CASE UNCHANGED vars
    BY <2>3 DEF vars, parserVars, Delivery!vars, Copied
  <2> QED BY <2>1, <2>2, <2>3 DEF Next
<1> QED BY <1>1, <1>2, Invariance, PTL DEF Spec, Delivery!Spec, ImplementsDelivery

-----------------------------------------------------------------------------
(* What a recursive function computes, by induction.                        *)

(* Induction over the natural numbers, as a fact about sets.                *)
LEMMA SetInduction ==
  ASSUME NEW S, 0 \in S, \A n \in Nat : n \in S => n + 1 \in S
  PROVE  Nat \subseteq S
<1> DEFINE T == Nat \ S
           R == OpToRel(<, Nat)
<1>1. SUFFICES ASSUME T # {} PROVE FALSE
  OBVIOUS
<1>2. \E x \in T : \A y \in T : ~ (<<y, x>> \in R)
  <2>1. IsWellFoundedOn(R, Nat)
    BY NatLessThanWellFounded
  <2>2. T \subseteq Nat
    OBVIOUS
  <2> HIDE DEF T, R
  <2> QED BY <1>1, <2>1, <2>2, WFMin
<1>3. PICK x \in T : \A y \in T : ~ (<<y, x>> \in R)
  BY <1>2
<1>4. \A y \in T : ~ (y < x)
  BY <1>3 DEF OpToRel
<1>5. x # 0 /\ x - 1 \in Nat /\ x \in Nat
  OBVIOUS
<1>6. x - 1 \in S
  BY <1>4, <1>5
<1> QED BY <1>5, <1>6

\* g[k] is what k steps of op make of base, for all k up to n.
Iteration(g, S, base, op, n) ==
  /\ g \in [0 .. n -> S]
  /\ g[0] = base
  /\ \A k \in 1 .. n : g[k] = op[<<g[k - 1], k>>]

(* A step can be iterated any number of times.                              *)
LEMMA Iterated ==
  ASSUME NEW S, NEW base \in S, NEW n \in Nat, NEW op \in [S \X (1 .. n) -> S]
  PROVE  \E g : Iteration(g, S, base, op, n)
<1> DEFINE Upto(g, m) == Iteration(g, S, base, op, m)
           I == {m \in Nat : m <= n => \E g : Upto(g, m)}
<1>1. 0 \in I
  <2>1. Upto([k \in 0 .. 0 |-> base], 0)
    BY DEF Iteration
  <2> QED BY <2>1
<1>2. ASSUME NEW m \in Nat, m \in I
      PROVE  m + 1 \in I
  <2>1. SUFFICES ASSUME m + 1 <= n
                 PROVE  \E g : Upto(g, m + 1)
    OBVIOUS
  <2>2. PICK g : Upto(g, m)
    BY <1>2, <2>1
  <2> DEFINE new == op[<<g[m], m + 1>>]
             h == [k \in 0 .. m + 1 |-> IF k <= m THEN g[k] ELSE new]
  <2>3. g[m] \in S /\ <<g[m], m + 1>> \in S \X (1 .. n)
    BY <2>1, <2>2 DEF Iteration
  <2>4. new \in S
    BY <2>3
  <2> HIDE DEF new
  <2>5. h \in [0 .. m + 1 -> S] /\ h[0] = base
    BY <2>2, <2>4 DEF Iteration
  <2>6. ASSUME NEW k \in 1 .. m + 1
        PROVE  h[k] = op[<<h[k - 1], k>>]
    <3>1. CASE k <= m
      BY <2>2, <3>1 DEF Iteration
    <3>2. CASE k = m + 1
      <4>1. h[k] = new /\ h[k - 1] = g[m]
        BY <3>2
      <4> QED BY <3>2, <4>1 DEF new
    <3> QED BY <3>1, <3>2
  <2> QED BY <2>5, <2>6 DEF Iteration
<1> HIDE DEF I
<1>3. n \in I
  BY <1>1, <1>2, SetInduction
<1> QED BY <1>3 DEF I

-----------------------------------------------------------------------------
(* The checksum of a frame.                                                 *)

\* A set of bytes that their checksums do not leave.
Closed(S) == 0 \in S /\ \A c, a \in S : Crc8(c, a) \in S

\* g[k] is the checksum of the first k values of f, for all k up to n.
Checksums(g, f, n) ==
  /\ g[0] = 0
  /\ \A k \in 1 .. n : g[k] = Crc8(g[k - 1], f[k])

(* Such checksums exist, for any number of bytes.                           *)
LEMMA ChecksumsExist ==
  ASSUME NEW S, Closed(S), NEW f, NEW n \in Nat, \A k \in 1 .. n : f[k] \in S
  PROVE  \E g \in [0 .. n -> S] : Checksums(g, f, n)
<1> DEFINE op == [x \in S \X (1 .. n) |-> Crc8(x[1], f[x[2]])]
<1>1. op \in [S \X (1 .. n) -> S]
  BY DEF Closed
<1>2. 0 \in S
  BY DEF Closed
<1>3. \A c \in S, k \in 1 .. n : op[<<c, k>>] = Crc8(c, f[k])
  OBVIOUS
<1> HIDE DEF op
<1>4. PICK g : Iteration(g, S, 0, op, n)
  BY <1>1, <1>2, Iterated
<1>5. ASSUME NEW k \in 1 .. n
      PROVE  g[k] = Crc8(g[k - 1], f[k])
  <2>1. g[k - 1] \in S
    BY <1>4 DEF Iteration
  <2> QED BY <1>3, <1>4, <2>1 DEF Iteration
<1> QED BY <1>4, <1>5 DEF Checksums, Iteration

(* FrameCrc(p) folds the bytes of p from the third to the last but one.     *)
LEMMA CrcSteps ==
  ASSUME NEW S, Closed(S), NEW p \in Seq(S), Len(p) >= 3
  PROVE  \E g \in [2 .. Len(p) - 1 -> S] :
           /\ g[2] = 0
           /\ \A i \in 3 .. Len(p) - 1 : g[i] = Crc8(g[i - 1], p[i])
           /\ FrameCrc(p) = g[Len(p) - 1]
<1> DEFINE n == Len(p) - 3
           D == 2 .. Len(p) - 1
           Fits(g) == g = [i \in 2 .. Len(p) - 1 |->
                             IF i = 2 THEN 0 ELSE Crc8(g[i - 1], p[i])]
           u == CHOOSE g : Fits(g)
<1>1. Len(p) \in Nat /\ n \in Nat /\ \A i \in 1 .. Len(p) : p[i] \in S
  BY LenProperties, ElementOfSeq
<1>2. \E g : Fits(g)
  <2> DEFINE f == [k \in 1 .. n |-> p[k + 2]]
  <2>1. \A k \in 1 .. n : f[k] \in S
    BY <1>1
  <2>2. PICK h \in [0 .. n -> S] : Checksums(h, f, n)
    BY <1>1, <2>1, ChecksumsExist
  <2> DEFINE g == [i \in 2 .. Len(p) - 1 |-> h[i - 2]]
  <2>3. ASSUME NEW i \in 2 .. Len(p) - 1
        PROVE  g[i] = IF i = 2 THEN 0 ELSE Crc8(g[i - 1], p[i])
    <3>1. CASE i = 2
      BY <2>2, <3>1 DEF Checksums
    <3>2. CASE i # 2
      <4>1. i - 2 \in 1 .. n /\ i - 1 \in 2 .. Len(p) - 1
        BY <1>1, <3>2
      <4>2. f[i - 2] = p[i] /\ g[i] = h[i - 2] /\ g[i - 1] = h[(i - 2) - 1]
        BY <4>1
      <4>3. h[i - 2] = Crc8(h[(i - 2) - 1], f[i - 2])
        BY <2>2, <4>1 DEF Checksums
      <4> QED BY <3>2, <4>2, <4>3
    <3> QED BY <3>1, <3>2
  <2>4. Fits(g)
    BY <2>3
  <2> QED BY <2>4
<1>3. Fits(u)
  BY <1>2
<1>4. FrameCrc(p) = u[Len(p) - 1]
  BY DEF FrameCrc
<1> HIDE DEF u
<1>5. \A i \in 2 .. Len(p) - 1 : u[i] = IF i = 2 THEN 0 ELSE Crc8(u[i - 1], p[i])
  BY <1>3
<1>6. \A i \in 2 .. Len(p) - 1 : u[i] \in S
  <2> DEFINE I == {k \in Nat : k + 2 <= Len(p) - 1 => u[k + 2] \in S}
  <2>1. 0 \in I
    BY <1>1, <1>5 DEF Closed
  <2>2. ASSUME NEW k \in Nat, k \in I
        PROVE  k + 1 \in I
    <3>1. SUFFICES ASSUME k + 3 <= Len(p) - 1
                   PROVE  u[k + 3] \in S
      BY <1>1
    <3>2. u[k + 2] \in S /\ p[k + 3] \in S /\ u[k + 3] = Crc8(u[k + 2], p[k + 3])
      BY <1>1, <1>5, <2>2, <3>1
    <3> QED BY <3>2 DEF Closed
  <2> HIDE DEF I
  <2>3. Nat \subseteq I
    BY <2>1, <2>2, SetInduction
  <2>4. ASSUME NEW i \in 2 .. Len(p) - 1
        PROVE  u[i] \in S
    <3>1. i - 2 \in I
      BY <2>3
    <3> QED BY <3>1 DEF I
  <2> QED BY <2>4
<1>7. u \in [2 .. Len(p) - 1 -> S]
  BY <1>3, <1>6
<1>8. u[2] = 0 /\ \A i \in 3 .. Len(p) - 1 : u[i] = Crc8(u[i - 1], p[i])
  BY <1>1, <1>5
<1> QED BY <1>4, <1>7, <1>8

-----------------------------------------------------------------------------
(* What the checksum tells apart.                                           *)

(* Checksums stay among the bytes.                                          *)
LEMMA BytesClosed == Closed(Byte)
<1>1. ASSUME NEW c \in Byte, NEW a \in Byte
      PROVE  Crc8(c, a) \in Byte
  <2>1. Crc8(c, a) \in {Crc8(x, a) : x \in Byte}
    OBVIOUS
  <2> QED BY <2>1, ChecksumAssumption
<1> QED BY <1>1, ChecksumAssumption DEF Closed

(* Different checksums stay different when the same byte is folded in, and  *)
(* different bytes make different checksums of the same one.                *)
LEMMA CrcInjective ==
  ASSUME NEW a \in Byte, NEW c \in Byte, NEW d \in Byte, c # d
  PROVE  Crc8(c, a) # Crc8(d, a) /\ Crc8(a, c) # Crc8(a, d)
<1> DEFINE f == [x \in Byte |-> Crc8(x, a)]
           g == [x \in Byte |-> Crc8(a, x)]
<1>1. f \in Surjection(Byte, Byte)
  <2>1. f \in [Byte -> Byte]
    BY BytesClosed DEF Closed
  <2>2. ASSUME NEW t \in Byte
        PROVE  \E s \in Byte : f[s] = t
    <3>1. t \in {Crc8(x, a) : x \in Byte}
      BY ChecksumAssumption
    <3> QED BY <3>1
  <2> QED BY <2>1, <2>2 DEF Surjection
<1>2. g \in Surjection(Byte, Byte)
  <2>1. g \in [Byte -> Byte]
    BY BytesClosed DEF Closed
  <2>2. ASSUME NEW t \in Byte
        PROVE  \E s \in Byte : g[s] = t
    <3>1. t \in {Crc8(a, x) : x \in Byte}
      BY ChecksumAssumption
    <3> QED BY <3>1
  <2> QED BY <2>1, <2>2 DEF Surjection
<1> HIDE DEF f, g
<1>3. f \in Injection(Byte, Byte) /\ g \in Injection(Byte, Byte)
  BY <1>1, <1>2, ChecksumAssumption, FS_SurjSameCardinalityImpliesInj
<1>4. f[c] # f[d] /\ g[c] # g[d]
  BY <1>3 DEF Injection, IsInjective
<1> QED BY <1>4 DEF f, g

(* The checksum of an RC frame finds every single byte that is changed      *)
(* behind its length byte: a frame with one such byte changed is never      *)
(* valid, wherever in the type, the payload or the checksum it stands.      *)
THEOREM OneChangeDetected ==
  ASSUME NEW p \in Seq(Byte), IsValidRc(p), Len(p) >= 3,
         NEW q \in Seq(Byte), Len(q) = Len(p),
         NEW e \in 3 .. Len(p), q[e] # p[e],
         \A i \in 1 .. Len(p) : i # e => q[i] = p[i]
  PROVE  ~ IsValidRc(q)
<1>1. Len(p) \in Nat
  BY LenProperties
<1>2. \A i \in 1 .. Len(p) : p[i] \in Byte /\ q[i] \in Byte
  BY ElementOfSeq
<1> DEFINE l == Len(p) - 1
<1>3. PICK g \in [2 .. l -> Byte] :
        /\ g[2] = 0
        /\ \A i \in 3 .. l : g[i] = Crc8(g[i - 1], p[i])
        /\ FrameCrc(p) = g[l]
  BY CrcSteps, BytesClosed
<1>4. PICK h \in [2 .. l -> Byte] :
        /\ h[2] = 0
        /\ \A i \in 3 .. l : h[i] = Crc8(h[i - 1], q[i])
        /\ FrameCrc(q) = h[l]
  <2>1. \E h \in [2 .. Len(q) - 1 -> Byte] :
          /\ h[2] = 0
          /\ \A i \in 3 .. Len(q) - 1 : h[i] = Crc8(h[i - 1], q[i])
          /\ FrameCrc(q) = h[Len(q) - 1]
    BY CrcSteps, BytesClosed
  <2> QED BY <2>1
<1>5. \A i \in 2 .. l : g[i] = h[i] <=> i < e
  <2> DEFINE I == {k \in Nat : k + 2 <= l => (g[k + 2] = h[k + 2] <=> k + 2 < e)}
  <2>1. 0 \in I
    BY <1>3, <1>4
  <2>2. ASSUME NEW k \in Nat, k \in I
        PROVE  k + 1 \in I
    <3>1. SUFFICES ASSUME k + 3 <= l
                   PROVE  g[k + 3] = h[k + 3] <=> k + 3 < e
      BY <1>1
    <3>2. /\ g[k + 3] = Crc8(g[k + 2], p[k + 3])
          /\ h[k + 3] = Crc8(h[k + 2], q[k + 3])
          /\ g[k + 2] \in Byte /\ h[k + 2] \in Byte
          /\ p[k + 3] \in Byte /\ q[k + 3] \in Byte
      <4>1. k + 3 \in 3 .. l /\ k + 2 \in 2 .. l /\ (k + 3) - 1 = k + 2
            /\ k + 3 \in 1 .. Len(p)
        BY <1>1, <3>1
      <4> HIDE DEF l
      <4> QED BY <1>2, <1>3, <1>4, <4>1
    <3>3. g[k + 2] = h[k + 2] <=> k + 2 < e
      BY <1>1, <2>2, <3>1
    <3>4. k + 3 \in 1 .. Len(p)
      BY <1>1, <3>1
    <3>5. CASE k + 3 < e
      <4>1. q[k + 3] = p[k + 3] /\ g[k + 2] = h[k + 2]
        BY <3>3, <3>4, <3>5
      <4> QED BY <3>2, <3>5, <4>1
    <3>6. CASE k + 3 = e
      <4>1. q[k + 3] # p[k + 3] /\ g[k + 2] = h[k + 2]
        BY <3>3, <3>6
      <4>2. g[k + 3] # h[k + 3]
        BY <3>2, <4>1, CrcInjective
      <4> QED BY <3>6, <4>2
    <3>7. CASE k + 3 > e
      <4>1. q[k + 3] = p[k + 3] /\ g[k + 2] # h[k + 2]
        BY <3>3, <3>4, <3>7
      <4>2. g[k + 3] # h[k + 3]
        BY <3>2, <4>1, CrcInjective
      <4> QED BY <3>7, <4>2
    <3> QED BY <3>5, <3>6, <3>7
  <2> HIDE DEF I
  <2>3. Nat \subseteq I
    BY <2>1, <2>2, SetInduction
  <2>4. ASSUME NEW i \in 2 .. l
        PROVE  g[i] = h[i] <=> i < e
    <3>1. i - 2 \in I /\ (i - 2) + 2 = i /\ i <= l
      BY <1>1, <2>3
    <3> QED BY <3>1 DEF I
  <2> QED BY <2>4
<1>6. p[l + 1] = g[l] /\ l + 1 = Len(p) /\ l \in 2 .. l
  BY <1>1, <1>3 DEF IsValidRc
<1>7. q[l + 1] # h[l]
  <2>1. CASE e = l + 1
    <3>1. g[l] = h[l] /\ q[l + 1] # p[l + 1]
      BY <1>5, <1>6, <2>1
    <3> QED BY <1>6, <3>1
  <2>2. CASE e # l + 1
    <3>1. ~ (l < e) /\ l + 1 \in 1 .. Len(p)
      BY <1>1, <2>2
    <3>2. g[l] # h[l] /\ q[l + 1] = p[l + 1]
      BY <1>5, <1>6, <2>2, <3>1
    <3> QED BY <1>6, <3>2
  <2> QED BY <2>1, <2>2
<1> QED BY <1>4, <1>6, <1>7 DEF IsValidRc

-----------------------------------------------------------------------------
(* Places in the repeated frame.                                            *)

(* Quotient and remainder are unique.                                       *)
LEMMA Remainder ==
  ASSUME NEW n \in Nat \ {0}, NEW k \in Int, NEW r \in 0 .. n - 1
  PROVE  (n * k + r) % n = r
<1> DEFINE a == n * k + r
<1>1. a \in Int
  OBVIOUS
<1> HIDE DEF a
<1>2. a \div n \in Int /\ a % n \in 0 .. n - 1 /\ a = n * (a \div n) + (a % n)
  BY <1>1
<1> DEFINE d == a \div n
           s == a % n
<1> HIDE DEF d, s
<1>3. d \in Int /\ s \in 0 .. n - 1 /\ n * k + r = n * d + s
  BY <1>2 DEF a, d, s
<1>4. n * (k - d) = s - r
  BY <1>3
<1>5. k - d \in Int /\ s - r \in Int /\ s - r < n /\ -n < s - r
  BY <1>3
<1> DEFINE c == k - d
<1> HIDE DEF c
<1>6. c \in Int /\ n * c = s - r
  BY <1>4, <1>5 DEF c
<1>7. ~ (c >= 1)
  <2> SUFFICES ASSUME c >= 1 PROVE FALSE
    OBVIOUS
  <2>1. n * c >= n
    BY <1>6
  <2> QED BY <1>5, <1>6, <2>1
<1>8. ~ (c <= -1)
  <2> SUFFICES ASSUME c <= -1 PROVE FALSE
    OBVIOUS
  <2>1. n * c <= -n
    BY <1>6
  <2> QED BY <1>5, <1>6, <2>1
<1>9. c = 0
  BY <1>6, <1>7, <1>8
<1>10. s = r
  BY <1>3, <1>6, <1>9
<1> QED BY <1>10 DEF a, s

(* A remainder may be taken before something is added.                      *)
LEMMA ModShift ==
  ASSUME NEW n \in Nat \ {0}, NEW x \in Int, NEW y \in Int
  PROVE  ((x % n) + y) % n = (x + y) % n
<1>1. /\ x \div n \in Int /\ x % n \in 0 .. n - 1
      /\ x = n * (x \div n) + (x % n)
  OBVIOUS
<1>2. /\ (x + y) \div n \in Int /\ (x + y) % n \in 0 .. n - 1
      /\ x + y = n * ((x + y) \div n) + ((x + y) % n)
  <2> DEFINE z == x + y
  <2>1. z \in Int
    OBVIOUS
  <2> HIDE DEF z
  <2>2. z \div n \in Int /\ z % n \in 0 .. n - 1 /\ z = n * (z \div n) + (z % n)
    BY <2>1
  <2> QED BY <2>2 DEF z
<1>3. PICK q \in Int, s \in 0 .. n - 1 : x = n * q + s /\ x % n = s
  BY <1>1
<1>4. PICK d \in Int, r \in 0 .. n - 1 : x + y = n * d + r /\ (x + y) % n = r
  BY <1>2
<1>5. s + y = n * (d - q) + r
  <2>1. n * (d - q) = n * d - n * q
    OBVIOUS
  <2>2. n * d \in Int /\ n * q \in Int
    OBVIOUS
  <2> QED BY <1>3, <1>4, <2>1, <2>2
<1>6. (n * (d - q) + r) % n = r
  <2>1. d - q \in Int
    OBVIOUS
  <2> QED BY <2>1, Remainder
<1> QED BY <1>3, <1>4, <1>5, <1>6

\* The byte at place x of the line, counted from the address of some frame.
OnLine(x) == RcFrame[(x % Len(RcFrame)) + 1]

(* The frame is not empty.                                                  *)
LEMMA FrameBytes ==
  /\ Len(RcFrame) \in Nat \ {0} /\ Len(RcFrame) >= 4
  /\ Len(RcFrame) = RcLength + HeaderSize
  /\ \A x \in Int : /\ x % Len(RcFrame) \in 0 .. Len(RcFrame) - 1
                    /\ (x % Len(RcFrame)) + 1 \in 1 .. Len(RcFrame)
                    /\ OnLine(x) \in Byte
<1>1. Len(RcFrame) \in Nat /\ Len(RcFrame) = RcLength + HeaderSize
  BY RcFrameAssumption, LenProperties
<1>2. Len(RcFrame) >= 4
  BY <1>1, SizeAssumption
<1>3. ASSUME NEW x \in Int
      PROVE  /\ x % Len(RcFrame) \in 0 .. Len(RcFrame) - 1
             /\ (x % Len(RcFrame)) + 1 \in 1 .. Len(RcFrame)
  <2> DEFINE n == Len(RcFrame)
  <2>1. n \in Nat \ {0}
    BY <1>1, <1>2
  <2> HIDE DEF n
  <2>2. x % n \in 0 .. n - 1
    BY <2>1
  <2>3. (x % n) + 1 \in 1 .. n
    BY <2>1, <2>2
  <2> QED BY <2>2, <2>3 DEF n
<1>4. ASSUME NEW x \in Int
      PROVE  OnLine(x) \in Byte
  <2>1. (x % Len(RcFrame)) + 1 \in 1 .. Len(RcFrame)
    BY <1>3
  <2> DEFINE i == (x % Len(RcFrame)) + 1
  <2> HIDE DEF i
  <2>2. RcFrame[i] \in Byte
    BY <2>1, RcFrameAssumption, ElementOfSeq DEF i
  <2> QED BY <2>2 DEF OnLine, i
<1>5. Len(RcFrame) # 0
  BY <1>1, <1>2
<1> QED BY <1>1, <1>2, <1>3, <1>4, <1>5, Zenon

(* Counting on from a place counts in the line.                             *)
LEMMA CountOn ==
  ASSUME NEW x \in Int, NEW y \in Int
  PROVE  OnLine((x % Len(RcFrame)) + y) = OnLine(x + y)
BY ModShift, FrameBytes DEF OnLine

\* The bytes of b are those of the line from its place x on, but for the one
\* at e, which has been changed.
Undisturbed(b, x, e) ==
  \A i \in 1 .. Len(b) : IF i = e THEN b[i] \in Noise ELSE b[i] = OnLine(x + i - 1)

(* Where the header of an RC frame seems to be, one is: no single change    *)
(* makes another.                                                           *)
LEMMA Aligned ==
  ASSUME NEW p \in Seq(Byte), Len(p) >= 3, IsRcFrame(p),
         NEW x \in Int, NEW e \in Int, Undisturbed(p, x, e)
  PROVE  x % Len(RcFrame) = 0
<1> DEFINE n == Len(RcFrame)
           y == x + 1
           i == (y % n) + 1
           j == (i % n) + 1
<1>0. n \in Nat \ {0} /\ n >= 4 /\ y \in Int
  BY FrameBytes
<1> HIDE DEF y
<1>i. i \in 1 .. n /\ y % n \in 0 .. n - 1
  BY <1>0, FrameBytes, Zenon
<1>1. OnLine(y) = RcFrame[i]
  BY DEF OnLine
<1>2. OnLine(y + 1) = RcFrame[j]
  <2>1. ((y % n) + 1) % n = (y + 1) % n
    <3> HIDE DEF n
    <3>1. n \in Nat \ {0} /\ y \in Int /\ 1 \in Int
      BY <1>0
    <3> QED BY <3>1, ModShift, Zenon
  <2> QED BY <2>1 DEF OnLine
<1>3. p[2] = RcLength /\ p[3] = RcType
  BY DEF IsRcFrame
<1>4. /\ IF 2 = e THEN p[2] \in Noise ELSE p[2] = RcFrame[i]
      /\ IF 3 = e THEN p[3] \in Noise ELSE p[3] = RcFrame[j]
  <2>1. 2 \in 1 .. Len(p) /\ 3 \in 1 .. Len(p)
    BY LenProperties
  <2>2. x + 2 - 1 = y /\ x + 3 - 1 = y + 1
    BY DEF y
  <2> QED BY <1>1, <1>2, <2>1, <2>2 DEF Undisturbed
<1>5. i = 2
  <2> SUFFICES ASSUME i # 2 PROVE FALSE
    OBVIOUS
  <2>1. /\ RcFrame[i] # RcLength \/ RcFrame[j] # RcType
        /\ RcFrame[i] # RcLength \/ RcType \notin Noise
        /\ RcLength \notin Noise \/ RcFrame[j] # RcType
    BY <1>i, HeaderAssumption
  <2> QED BY <1>3, <1>4, <2>1
<1>6. y % n = 1
  <2> DEFINE r == y % n
  <2>1. r \in Int /\ r + 1 = 2
    BY <1>0, <1>5, <1>i
  <2> HIDE DEF r
  <2>2. r = 1
    BY <2>1
  <2> QED BY <2>2 DEF r
<1>7. ((y % n) + (-1)) % n = (y + (-1)) % n
  <2> HIDE DEF n
  <2>1. -1 \in Int
    OBVIOUS
  <2> QED BY <1>0, <2>1, ModShift
<1>8. 1 + (-1) = 0 /\ y + (-1) = x
  BY DEF y
<1>9. 0 % n = 0
  <2> HIDE DEF n
  <2> QED BY <1>0
<1> QED BY <1>6, <1>7, <1>8, <1>9

(* A valid RC frame out of a line with one change is the frame that is      *)
(* sent.                                                                    *)
LEMMA OnlyTheFrame ==
  ASSUME NEW p \in Seq(Byte), Len(p) = Len(RcFrame), IsValidRc(p),
         NEW x \in Int, NEW e \in Int, Undisturbed(p, x, e)
  PROVE  DecodeRc(p) = DecodeRc(RcFrame)
<1> DEFINE n == Len(RcFrame)
<1>0. n \in Nat \ {0} /\ n >= 4 /\ Len(p) = n
  BY FrameBytes
<1>1. x % n = 0
  BY <1>0, Aligned DEF IsValidRc
<1>2. ASSUME NEW i \in 1 .. n
      PROVE  OnLine(x + i - 1) = RcFrame[i]
  <2>1. OnLine((x % n) + (i - 1)) = OnLine(x + (i - 1))
    <3>1. i - 1 \in Int
      BY <1>0
    <3> QED BY <3>1, CountOn
  <2>2. x + i - 1 = x + (i - 1) /\ (x % n) + (i - 1) = i - 1
    BY <1>0, <1>1
  <2>3. (i - 1) % n = i - 1
    <3> HIDE DEF n
    <3>1. i - 1 \in 0 .. n - 1 /\ n * 0 + (i - 1) = i - 1
      BY <1>0
    <3>2. (n * 0 + (i - 1)) % n = i - 1
      BY <1>0, <3>1, Remainder
    <3> QED BY <3>1, <3>2
  <2>4. (i - 1) + 1 = i
    BY <1>0
  <2> QED BY <2>1, <2>2, <2>3, <2>4 DEF OnLine
<1>3. ASSUME NEW i \in 1 .. n, i # e
      PROVE  p[i] = RcFrame[i]
  BY <1>0, <1>2, <1>3 DEF Undisturbed
<1>4. \A i \in 3 .. n : p[i] = RcFrame[i]
  <2> SUFFICES ASSUME NEW i \in 3 .. n, p[i] # RcFrame[i]
               PROVE  FALSE
    OBVIOUS
  <2>1. i = e /\ e \in 3 .. n
    <3>1. i \in 1 .. n
      BY <1>0
    <3> QED BY <1>3, <3>1
  <2>2. RcFrame \in Seq(Byte) /\ IsValidRc(RcFrame)
    BY RcFrameAssumption
  <2> HIDE DEF n
  <2>3. ~ IsValidRc(p)
    <3>1. \A k \in 1 .. n : k # e => p[k] = RcFrame[k]
      BY <1>3
    <3>2. p[e] # RcFrame[e]
      BY <2>1
    <3> QED BY <1>0, <2>1, <2>2, <3>1, <3>2, OneChangeDetected DEF n
  <2> QED BY <2>3
<1>5. RcPayload(p) = RcPayload(RcFrame)
  <2>1. RcPayload(p) = SubSeq(p, 4, n - 1) /\ RcPayload(RcFrame) = SubSeq(RcFrame, 4, n - 1)
    BY <1>0 DEF RcPayload
  <2>2. \A i \in 4 .. n - 1 : p[i] = RcFrame[i] /\ p[i] \in Byte
    <3> SUFFICES ASSUME NEW i \in 4 .. n - 1
                 PROVE  p[i] = RcFrame[i] /\ p[i] \in Byte
      OBVIOUS
    <3>1. i \in 3 .. n /\ i \in 1 .. Len(p)
      BY <1>0
    <3> QED BY <1>4, <3>1, ElementOfSeq
  <2> HIDE DEF n
  <2>3. 4 \in Int /\ n - 1 \in Int
    BY <1>0
  <2>4. /\ SubSeq(p, 4, n - 1) \in Seq(Byte)
        /\ Len(SubSeq(p, 4, n - 1)) = IF 4 <= n - 1 THEN (n - 1) - 4 + 1 ELSE 0
        /\ \A i \in 1 .. (n - 1) - 4 + 1 : SubSeq(p, 4, n - 1)[i] = p[4 + i - 1]
    BY <2>2, <2>3, SubSeqProperties
  <2>5. /\ SubSeq(RcFrame, 4, n - 1) \in Seq(Byte)
        /\ Len(SubSeq(RcFrame, 4, n - 1)) = IF 4 <= n - 1 THEN (n - 1) - 4 + 1 ELSE 0
        /\ \A i \in 1 .. (n - 1) - 4 + 1 :
             SubSeq(RcFrame, 4, n - 1)[i] = RcFrame[4 + i - 1]
    BY <2>2, <2>3, SubSeqProperties
  <2> DEFINE s == SubSeq(p, 4, n - 1)
             t == SubSeq(RcFrame, 4, n - 1)
  <2>6. ASSUME NEW i \in 1 .. Len(s)
        PROVE  s[i] = t[i]
    <3>1. i \in 1 .. (n - 1) - 4 + 1 /\ 4 + i - 1 \in 4 .. n - 1
      BY <1>0, <2>4
    <3> QED BY <2>2, <2>4, <2>5, <3>1
  <2>7. s \in Seq(Byte) /\ t \in Seq(Byte) /\ Len(s) = Len(t)
    BY <2>4, <2>5
  <2> HIDE DEF s, t
  <2>8. s = t
    BY <2>6, <2>7, SeqEqual
  <2> QED BY <2>1, <2>8 DEF s, t, n
<1> QED BY <1>5 DEF DecodeRc

-----------------------------------------------------------------------------
(* The invariant of the link.                                               *)

LinkTypeOK ==
  /\ ParserTypeOK
  /\ BufferNotFull
  /\ next \in 1 .. Len(RcFrame)
  /\ losses \in Nat
  /\ changes \in Nat

\* What the parser has not taken is the last that was on the line, but for
\* one byte if one was changed; what it has taken were the channels sent.
SentSoFar ==
  /\ values \in {Zero, DecodeRc(RcFrame)}
  /\ \E e \in Int :
       /\ e <= Len(frame \o input)
       /\ changes = 0 => e <= 0
       /\ Undisturbed(frame \o input, next - 1 - Len(frame \o input), e)

LinkInv ==
  /\ LinkTypeOK
  /\ losses = 0 /\ changes <= 1 => SentSoFar

(* The place after the next n bytes.                                        *)
LEMMA Onwards ==
  ASSUME next \in 1 .. Len(RcFrame), NEW n \in Nat
  PROVE  /\ After(n) \in 1 .. Len(RcFrame)
         /\ \A y \in Int : OnLine(After(n) - 1 + y) = OnLine(next - 1 + n + y)
<1>1. Len(RcFrame) \in Nat
  BY FrameBytes
<1> DEFINE x == next + n - 1
<1>2. x \in Int /\ x = next - 1 + n
  BY <1>1
<1> HIDE DEF x
<1>3. After(n) = (x % Len(RcFrame)) + 1
  BY DEF After, x
<1>4. x % Len(RcFrame) \in Int /\ After(n) \in 1 .. Len(RcFrame)
  BY <1>1, <1>2, <1>3, FrameBytes
<1>5. After(n) - 1 = x % Len(RcFrame)
  BY <1>3, <1>4
<1> QED BY <1>2, <1>4, <1>5, CountOn

(* A read adds to an empty input what has come over the line.               *)
LEMMA ReadMore ==
  ASSUME frame \in Seq(Byte), input = <<>>, NEW c \in Seq(Byte), input' = c,
         frame' = frame
  PROVE  /\ frame \o input = frame
         /\ frame' \o input' \in Seq(Byte)
         /\ Len(frame' \o input') = Len(frame) + Len(c)
         /\ \A i \in 1 .. Len(frame) + Len(c) :
              (frame' \o input')[i] = IF i <= Len(frame) THEN frame[i]
                                                         ELSE c[i - Len(frame)]
BY ConcatProperties, ConcatEmptySeq

(* At first nothing was received.                                           *)
LEMMA LinkInitInv == LinkInit => LinkInv
<1> SUFFICES ASSUME LinkInit PROVE LinkInv
  OBVIOUS
<1>1. /\ frame = <<>> /\ input = <<>> /\ values = Zero /\ num_values = 0
      /\ parser_state = "unsynced" /\ ret = FALSE
      /\ next \in 1 .. Len(RcFrame) /\ losses = 0 /\ changes = 0
  BY DEF LinkInit, ParserInit
<1>2. <<>> \in Seq(Byte) /\ Len(<<>>) = 0
  BY EmptySeq
<1>3. Zero \in [0 .. ChannelCount - 1 -> Nat]
  BY Zenon DEF Zero
<1>4. LinkTypeOK
  <2>1. ParserTypeOK
    BY <1>1, <1>2, <1>3 DEF ParserTypeOK
  <2>2. BufferNotFull
    BY <1>1, <1>2, SizeAssumption DEF BufferNotFull, Kept
  <2> QED BY <1>1, <2>1, <2>2 DEF LinkTypeOK
<1>5. SentSoFar
  <2>1. frame \o input = <<>> /\ Len(frame \o input) = 0
    BY <1>1, <1>2, ConcatEmptySeq
  <2>2. Undisturbed(frame \o input, next - 1 - Len(frame \o input), 0)
    BY <2>1 DEF Undisturbed
  <2> QED BY <1>1, <2>1, <2>2 DEF SentSoFar
<1> QED BY <1>4, <1>5 DEF LinkInv

(* The next bytes of the line come in as they were sent.                    *)
LEMMA ListenInv ==
  ASSUME LinkInv, Listen
  PROVE  LinkInv'
<1>1. PICK n \in ReadLengths :
        Call(Incoming(n)) /\ next' = After(n) /\ UNCHANGED <<losses, changes>>
  BY DEF Listen
<1>2. /\ LinkTypeOK /\ frame \in Seq(Byte) /\ next \in 1 .. Len(RcFrame)
      /\ n \in Nat
  BY SizeAssumption, LinkAssumption DEF LinkInv, LinkTypeOK, ParserTypeOK
<1> DEFINE c == Incoming(n)
<1>3. c \in Seq(Byte) /\ Len(c) = n /\ \A i \in 1 .. n : c[i] = OnLine(next + i - 2)
  <2>1. ASSUME NEW i \in 1 .. n
        PROVE  c[i] = OnLine(next + i - 2) /\ c[i] \in Byte
    <3>1. c[i] = RcFrame[After(i - 1)]
      BY DEF Incoming
    <3>2. After(i - 1) = ((next + i - 2) % Len(RcFrame)) + 1
      <4>1. next + (i - 1) - 1 = next + i - 2
        BY <1>2, FrameBytes
      <4> QED BY <4>1 DEF After
    <3>3. next + i - 2 \in Int
      BY <1>2, FrameBytes
    <3> QED BY <3>1, <3>2, <3>3, FrameBytes DEF OnLine
  <2>2. c = [i \in 1 .. n |-> c[i]]
    BY DEF Incoming
  <2> HIDE DEF c
  <2>3. c \in [1 .. n -> Byte]
    BY <2>1, <2>2
  <2> QED BY <1>2, <2>1, <2>3
<1>4. /\ input = <<>> /\ input' = c /\ frame' = frame /\ values' = values
      /\ num_values' = num_values /\ parser_state' = parser_state /\ ret' = FALSE
  BY <1>1 DEF Call
<1> HIDE DEF c
<1>5. /\ After(n) \in 1 .. Len(RcFrame)
      /\ \A y \in Int : OnLine(After(n) - 1 + y) = OnLine(next - 1 + n + y)
  BY <1>2, Onwards
<1>6. LinkTypeOK'
  BY <1>1, <1>2, <1>3, <1>4, <1>5 DEF LinkTypeOK, ParserTypeOK, BufferNotFull
<1>7. ASSUME losses' = 0, changes' <= 1
      PROVE  SentSoFar'
  <2>1. SentSoFar /\ changes' = changes
    BY <1>1, <1>7 DEF LinkInv
  <2> DEFINE b == frame' \o input'
             l == Len(frame)
  <2>2. /\ frame \o input = frame /\ b \in Seq(Byte) /\ Len(b) = l + n
        /\ \A i \in 1 .. l + n : b[i] = IF i <= l THEN frame[i] ELSE c[i - l]
    BY <1>2, <1>3, <1>4, ReadMore
  <2>3. PICK e \in Int : /\ e <= l
                         /\ changes = 0 => e <= 0
                         /\ Undisturbed(frame, next - 1 - l, e)
    BY <2>1, <2>2 DEF SentSoFar
  <2>4. l \in Nat /\ next \in Int /\ After(n) \in Int
    BY <1>2, <1>5, FrameBytes, LenProperties
  <2> HIDE DEF l, b
  <2>5. ASSUME NEW i \in 1 .. l + n
        PROVE  IF i = e THEN b[i] \in Noise
                        ELSE b[i] = OnLine(After(n) - 1 - (l + n) + i - 1)
    <3>1. OnLine(After(n) - 1 - (l + n) + i - 1) = OnLine(next - 1 - l + i - 1)
      <4> DEFINE y == i - 1 - (l + n)
      <4>1. y \in Int /\ After(n) - 1 - (l + n) + i - 1 = After(n) - 1 + y
            /\ next - 1 - l + i - 1 = next - 1 + n + y
        BY <1>2, <2>4
      <4> HIDE DEF y
      <4> QED BY <1>5, <4>1
    <3>2. CASE i <= l
      <4>1. i \in 1 .. Len(frame)
        BY <2>4, <3>2 DEF l
      <4>2. IF i = e THEN frame[i] \in Noise
                     ELSE frame[i] = OnLine(next - 1 - l + i - 1)
        BY <2>3, <4>1 DEF Undisturbed
      <4> QED BY <2>2, <3>1, <3>2, <4>2
    <3>3. CASE ~ (i <= l)
      <4>1. i - l \in 1 .. n /\ next + (i - l) - 2 = next - 1 - l + i - 1 /\ i # e
        BY <1>2, <2>3, <2>4, <3>3
      <4>2. b[i] = OnLine(next + (i - l) - 2)
        BY <1>3, <2>2, <3>3, <4>1
      <4> QED BY <3>1, <4>1, <4>2
    <3> QED BY <3>2, <3>3
  <2>6. Undisturbed(b, next' - 1 - Len(b), e)
    BY <1>1, <2>2, <2>5 DEF Undisturbed
  <2>7. e <= Len(b)
    BY <1>2, <2>2, <2>3, <2>4
  <2>8. values' \in {Zero, DecodeRc(RcFrame)}
    BY <1>4, <2>1 DEF SentSoFar
  <2> QED BY <2>1, <2>3, <2>6, <2>7, <2>8 DEF SentSoFar, b
<1> QED BY <1>6, <1>7 DEF LinkInv

(* The next byte comes in, changed.                                         *)
LEMMA ListenDisturbedInv ==
  ASSUME LinkInv, ListenDisturbed
  PROVE  LinkInv'
<1>1. PICK z \in Noise : Call(<<z>>)
  BY DEF ListenDisturbed
<1>2. next' = After(1) /\ changes' = changes + 1 /\ losses' = losses
  BY DEF ListenDisturbed
<1>3. LinkTypeOK /\ frame \in Seq(Byte) /\ next \in 1 .. Len(RcFrame)
  BY DEF LinkInv, LinkTypeOK, ParserTypeOK
<1> DEFINE c == <<z>>
<1>4. c \in Seq(Byte) /\ Len(c) = 1 /\ c[1] = z
  <2>1. z \in Byte
    BY RcFrameAssumption
  <2> QED BY <2>1
<1>5. /\ input = <<>> /\ input' = c /\ frame' = frame /\ values' = values
      /\ num_values' = num_values /\ parser_state' = parser_state /\ ret' = FALSE
  BY <1>1 DEF Call
<1> HIDE DEF c
<1>6. /\ After(1) \in 1 .. Len(RcFrame)
      /\ \A y \in Int : OnLine(After(1) - 1 + y) = OnLine(next - 1 + 1 + y)
  BY <1>3, Onwards
<1>7. LinkTypeOK'
  <2>1. ParserTypeOK' /\ BufferNotFull'
    BY <1>3, <1>4, <1>5 DEF LinkTypeOK, ParserTypeOK, BufferNotFull
  <2>2. next' \in 1 .. Len(RcFrame) /\ losses' \in Nat /\ changes' \in Nat
    BY <1>2, <1>3, <1>6 DEF LinkTypeOK
  <2> QED BY <2>1, <2>2 DEF LinkTypeOK
<1>8. ASSUME losses' = 0, changes' <= 1
      PROVE  SentSoFar'
  <2>1. SentSoFar /\ changes = 0 /\ changes' = 1
    BY <1>2, <1>3, <1>8 DEF LinkInv, LinkTypeOK
  <2> DEFINE b == frame' \o input'
             l == Len(frame)
  <2>2. /\ frame \o input = frame /\ b \in Seq(Byte) /\ Len(b) = l + 1
        /\ \A i \in 1 .. l + 1 : b[i] = IF i <= l THEN frame[i] ELSE c[i - l]
    BY <1>3, <1>4, <1>5, ReadMore
  <2>3. PICK e \in Int : e <= 0 /\ Undisturbed(frame, next - 1 - l, e)
    BY <2>1, <2>2 DEF SentSoFar
  <2>4. l \in Nat /\ next \in Int /\ After(1) \in Int
    BY <1>3, <1>6, FrameBytes, LenProperties
  <2> HIDE DEF l, b
  <2>5. ASSUME NEW i \in 1 .. l + 1
        PROVE  IF i = l + 1 THEN b[i] \in Noise
                            ELSE b[i] = OnLine(After(1) - 1 - (l + 1) + i - 1)
    <3>1. CASE i = l + 1
      <4>1. b[i] = c[1]
        BY <2>2, <2>4, <3>1
      <4> QED BY <1>4, <3>1, <4>1
    <3>2. CASE i # l + 1
      <4>1. i \in 1 .. Len(frame) /\ i <= l /\ i # e
        BY <2>3, <2>4, <3>2 DEF l
      <4>2. frame[i] = OnLine(next - 1 - l + i - 1)
        BY <2>3, <4>1 DEF Undisturbed
      <4> DEFINE y == i - 1 - (l + 1)
      <4>3. y \in Int /\ After(1) - 1 - (l + 1) + i - 1 = After(1) - 1 + y
            /\ next - 1 - l + i - 1 = next - 1 + 1 + y
        BY <2>4
      <4> HIDE DEF y
      <4>4. OnLine(After(1) - 1 - (l + 1) + i - 1) = OnLine(next - 1 - l + i - 1)
        BY <1>6, <4>3
      <4> QED BY <2>2, <3>2, <4>1, <4>2, <4>4
    <3> QED BY <3>1, <3>2
  <2>6. Undisturbed(b, next' - 1 - Len(b), l + 1)
    BY <1>2, <2>2, <2>5 DEF Undisturbed
  <2>7. l + 1 \in Int /\ l + 1 <= Len(b)
    BY <2>2, <2>4
  <2>8. values' \in {Zero, DecodeRc(RcFrame)}
    BY <1>5, <2>1 DEF SentSoFar
  <2> QED BY <2>1, <2>6, <2>7, <2>8 DEF SentSoFar, b
<1> QED BY <1>7, <1>8 DEF LinkInv

(* After a loss the invariant only promises types.                          *)
LEMMA LoseInv ==
  ASSUME LinkInv, Lose
  PROVE  LinkInv'
<1>1. LinkTypeOK
  BY DEF LinkInv
<1>2. PICK n \in 1 .. Len(RcFrame) - 1 : next' = After(n)
  BY DEF Lose
<1>3. next' \in 1 .. Len(RcFrame)
  BY <1>1, <1>2, Onwards, FrameBytes DEF LinkTypeOK
<1>4. losses' = losses + 1 /\ changes' = changes /\ UNCHANGED parserVars
  BY DEF Lose
<1>5. losses' # 0
  BY <1>1, <1>4 DEF LinkTypeOK
<1>6. LinkTypeOK'
  BY <1>1, <1>3, <1>4 DEF LinkTypeOK, ParserTypeOK, BufferNotFull, parserVars
<1> QED BY <1>5, <1>6 DEF LinkInv

(* A window of a disturbed line is one too.                                 *)
LEMMA UndisturbedPart ==
  ASSUME NEW b \in Seq(Byte), NEW x \in Int, NEW e \in Int, Undisturbed(b, x, e),
         NEW d \in Nat, NEW s \in Seq(Byte), d + Len(s) <= Len(b),
         \A i \in 1 .. Len(s) : s[i] = b[d + i]
  PROVE  Undisturbed(s, x + d, e - d)
<1> SUFFICES ASSUME NEW i \in 1 .. Len(s)
             PROVE  IF i = e - d THEN s[i] \in Noise
                                 ELSE s[i] = OnLine(x + d + i - 1)
  BY DEF Undisturbed
<1>1. Len(b) \in Nat /\ Len(s) \in Nat
  BY LenProperties
<1>2. /\ d + i \in 1 .. Len(b) /\ (d + i = e <=> i = e - d)
      /\ x + (d + i) - 1 = x + d + i - 1
  BY <1>1
<1>3. IF d + i = e THEN b[d + i] \in Noise ELSE b[d + i] = OnLine(x + (d + i) - 1)
  BY <1>2 DEF Undisturbed
<1> QED BY <1>2, <1>3

(* The parser takes bytes off the front, and decodes nothing but the frame. *)
LEMMA ParseBytesInv ==
  ASSUME LinkInv, ParseBytes
  PROVE  LinkInv'
<1>1. /\ frame \in Seq(Byte) /\ Len(frame) < FrameSize /\ input \in Seq(Byte)
      /\ LinkTypeOK /\ input # <<>> /\ Iterate
  BY DEF LinkInv, LinkTypeOK, ParserTypeOK, BufferNotFull, ParseBytes, Iterate
<1>2. /\ CopyLen \in 1 .. Len(input) /\ Len(input) \in Nat
      /\ Filled \in Seq(Byte) /\ Len(Filled) \in 1 .. FrameSize
      /\ Rest \in Seq(Byte)
  BY <1>1, Filling, LenProperties
<1>3. ParseBuffer(Filled) /\ input' = Rest
  <2>1. CopyLen # 0
    BY <1>2
  <2> QED BY <1>1, <2>1, Zenon DEF Iterate, Filled, Rest
<1>4. UNCHANGED <<next, losses, changes>>
  BY DEF ParseBytes
<1>5. /\ \E m \in 1 .. Len(Filled) + 1 :
           /\ Cut(Filled, m)
           /\ values' = values \/ DecodedBefore(Filled, m)
      /\ Len(frame') < FrameSize
      /\ parser_state' \in {"unsynced", "synced"}
      /\ ValuesTyped
  BY <1>1, <1>2, <1>3, ParsedBuffer DEF LinkTypeOK, ParserTypeOK
<1>6. PICK m \in 1 .. Len(Filled) + 1 :
        /\ Cut(Filled, m)
        /\ values' = values \/ DecodedBefore(Filled, m)
  BY <1>5
<1> DEFINE b == frame \o input
           t == SubSeq(b, m, Len(b))
<1>7. /\ b \in Seq(Byte) /\ Len(Filled) <= Len(b)
      /\ \A i \in 1 .. Len(Filled) : Filled[i] = b[i]
      /\ frame' \in Seq(Byte)
      /\ frame' \o input' = t
  BY <1>1, <1>3, <1>6, Taking DEF Cut
<1>8. LinkTypeOK'
  BY <1>1, <1>2, <1>3, <1>4, <1>5, <1>7
     DEF LinkTypeOK, ParserTypeOK, BufferNotFull, ValuesTyped
<1> HIDE DEF b
<1>9. Len(b) \in Nat /\ m \in 1 .. Len(b) + 1 /\ Len(Filled) \in Nat
  BY <1>2, <1>7, LenProperties
<1>10. /\ t \in Seq(Byte) /\ Len(t) = Len(b) - m + 1
       /\ \A i \in 1 .. Len(b) - m + 1 : t[i] = b[m + i - 1]
  BY <1>7, <1>9, Suffix
<1> HIDE DEF t
<1>11. ASSUME losses' = 0, changes' <= 1
       PROVE  SentSoFar'
  <2>1. SentSoFar /\ changes' = changes
    BY <1>4, <1>11 DEF LinkInv
  <2>2. PICK e \in Int : /\ e <= Len(b)
                         /\ changes = 0 => e <= 0
                         /\ Undisturbed(b, next - 1 - Len(b), e)
    BY <2>1 DEF SentSoFar, b
  <2> DEFINE x == next - 1 - Len(b)
  <2>3. x \in Int
    BY <1>1, <1>9, FrameBytes DEF LinkTypeOK
  <2>4. Undisturbed(b, x, e)
    BY <2>2
  <2> HIDE DEF x
  <2>5. values' \in {Zero, DecodeRc(RcFrame)}
    <3>1. CASE values' = values
      BY <2>1, <3>1 DEF SentSoFar
    <3>2. CASE DecodedBefore(Filled, m)
      <4>1. PICK k \in 1 .. m :
              /\ m - k = RcLength + HeaderSize
              /\ IsValidRc(SubSeq(Filled, k, m - 1))
              /\ values' = DecodeRc(SubSeq(Filled, k, m - 1))
        BY <3>2 DEF DecodedBefore
      <4> DEFINE p == SubSeq(Filled, k, m - 1)
      <4>2. /\ k \in Int /\ m - 1 \in Int /\ k >= 1 /\ m - 1 <= Len(Filled)
            /\ m - k = Len(RcFrame) /\ k <= m - 1
        BY <1>9, <4>1, FrameBytes
      <4>3. \A i \in k .. m - 1 : i \in 1 .. Len(Filled) /\ Filled[i] \in Byte
        BY <1>2, <1>9, <4>2, ElementOfSeq
      <4>4. /\ p \in Seq(Byte) /\ Len(p) = m - k
            /\ \A i \in 1 .. m - k : p[i] = Filled[k + i - 1]
        <5>1. /\ p \in Seq(Byte)
              /\ Len(p) = IF k <= m - 1 THEN (m - 1) - k + 1 ELSE 0
              /\ \A i \in 1 .. (m - 1) - k + 1 : p[i] = Filled[k + i - 1]
          BY <4>2, <4>3, SubSeqProperties
        <5>2. (m - 1) - k + 1 = m - k
          BY <4>2
        <5> HIDE DEF p
        <5> QED BY <4>2, <5>1, <5>2
      <4> HIDE DEF p
      <4>5. /\ k - 1 \in Nat /\ k - 1 + Len(p) <= Len(b)
            /\ \A i \in 1 .. Len(p) : p[i] = b[k - 1 + i]
        <5>1. k - 1 \in Nat /\ k - 1 + Len(p) <= Len(b)
          BY <1>7, <1>9, <4>2, <4>4
        <5>2. ASSUME NEW i \in 1 .. Len(p)
              PROVE  p[i] = b[k - 1 + i]
          <6>1. k + i - 1 \in k .. m - 1 /\ k + i - 1 = k - 1 + i
            BY <1>9, <4>2, <4>4
          <6> QED BY <1>7, <4>3, <4>4, <6>1
        <5> QED BY <5>1, <5>2
      <4>6. Undisturbed(p, x + (k - 1), e - (k - 1))
        BY <1>7, <2>3, <2>4, <4>4, <4>5, UndisturbedPart
      <4>7. DecodeRc(p) = DecodeRc(RcFrame)
        <5>1. x + (k - 1) \in Int /\ e - (k - 1) \in Int
          BY <2>3, <4>2
        <5>2. IsValidRc(p) /\ Len(p) = Len(RcFrame)
          BY <4>1, <4>2, <4>4 DEF p
        <5> QED BY <4>4, <4>6, <5>1, <5>2, OnlyTheFrame
      <4> QED BY <4>1, <4>7 DEF p
    <3> QED BY <1>6, <3>1, <3>2
  <2> DEFINE d == m - 1
  <2>6. d \in Nat /\ d + Len(t) <= Len(b) /\ Len(t) = Len(b) - d
        /\ \A i \in 1 .. Len(t) : t[i] = b[d + i]
    <3>1. d \in Nat /\ d + Len(t) <= Len(b) /\ Len(t) = Len(b) - d
      BY <1>9, <1>10
    <3>2. \A i \in 1 .. Len(t) : m + i - 1 = d + i
      BY <1>9
    <3> QED BY <1>10, <3>1, <3>2
  <2> HIDE DEF d
  <2>7. Undisturbed(t, x + d, e - d)
    BY <1>7, <1>10, <2>3, <2>4, <2>6, UndisturbedPart
  <2>8. e - d \in Int /\ e - d <= Len(t) /\ (changes = 0 => e - d <= 0)
    BY <1>9, <2>2, <2>6
  <2>9. x + d = next' - 1 - Len(t)
    BY <1>1, <1>4, <1>9, <2>6, FrameBytes DEF x, LinkTypeOK
  <2> QED BY <1>7, <2>1, <2>5, <2>7, <2>8, <2>9 DEF SentSoFar
<1> QED BY <1>8, <1>11 DEF LinkInv

(* Every step of the link keeps the invariant.                              *)
LEMMA LinkNextInv == LinkInv /\ [LinkNext]_linkVars => LinkInv'
<1>1. LinkInv /\ UNCHANGED linkVars => LinkInv'
  BY DEF linkVars, parserVars, LinkInv, LinkTypeOK, ParserTypeOK, BufferNotFull,
         SentSoFar
<1> QED BY <1>1, ListenInv, ListenDisturbedInv, LoseInv, ParseBytesInv DEF LinkNext

(* The inductive invariant of the link.                                     *)
THEOREM LinkInvariance == LinkSpec => []LinkInv
BY LinkInitInv, LinkNextInv, PTL DEF LinkSpec

(* Whatever the reads and wherever the receiver is switched on, a line with *)
(* at most one changed byte makes the parser hand out no channels but those *)
(* that were sent: for every RC frame with no other two bytes that look     *)
(* like its header, and every checksum that is a permutation in each of its *)
(* arguments.                                                               *)
THEOREM SentValuesOnly == LinkSpec => []OnlySentValues
<1>1. LinkInv => OnlySentValues
  BY DEF LinkInv, SentSoFar, OnlySentValues
<1> QED BY <1>1, LinkInvariance, PTL

(* Nor does the link ever bring the parser to its "no progress" branch,     *)
(* however many bytes are lost or changed.                                  *)
THEOREM LinkProgress == LinkSpec => []MakesProgress
<1>1. LinkInv => MakesProgress
  <2> SUFFICES ASSUME LinkInv, input # <<>> PROVE CopyLen > 0
    BY DEF MakesProgress
  <2>1. CopyLen \in 1 .. Len(input) /\ Len(input) \in Nat
    BY Filling, LenProperties
       DEF LinkInv, LinkTypeOK, ParserTypeOK, BufferNotFull
  <2> QED BY <2>1
<1> QED BY <1>1, LinkInvariance, PTL

=============================================================================
