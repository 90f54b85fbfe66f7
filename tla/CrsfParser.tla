----------------------------- MODULE CrsfParser -----------------------------
(***************************************************************************)
(* The receiver side of lib/crsf/crsf.cpp: crsf_parse, which copies the    *)
(* bytes of one UART read into the frame buffer, and crsf_parse_buffer,    *)
(* which looks for one frame in it after every copy.                       *)
(*                                                                         *)
(* `frame' is the filled part of the union rc_decode_buf.crsf_frame: its   *)
(* length is current_frame_position, and C index i is TLA+ index i + 1.    *)
(* Bytes past current_frame_position are stale and not represented, so an  *)
(* action that read one of them would be an evaluation error in TLC.       *)
(* One step of the model is one iteration of the loop in crsf_parse.       *)
(***************************************************************************)
EXTENDS Integers, Sequences, RcChannels

CONSTANTS
  Byte,           \* the values a received byte takes
  FrameSize,      \* sizeof(crsf_frame_t)
  ReadSize,       \* SBUS_BUFFER_SIZE, the most bytes loop() reads at once
  RcLength,       \* header.length of an RC frame: its payload plus 2
  RcType,         \* crsf_frame_type_t::rc_channels_packed
  Crc8(_, _)      \* crc8_dvb_s2: one byte folded into a checksum

HeaderSize == 2   \* sizeof(crsf_frame_header_t)
OneKept == 1      \* mutant of Kept
Kept == 3         \* bytes kept when a buffer without a header is discarded

\* MIN(max_channels, 16); loop() passes RC_INPUT_MAX_CHANNELS, 18.
ChannelCount == ChannelsIn(RcLength - 2)

Zero == [c \in 0 .. ChannelCount - 1 |-> 0]

ASSUME ByteAssumption == Byte \subseteq Nat
ASSUME SizeAssumption ==
  /\ FrameSize \in Nat
  /\ ReadSize \in Nat
  /\ RcLength \in Nat
  /\ FrameSize > Kept
  /\ RcLength + HeaderSize \in 4 .. FrameSize
VARIABLES
  frame,          \* the filled part of crsf_frame
  parser_state,   \* "unsynced" or "synced"
  input,          \* bytes of the current call that are not copied yet
  values,         \* _raw_rc_values, the decoded channels
  num_values,     \* _raw_rc_count
  ret             \* what the current or last call of crsf_parse returns

parserVars == <<frame, parser_state, input, values, num_values, ret>>

ParserTypeOK ==
  /\ frame \in Seq(Byte)
  /\ parser_state \in {"unsynced", "synced"}
  /\ input \in Seq(Byte)
  /\ values \in [0 .. ChannelCount - 1 -> Nat]
  /\ num_values \in {0, ChannelCount}
  /\ ret \in BOOLEAN

ParserInit ==
  /\ frame = <<>>
  /\ parser_state = "unsynced"
  /\ input = <<>>
  /\ values = Zero
  /\ num_values = 0
  /\ ret = FALSE

-----------------------------------------------------------------------------
(* Frames.  An operator that takes b or f takes the filled buffer.          *)

\* The header search compares the bytes at C indices i and i + 1 for i from 1
\* to current_frame_position - 2.
HeaderAt(b, j) == b[j] = RcLength /\ b[j + 1] = RcType

HeaderPositions(b) == {j \in 2 .. Len(b) - 1 : HeaderAt(b, j)}

IsFirstHeader(b, j) ==
  /\ j \in HeaderPositions(b)
  /\ \A k \in HeaderPositions(b) : j <= k

FrameLength(f) == f[2] + HeaderSize

\* Mutant of IsBogus: frames longer than the buffer are waited for.
IsTooShort(f) == FrameLength(f) < 4

IsBogus(f) == FrameLength(f) > FrameSize \/ FrameLength(f) < 4

\* crsf_frame_CRC: from the type byte to the last payload byte.
FrameCrc(p) ==
  LET crc[i \in 2 .. Len(p) - 1] ==
        IF i = 2 THEN 0 ELSE Crc8(crc[i - 1], p[i])
  IN  crc[Len(p) - 1]

\* p is one whole frame, address to checksum.
IsRcFrame(p) == p[2] = RcLength /\ p[3] = RcType
IsValidRc(p) == IsRcFrame(p) /\ p[Len(p)] = FrameCrc(p)

\* Mutant of RcPayload: the checksum is taken for payload.
PayloadAndCrc(p) == SubSeq(p, 4, Len(p))

RcPayload(p) == SubSeq(p, 4, Len(p) - 1)

DecodeRc(p) == Channels(RcPayload(p))

-----------------------------------------------------------------------------
(* crsf_parse_buffer, on the buffer b that the copy has just filled.        *)

NothingDecoded == UNCHANGED <<values, num_values, ret>>

\* Mutant of Unrecognised: the first bytes are kept instead of the last.
KeepFirst(b) ==
  /\ parser_state = "unsynced"
  /\ HeaderPositions(b) = {}
  /\ frame' = IF Len(b) >= FrameSize THEN SubSeq(b, 1, Kept) ELSE b
  /\ UNCHANGED parser_state
  /\ NothingDecoded

\* Mutant of Unrecognised: a buffer that is just full is not thrown away.
KeepFull(b) ==
  /\ parser_state = "unsynced"
  /\ HeaderPositions(b) = {}
  /\ frame' = IF Len(b) > FrameSize
              THEN SubSeq(b, Len(b) - Kept + 1, Len(b))
              ELSE b
  /\ UNCHANGED parser_state
  /\ NothingDecoded

\* No header yet.  A full buffer is thrown away but for its last bytes.
Unrecognised(b) ==
  /\ parser_state = "unsynced"
  /\ HeaderPositions(b) = {}
  /\ frame' = IF Len(b) >= FrameSize
              THEN SubSeq(b, Len(b) - Kept + 1, Len(b))
              ELSE b
  /\ UNCHANGED parser_state
  /\ NothingDecoded

AwaitHeader(f) ==
  /\ Len(f) < 3
  /\ frame' = f
  /\ parser_state' = "synced"
  /\ NothingDecoded

\* Mutant of DropBogus: the parser believes itself still in step.
DropInStep(f) ==
  /\ Len(f) >= 3
  /\ IsBogus(f)
  /\ frame' = <<>>
  /\ parser_state' = "synced"
  /\ NothingDecoded

\* The length is impossible: drop everything and start searching again.
DropBogus(f) ==
  /\ Len(f) >= 3
  /\ IsBogus(f)
  /\ frame' = <<>>
  /\ parser_state' = "unsynced"
  /\ NothingDecoded

AwaitBody(f) ==
  /\ Len(f) >= 3
  /\ ~ IsBogus(f)
  /\ Len(f) < FrameLength(f)
  /\ frame' = f
  /\ parser_state' = "synced"
  /\ NothingDecoded

\* Mutant of TakeFrame: the checksum is not compared.
TakeUnchecked(f) ==
  /\ Len(f) >= 3
  /\ ~ IsBogus(f)
  /\ Len(f) >= FrameLength(f)
  /\ frame' = SubSeq(f, FrameLength(f) + 1, Len(f))
  /\ parser_state' = "synced"
  /\ LET packet == SubSeq(f, 1, FrameLength(f))
     IN  IF IsRcFrame(packet)
         THEN /\ values' = DecodeRc(packet)
              /\ num_values' = ChannelCount
              /\ ret' = TRUE
         ELSE NothingDecoded

\* A whole frame is there: take it off the buffer, and decode it if it is an
\* RC frame with the right checksum.  A bad checksum does not desynchronise.
TakeFrame(f) ==
  /\ Len(f) >= 3
  /\ ~ IsBogus(f)
  /\ Len(f) >= FrameLength(f)
  /\ frame' = SubSeq(f, FrameLength(f) + 1, Len(f))
  /\ parser_state' = "synced"
  /\ LET packet == SubSeq(f, 1, FrameLength(f))
     IN  IF IsValidRc(packet)
         THEN /\ values' = DecodeRc(packet)
              /\ num_values' = ChannelCount
              /\ ret' = TRUE
         ELSE NothingDecoded

\* f starts where the parser believes a frame starts.
ParseFrame(f) ==
  \/ AwaitHeader(f)
  \/ DropBogus(f)
  \/ AwaitBody(f)
  \/ TakeFrame(f)

\* The first header found synchronises the parser, and the same call goes on
\* with the bytes from its address byte on.
Synchronise(b) ==
  /\ parser_state = "unsynced"
  /\ \E j \in HeaderPositions(b) :
       /\ IsFirstHeader(b, j)
       /\ ParseFrame(SubSeq(b, j - 1, Len(b)))

Continue(b) ==
  /\ parser_state = "synced"
  /\ ParseFrame(b)

ParseBuffer(b) ==
  \/ Unrecognised(b)
  \/ Synchronise(b)
  \/ Continue(b)

-----------------------------------------------------------------------------
(* crsf_parse.                                                              *)

Room == FrameSize - Len(frame)
CopyLen == IF Len(input) < Room THEN Len(input) ELSE Room

\* loop() hands the parser the bytes of one readBytes, after the previous
\* call has returned.
Call(chunk) ==
  /\ input = <<>>
  /\ Len(chunk) \in 1 .. ReadSize
  /\ input' = chunk
  /\ ret' = FALSE
  /\ UNCHANGED <<frame, parser_state, values, num_values>>

\* "parser bug: no progress": the call gives up and returns false.
GiveUp ==
  /\ frame' = <<>>
  /\ parser_state' = "unsynced"
  /\ input' = <<>>
  /\ ret' = FALSE
  /\ UNCHANGED <<values, num_values>>

Iterate ==
  /\ input # <<>>
  /\ IF CopyLen = 0
     THEN GiveUp
     ELSE /\ input' = SubSeq(input, CopyLen + 1, Len(input))
          /\ ParseBuffer(frame \o SubSeq(input, 1, CopyLen))

-----------------------------------------------------------------------------
(* The guard that reports a parser bug in crsf_parse (current_len == 0,      *)
(* "protection to guarantee parsing progress") never fires: whatever bytes   *)
(* came and however the reads cut them, the buffer has room whenever the     *)
(* loop copies.                                                              *)
MakesProgress == input # <<>> => CopyLen > 0

=============================================================================
