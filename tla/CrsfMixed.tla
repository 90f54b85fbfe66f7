----------------------------- MODULE CrsfMixed ------------------------------
(***************************************************************************)
(* A line that carries frames of several types: RC frames whose channels   *)
(* change, link statistics, and what the telemetry writers of crsf.cpp     *)
(* write.  No byte is lost, but loop() cuts the line into reads of its own *)
(* length, and a payload may look like the header of an RC frame.          *)
(***************************************************************************)
EXTENDS CrsfTelemetry

CONSTANTS
  Messages,       \* what may be sent
  Chunks,         \* numbers of bytes that loop() may find
  MaxFrames       \* bound on the frames that are sent and not yet read

\* The transmitter's own messages are given by their payloads.
RcMessage == [kind : {"rc"}, payload : [1 .. RcLength - 2 -> uint8_t]]
LinkMessage == [kind : {"link"}, payload : [1 .. 10 -> uint8_t]]

ASSUME MessagesAssumption ==
  Messages \subseteq RcMessage \cup LinkMessage \cup TelemetryMessage

ASSUME ChunksAssumption == Chunks \subseteq 1 .. ReadSize

link_statistics == 20

\* Bytes, lengths, types and checksums are uint8_t.
ASSUME Uint8Assumption ==
  /\ Byte = uint8_t
  /\ RcLength \in uint8_t
  /\ RcType \in uint8_t \ {link_statistics, gps, battery_sensor, attitude,
                           flight_mode}
  /\ \A c, a \in uint8_t : Crc8(c, a) \in uint8_t

\* The buffer holds each of the frames, but none together with an RC frame
\* behind it: the shortest is a flight mode without text.
ASSUME BufferAssumption ==
  /\ max_length + 4 <= FrameSize
  /\ FrameSize < (1 + 4) + RcLength + HeaderSize

VARIABLES
  queue,          \* the messages on the line that are not wholly read
  taken,          \* how many bytes of the first of them are read
  waiting,        \* history: those wholly read that the parser has not yet
                  \* taken off its buffer
  heard           \* history: the last message with channels wholly read

mixedVars == <<parserVars, queue, taken, waiting, heard>>

\* The frame of a message.
Encode(m) ==
  CASE m.kind = "rc" -> WholeFrame(RcType, Len(m.payload), m.payload)
    [] m.kind = "link" -> WholeFrame(link_statistics, 10, m.payload)
    [] m.kind = "battery" -> Battery(m)
    [] m.kind = "gps" -> Gps(m)
    [] m.kind = "attitude" -> Attitude(m)
    [] m.kind = "flight_mode" -> FlightMode(m)

\* The frames, computed once.
Frame == [m \in Messages |-> Encode(m)]

Line(messages) == FlattenSeq([i \in DOMAIN messages |-> Frame[messages[i]]])

\* Where the messages with channels stand.
Rc(messages) == {i \in DOMAIN messages : messages[i].kind = "rc"}

\* The line begins with channels, which synchronise the parser.
MixedInit ==
  /\ ParserInit
  /\ queue \in {<<m>> : m \in {n \in Messages : n.kind = "rc"}}
  /\ taken = 0
  /\ waiting = <<>>
  /\ heard = <<>>

Send ==
  /\ Len(queue) < MaxFrames
  /\ \E m \in Messages : queue' = Append(queue, m)
  /\ UNCHANGED <<parserVars, taken, waiting, heard>>

\* The last of the messages with channels, if there are any.
Note(messages) ==
  \/ Rc(messages) = {} /\ UNCHANGED heard
  \/ \E i \in Rc(messages) :
       /\ \A j \in Rc(messages) : j <= i
       /\ heard' = <<messages[i]>>

\* loop() reads n bytes of the line, and with them the ends of the first
\* k messages.
Receive ==
  \E n \in Chunks : \E k \in 0 .. Len(queue) :
    LET read(i) == Len(Line(SubSeq(queue, 1, i)))
    IN  /\ taken + n <= read(Len(queue))
        /\ read(k) <= taken + n
        /\ k < Len(queue) => taken + n < read(k + 1)
        /\ Call(SubSeq(Line(queue), taken + 1, taken + n))
        /\ queue' = SubSeq(queue, k + 1, Len(queue))
        /\ taken' = taken + n - read(k)
        /\ waiting' = waiting \o SubSeq(queue, 1, k)
        /\ Note(SubSeq(queue, 1, k))

\* The parser has fewer bytes than before: it has taken a message off.
TakenOff == Len(frame') + Len(input') < Len(frame) + Len(input)

Process ==
  /\ Iterate
  /\ waiting' = SubSeq(waiting, IF TakenOff THEN 2 ELSE 1, Len(waiting))
  /\ UNCHANGED <<queue, taken, heard>>

MixedNext == Send \/ Receive \/ Process

MixedSpec == MixedInit /\ [][MixedNext]_mixedVars

-----------------------------------------------------------------------------
\* The channels of the last message with channels.
LastHeard == IF heard = <<>> THEN Zero ELSE DecodeRc(Frame[heard[1]])

(* The parser stays in step, whatever frames come and whatever their        *)
(* payloads look like: between two calls its buffer starts where a frame    *)
(* starts.  And though frames may wait in the buffer for the next call, no  *)
(* RC frame ever does: the channels are those of the last one received.     *)
StaysInStep ==
  input = <<>> =>
    /\ frame = Line(waiting) \o SubSeq(Line(queue), 1, taken)
    /\ parser_state = "unsynced" => Len(frame) < 3
    /\ Rc(waiting) = {}
    /\ values = LastHeard

-----------------------------------------------------------------------------
Telemetry(i) == queue[i].kind \notin {"rc", "link"}

(* No writer leaves its array, and each fills exactly what its header       *)
(* announces: "check correctness of buffer size", which write_frame_crc     *)
(* has only as a comment.                                                   *)
FramesFit ==
  \A i \in {j \in DOMAIN queue : Telemetry(j)} :
    /\ Len(Frame[queue[i]]) <= BufferSize(queue[i])
    /\ Len(Frame[queue[i]]) = FrameLength(Frame[queue[i]])

(* Telemetry, read by an independent receiver: big endian from index i on.  *)

Word(p, i) == 256 * p[i] + p[i + 1]
Triple(p, i) == 65536 * p[i] + Word(p, i + 1)

\* Two's complement.
SignedByte(b) == IF b >= 128 THEN b - 256 ELSE b
SignedWord(p, i) == 256 * SignedByte(p[i]) + p[i + 1]
SignedQuad(p, i) == 65536 * SignedWord(p, i) + Word(p, i + 2)

\* p is text, and a zero behind it.
IsText(p, text) ==
  /\ Len(p) = Len(text) + 1
  /\ \A i \in 1 .. Len(text) : p[i] = text[i] /\ p[i] # 0
  /\ p[Len(p)] = 0

\* The payload p says what message m says: all of it, but texts only up to 15
\* characters (crsf.h), and the lower 24 bits of the charge.
Understood(m, p) ==
  CASE m.kind = "battery" ->
         /\ Word(p, 1) = m.voltage
         /\ Word(p, 3) = m.current
         /\ Triple(p, 5) = m.fuel % 16777216
         /\ p[8] = m.remaining
    [] m.kind = "gps" ->
         /\ SignedQuad(p, 1) = m.latitude
         /\ SignedQuad(p, 5) = m.longitude
         /\ Word(p, 9) = m.groundspeed
         /\ Word(p, 11) = m.gps_heading
         /\ Word(p, 13) = m.altitude
         /\ p[15] = m.num_satellites
    [] m.kind = "attitude" ->
         /\ SignedWord(p, 1) = m.pitch
         /\ SignedWord(p, 3) = m.roll
         /\ SignedWord(p, 5) = m.yaw
    [] m.kind = "flight_mode" ->
         IsText(p, IF Len(m.text) > 15 THEN SubSeq(m.text, 1, 15) ELSE m.text)

(* Every telemetry frame on the line says what its writer was called with,  *)
(* also at the ends of the ranges: negative angles, coordinates of 32 bits, *)
(* a charge that does not fit 24, a text that is too long, just fits or is  *)
(* empty.                                                                   *)
TelemetryReadsBack ==
  \A i \in {j \in DOMAIN queue : Telemetry(j)} :
    Understood(queue[i], RcPayload(Frame[queue[i]]))

=============================================================================
