------------------------------ MODULE CrsfLink ------------------------------
(***************************************************************************)
(* The parser at the end of a real link: the RC transmitter repeats the    *)
(* same frame for as long as the sticks rest, loop() reads what has come   *)
(* in, and the line or the UART loses bytes or changes one, finitely often.*)
(***************************************************************************)
EXTENDS CrsfParser, FiniteSets

CONSTANTS
  RcFrame,        \* the frame the transmitter repeats, address to checksum
  ReadLengths,    \* the numbers of bytes that a read may find
  Noise,          \* what a disturbed byte may turn into
  MaxFaults       \* bound on losses and disturbances

ASSUME LinkAssumption ==
  /\ ReadLengths \subseteq 1 .. ReadSize
  /\ MaxFaults \in Nat

\* What is sent is a whole and valid RC frame.
ASSUME RcFrameAssumption ==
  /\ RcFrame \in Seq(Byte)
  /\ Len(RcFrame) = RcLength + HeaderSize
  /\ IsValidRc(RcFrame)
  /\ Noise \subseteq Byte

\* No other two bytes of the stream look like the header of an RC frame, not
\* even when one of them is changed.
ASSUME HeaderAssumption ==
  \A i \in (1 .. Len(RcFrame)) \ {2} :
    LET j == (i % Len(RcFrame)) + 1
    IN  /\ RcFrame[i] # RcLength \/ RcFrame[j] # RcType
        /\ RcFrame[i] # RcLength \/ RcType \notin Noise
        /\ RcLength \notin Noise \/ RcFrame[j] # RcType

\* The checksum tells bytes apart, and keeps apart what was: a byte permutes
\* the checksums, and so does a checksum the bytes.
ASSUME ChecksumAssumption ==
  /\ IsFiniteSet(Byte)
  /\ 0 \in Byte
  /\ \A a \in Byte : /\ {Crc8(c, a) : c \in Byte} = Byte
                     /\ {Crc8(a, c) : c \in Byte} = Byte

VARIABLES
  next,           \* index in RcFrame of the next byte on the line
  losses,         \* how often the UART has lost bytes
  changes         \* how many bytes have been changed on the line

linkVars == <<parserVars, next, losses, changes>>

After(n) == ((next + n - 1) % Len(RcFrame)) + 1

\* The next n bytes on the line.
Incoming(n) == [i \in 1 .. n |-> RcFrame[After(i - 1)]]

LinkInit ==
  /\ ParserInit
  /\ next \in 1 .. Len(RcFrame)
  /\ losses = 0
  /\ changes = 0

\* loop() finds n bytes and hands them to crsf_parse.
Listen ==
  \E n \in ReadLengths :
    /\ Call(Incoming(n))
    /\ next' = After(n)
    /\ UNCHANGED <<losses, changes>>

\* A byte that has been changed on the way comes in a read of its own.
ListenDisturbed ==
  /\ losses + changes < MaxFaults
  /\ \E x \in Noise \ {RcFrame[next]} : Call(<<x>>)
  /\ next' = After(1)
  /\ changes' = changes + 1
  /\ UNCHANGED losses

\* The receive buffer of the UART overflows while loop() is busy.
Lose ==
  /\ input = <<>>
  /\ losses + changes < MaxFaults
  /\ \E n \in 1 .. Len(RcFrame) - 1 : next' = After(n)
  /\ losses' = losses + 1
  /\ UNCHANGED <<parserVars, changes>>

ParseBytes ==
  /\ Iterate
  /\ UNCHANGED <<next, losses, changes>>

LinkNext == Listen \/ ListenDisturbed \/ Lose \/ ParseBytes

\* The transmitter does not stop, and neither does loop().
LinkFairness == WF_linkVars(Listen) /\ WF_linkVars(ParseBytes)

LinkSpec == LinkInit /\ [][LinkNext]_linkVars /\ LinkFairness

-----------------------------------------------------------------------------
(* Wherever in the stream the receiver is switched on, however reads cut it *)
(* and whichever byte is changed, wherever that makes the parser believe a  *)
(* frame to start: the only channels handed out are those that were sent.   *)
(* (Not so after a loss or two changes: an eight-bit checksum may also fit  *)
(* a frame that was joined from two, or changed twice.)                     *)
OnlySentValues ==
  losses = 0 /\ changes <= 1 => values \in {Zero, DecodeRc(RcFrame)}

(* The parser always finds back to the frames: channels are decoded again   *)
(* and again, once no more bytes are lost or changed (MaxFaults bounds how  *)
(* many are).  The parser checks no checksum but that of RC frames, "in     *)
(* practise it's robust even without that" (crsf_parse_buffer).             *)
Recovers == []<>ret

=============================================================================
