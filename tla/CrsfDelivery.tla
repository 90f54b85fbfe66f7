---------------------------- MODULE CrsfDelivery ----------------------------
(***************************************************************************)
(* What the CRSF receiver promises its caller, without a buffer: the       *)
(* channel values are those of a valid RC frame that stands, contiguous,   *)
(* in the received line; frames are delivered in the order in which they   *)
(* were received, and no byte of the line serves twice.                    *)
(***************************************************************************)
EXTENDS Integers, Sequences

CONSTANTS
  FrameBytes,      \* length of a whole RC frame
  IsValid(_),      \* whether a whole frame is a valid RC frame
  Decode(_),       \* its channel values
  NoValues         \* the values before the first delivery

VARIABLES
  line,            \* every byte received so far
  cursor,          \* how many of them can never be delivered any more
  delivered        \* the channel values the caller sees

vars == <<line, cursor, delivered>>

Init ==
  /\ line = <<>>
  /\ cursor = 0
  /\ delivered = NoValues

\* Bytes arrive behind the line.
Receive ==
  /\ Len(line) < Len(line')
  /\ \A i \in 1 .. Len(line) : line'[i] = line[i]
  /\ UNCHANGED <<cursor, delivered>>

\* Bytes that form no RC frame are passed over.
Skip ==
  /\ cursor' \in cursor + 1 .. Len(line)
  /\ UNCHANGED <<line, delivered>>

\* A valid frame that starts at or after the cursor is delivered.
Deliver ==
  \E start \in cursor .. Len(line) - FrameBytes :
    LET packet == SubSeq(line, start + 1, start + FrameBytes)
    IN  /\ IsValid(packet)
        /\ delivered' = Decode(packet)
        /\ cursor' = start + FrameBytes
        /\ UNCHANGED line

Next == Receive \/ Skip \/ Deliver

Spec == Init /\ [][Next]_vars

=============================================================================
