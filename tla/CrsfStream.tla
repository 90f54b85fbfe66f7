----------------------------- MODULE CrsfStream -----------------------------
(***************************************************************************)
(* The parser on an arbitrary byte stream, cut into arbitrary reads, with  *)
(* the history that its correctness is about: the whole received line, and *)
(* where in it the parser last threw its buffer away.                      *)
(***************************************************************************)
EXTENDS CrsfParser

CONSTANT
  MaxLine         \* bound on the length of the line

ASSUME MaxLineAssumption == MaxLine \in Nat

VARIABLES
  line,           \* every byte read from the UART, in order
  lost            \* bytes of the line dropped by the last desynchronisation

vars == <<parserVars, line, lost>>

TypeOK ==
  /\ ParserTypeOK
  /\ line \in Seq(Byte)
  /\ lost \in 0 .. Len(line)

\* The bytes that have been copied into the buffer at some time.
Copied == Len(line) - Len(input)

Init ==
  /\ ParserInit
  /\ line = <<>>
  /\ lost = 0

\* loop() reads the next bytes of the line and calls the parser on them.
Read ==
  \E n \in 1 .. ReadSize : \E chunk \in [1 .. n -> Byte] :
    /\ Len(line) + n <= MaxLine
    /\ Call(chunk)
    /\ line' = line \o chunk
    /\ UNCHANGED lost

\* One iteration of crsf_parse.  The buffer is empty and unsynced after it
\* exactly when the iteration has dropped everything it held.
Step ==
  /\ Iterate
  /\ UNCHANGED line
  /\ lost' = IF parser_state' = "unsynced" /\ frame' = <<>>
             THEN Len(line) - Len(input')
             ELSE lost

Next == Read \/ Step

Spec == Init /\ [][Next]_vars

-----------------------------------------------------------------------------
(* The memmoves and the discard leave no gap and no repetition: the filled  *)
(* part of crsf_frame is at all times the last bytes that were copied.      *)
BufferIsLineSuffix ==
  /\ Len(frame) <= Copied
  /\ \A i \in 1 .. Len(frame) : frame[i] = line[Copied - Len(frame) + i]

(* While the parser is unsynced it has missed no frame: since the bytes it  *)
(* last dropped, no RC header (length and type after an address byte) has   *)
(* gone by, even where a discard or a read boundary cut it in two.          *)
NoHeaderMissed ==
  parser_state = "unsynced" =>
    \A j \in lost + 2 .. Copied - 1 : ~ HeaderAt(line, j)

(* The parser implements the abstract receiver: its cursor is the place in  *)
(* the line where the buffer starts.                                        *)
Delivery ==
  INSTANCE CrsfDelivery WITH
    FrameBytes <- RcLength + HeaderSize,
    IsValid <- IsValidRc,
    Decode <- DecodeRc,
    NoValues <- Zero,
    line <- line,
    cursor <- Copied - Len(frame),
    delivered <- values

ImplementsDelivery == Delivery!Spec

=============================================================================
