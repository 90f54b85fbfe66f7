-------------------------------- MODULE Crc8 --------------------------------
(***************************************************************************)
(* The checksum of a CRSF frame, crc8_dvb_s2 in lib/common_rc: one byte    *)
(* folded into the checksum with the polynomial 0xD5, bit by bit.          *)
(***************************************************************************)
EXTENDS Naturals, Bitwise

Polynomial == 213

\* One turn of the loop over the bits; crc is a uint8_t.
ShiftOut(crc) ==
  IF crc >= 128 THEN ((crc * 2) % 256) ^^ Polynomial ELSE crc * 2

Remainder == [crc \in 0 .. 255 |->
  ShiftOut(ShiftOut(ShiftOut(ShiftOut(
    ShiftOut(ShiftOut(ShiftOut(ShiftOut(crc))))))))]

\* Exclusive or of two bytes, as a table: TLC computes it once.
ExclusiveOr == [x \in 0 .. 255 |-> [y \in 0 .. 255 |-> x ^^ y]]

crc8_dvb_s2(crc, a) == Remainder[ExclusiveOr[crc][a]]

=============================================================================
